---------------------------- MODULE BarrierProofs ----------------------------
(***************************************************************************)
(* Proofs about Barrier and BarrierMain, for every number of clients,      *)
(* every threshold and every width of the integers.                        *)
(***************************************************************************)
EXTENDS BarrierMain, FiniteSetTheorems, TLAPS

\* The remainder of a division lies below the divisor.
LEMMA ModType ==
  ASSUME NEW c \in Nat, NEW m \in Nat \ {0}
  PROVE  c % m \in 0..m - 1
  OBVIOUS

\* A number below the divisor is its own remainder.
LEMMA ModSmall ==
  ASSUME NEW c \in Nat, NEW m \in Nat, c < m
  PROVE  c % m = c
  OBVIOUS

\* The assignment of the cycle to an int yields an int.
LEMMA AsIntType ==
  ASSUME NEW c \in Nat
  PROVE  AsInt(c) \in -(INT_MAX + 1)..INT_MAX
  <1> DEFINE m == c % (2 * (INT_MAX + 1))
  <1>1. INT_MAX \in Nat
    BY BarrierAssumption
  <1>2. 2 * (INT_MAX + 1) \in Nat \ {0}
    BY <1>1
  <1>3. m \in 0..2 * (INT_MAX + 1) - 1
    BY <1>2, ModType
  <1>4. AsInt(c) = IF m > INT_MAX THEN m - 2 * (INT_MAX + 1) ELSE m
    BY DEF AsInt
  <1> HIDE DEF m
  <1> QED  BY <1>1, <1>3, <1>4

\* Up to INT_MAX the int copy of the cycle compares equal to the cycle.
LEMMA AsIntExact ==
  ASSUME NEW c \in Nat, c <= INT_MAX
  PROVE  AsInt(c) = c /\ AsULong(c) = c
  <1>1. INT_MAX \in Nat
    BY BarrierAssumption
  <1>2. c % (2 * (INT_MAX + 1)) = c
    BY <1>1, ModSmall
  <1> QED  BY <1>1, <1>2 DEF AsInt, AsULong

-----------------------------------------------------------------------------
(* Type correctness, whatever the widths and however many waits fail.      *)

\* Init establishes the type invariant.
LEMMA InitTypeOK == Init => TypeOK
  BY BarrierAssumption DEF Init, TypeOK

\* Every step preserves the type invariant.
LEMMA NextTypeOK == TypeOK /\ [Next]_bvars => TypeOK'
  <1> SUFFICES ASSUME TypeOK, [Next]_bvars PROVE TypeOK'
    OBVIOUS
  <1>0. /\ threshold \in Nat \ {0} /\ INT_MAX \in Nat /\ ULONG_MAX \in Nat
        /\ MaxWaitFailures \in Nat
    BY BarrierAssumption
  <1>1. ASSUME NEW t \in Clients, Call(t) PROVE TypeOK'
    BY <1>1 DEF Call, TypeOK
  <1>2. ASSUME NEW t \in Clients, CompleteCycle(t) PROVE TypeOK'
    <2>1. AsInt(cycle) \in -(INT_MAX + 1)..INT_MAX
      BY <1>0, AsIntType DEF TypeOK
    <2>2. cycle' \in 0..ULONG_MAX /\ counter' \in 1..threshold
      BY <1>0, <1>2 DEF CompleteCycle, Increment, TypeOK
    <2>3. pc' \in [Clients -> {"out", "locking", "waiting", "woken"}]
      BY <1>2 DEF CompleteCycle, Broadcast, TypeOK
    <2> QED  BY <1>2, <2>1, <2>2, <2>3 DEF CompleteCycle, TypeOK
  <1>3. ASSUME NEW t \in Clients, NEW c, WaitOrLeave(t, c)
        PROVE  /\ pc' \in [Clients -> {"out", "locking", "waiting", "woken"}]
               /\ status' \in [Clients -> {-1, 0, EPERM, EINVAL}]
    BY <1>3 DEF WaitOrLeave, TypeOK
  <1>4. ASSUME NEW t \in Clients, Arrive(t) PROVE TypeOK'
    <2>1. AsInt(cycle) \in -(INT_MAX + 1)..INT_MAX
      BY <1>0, AsIntType DEF TypeOK
    <2>2. counter' \in 1..threshold
      BY <1>0, <1>4 DEF Arrive, TypeOK
    <2> QED  BY <1>3, <1>4, <2>1, <2>2 DEF Arrive, TypeOK
  <1>5. ASSUME NEW t \in Clients, Wake(t) PROVE TypeOK'
    BY <1>3, <1>5 DEF Wake, TypeOK
  <1>6. ASSUME NEW t \in Clients, SpuriousWakeup(t) PROVE TypeOK'
    BY <1>6 DEF SpuriousWakeup, TypeOK
  <1>7. ASSUME NEW t \in Clients, WaitFailed(t) PROVE TypeOK'
    <2>1. failures' \in 0..MaxWaitFailures
      BY <1>0, <1>7 DEF WaitFailed, TypeOK
    <2> QED  BY <1>7, <2>1 DEF WaitFailed, TypeOK
  <1>8. ASSUME NEW d, Destroy(d) PROVE TypeOK'
    BY <1>8 DEF Destroy, TypeOK
  <1>9. CASE UNCHANGED bvars
    BY <1>9 DEF bvars, TypeOK
  <1> QED  BY <1>1, <1>2, <1>4, <1>5, <1>6, <1>7, <1>8, <1>9 DEF Next, Step, InWait

\* Type correctness: barrier->counter stays between 1 and the threshold at
\* every unlock, so a cycle is always completed by some later arrival.
THEOREM TypeCorrect == Spec => []TypeOK
  BY InitTypeOK, NextTypeOK, PTL DEF Spec

-----------------------------------------------------------------------------
(* The barrier implements the abstract one while the cycle fits an int.    *)

\* The inductive invariant: the remembered cycles are not in the future, the
\* counter counts who has gathered, and sleepers belong to the open cycle.
IInv ==
  /\ TypeOK
  /\ cycle <= MaxCycles
  /\ \A t \in Clients : Inside(t) => mine[t] \in 0..cycle
  /\ ReleasedAwake
  /\ CounterMatches

\* The clients of the open cycle form a finite set.
LEMMA FiniteGathered == IsFiniteSet(Gathered) /\ Cardinality(Gathered) \in Nat
  <1>1. Gathered \subseteq Clients
    BY DEF Gathered
  <1> QED  BY <1>1, FS_Subset, FS_CardinalityType, BarrierAssumption

\* The abstract barrier counts with the same cardinality.
LEMMA SameCardinality == \A S : Abstract!Cardinality(S) = Cardinality(S)
  BY DEF Abstract!Cardinality, Cardinality

\* Init establishes the invariant.
LEMMA InitIInv == Init => IInv
  <1> SUFFICES ASSUME Init PROVE IInv
    OBVIOUS
  <1>1. Gathered = {}
    BY DEF Init, Gathered, Inside
  <1>2. CounterMatches
    BY <1>1, FS_EmptySet, BarrierAssumption DEF Init, CounterMatches
  <1> QED  BY <1>2, InitTypeOK, BarrierAssumption DEF Init, IInv, ReleasedAwake, Inside

\* A step that moves a client between "out" and "locking", or between
\* "waiting" and "woken" in the open cycle, is invisible.
LEMMA Invisible ==
  ASSUME IInv, TypeOK', NEW t \in Clients, NEW to \in {"out", "locking", "waiting", "woken"},
         pc' = [pc EXCEPT ![t] = to],
         Inside(t) <=> to \in {"waiting", "woken"},
         to = "waiting" => t \in Gathered,
         UNCHANGED <<counter, cycle, mine, failures>>
  PROVE  IInv' /\ UNCHANGED <<Gathered, Released>>
  <1>1. Gathered' = Gathered /\ Released' = Released
    BY DEF Gathered, Released, Inside, IInv, TypeOK
  <1>2. CounterMatches'
    BY <1>1 DEF CounterMatches, IInv
  <1>3. ReleasedAwake'
    BY <1>1 DEF ReleasedAwake, IInv, TypeOK
  <1> QED  BY <1>1, <1>2, <1>3 DEF IInv, Inside, TypeOK

\* Completing a cycle releases everybody who has gathered.
LEMMA CompleteStep ==
  ASSUME MaxCycles <= INT_MAX, IInv, TypeOK', NEW t \in Clients, CompleteCycle(t)
  PROVE  IInv' /\ (failures' = 0 => Abstract!Complete(t))
  <1>0. /\ cycle \in Nat /\ cycle < MaxCycles /\ MaxCycles < ULONG_MAX
        /\ threshold \in Nat \ {0} /\ counter \in Nat
        /\ MaxCycles \in Nat /\ ULONG_MAX \in Nat
    BY BarrierAssumption DEF IInv, TypeOK, CompleteCycle
  <1>1. cycle' = cycle + 1 /\ counter = 1 /\ counter' = threshold
    BY <1>0 DEF CompleteCycle, Increment
  <1>2. pc[t] = "locking" /\ pc'[t] = "out" /\ pc \in [Clients -> {"out", "locking", "waiting", "woken"}]
    BY DEF CompleteCycle, Broadcast, IInv, TypeOK
  <1>3. \A u \in Clients : (Inside(u) <=> Inside(u)') /\ pc'[u] # "waiting"
    BY <1>2 DEF Inside, CompleteCycle, Broadcast
  <1>4. \A u \in Clients : Inside(u) => mine'[u] = mine[u] /\ mine[u] \in 0..cycle
    BY <1>2 DEF Inside, CompleteCycle, IInv, TypeOK
  <1>5. \A u \in Clients : Inside(u) => mine'[u] # cycle' /\ mine'[u] \in 0..cycle'
    BY <1>0, <1>1, <1>4
  <1>6. Gathered' = {}
    BY <1>3, <1>5 DEF Gathered
  <1>7. Released' = Released \cup Gathered
    BY <1>3, <1>4, <1>5 DEF Gathered, Released
  <1>8. CounterMatches'
    BY <1>0, <1>1, <1>6, FS_EmptySet DEF CounterMatches
  <1>9. ReleasedAwake'
    BY <1>3 DEF ReleasedAwake
  <1>10. cycle' <= MaxCycles
    BY <1>0, <1>1, BarrierAssumption
  <1>11. IInv'
    BY <1>3, <1>5, <1>8, <1>9, <1>10 DEF IInv, CompleteCycle
  <1>12. failures' = 0 => Cardinality(Gathered) + 1 = threshold
    BY <1>0, <1>1, FiniteGathered DEF IInv, CounterMatches, CompleteCycle
  <1>13. t \notin Gathered \cup Released
    BY <1>2 DEF Gathered, Released, Inside
  <1> QED  BY <1>6, <1>7, <1>11, <1>12, <1>13, SameCardinality DEF Abstract!Complete, CompleteCycle

\* An arrival that does not complete the cycle gathers.
LEMMA ArriveStep ==
  ASSUME MaxCycles <= INT_MAX, IInv, TypeOK', NEW t \in Clients, Arrive(t)
  PROVE  IInv' /\ (failures' = 0 => Abstract!Gather(t))
  <1>0. /\ cycle \in Nat /\ cycle <= INT_MAX /\ threshold \in Nat \ {0}
        /\ counter \in 1..threshold /\ counter' = counter - 1 /\ counter - 1 # 0
        /\ cycle' = cycle /\ pc \in [Clients -> {"out", "locking", "waiting", "woken"}]
    BY BarrierAssumption DEF IInv, TypeOK, Arrive
  <1>1. AsInt(cycle) = cycle /\ AsULong(cycle) = cycle
    BY <1>0, AsIntExact
  <1>2. /\ pc' = [pc EXCEPT ![t] = "waiting"] /\ status' = status
        /\ mine' = [mine EXCEPT ![t] = cycle] /\ pc[t] = "locking"
    BY <1>1 DEF Arrive, WaitOrLeave
  <1>3. \A u \in Clients \ {t} : pc'[u] = pc[u] /\ mine'[u] = mine[u]
    BY <1>0, <1>2 DEF IInv, TypeOK
  <1>4. pc'[t] = "waiting" /\ mine'[t] = cycle
    BY <1>0, <1>2 DEF IInv, TypeOK
  <1>5. Gathered' = Gathered \cup {t} /\ Released' = Released
    BY <1>0, <1>2, <1>3, <1>4 DEF Gathered, Released, Inside
  <1>6. t \notin Gathered \cup Released
    BY <1>2 DEF Gathered, Released, Inside
  <1>7. Cardinality(Gathered') = Cardinality(Gathered) + 1
    BY <1>5, <1>6, FiniteGathered, FS_AddElement
  <1>8. CounterMatches'
    BY <1>0, <1>7, FiniteGathered DEF CounterMatches, IInv, Arrive
  <1>9. ReleasedAwake'
    BY <1>3, <1>5 DEF ReleasedAwake, IInv
  <1>10. \A u \in Clients : Inside(u)' => mine'[u] \in 0..cycle'
    BY <1>0, <1>3, <1>4 DEF Inside, IInv
  <1>11. IInv'
    BY <1>0, <1>8, <1>9, <1>10 DEF IInv, Arrive
  <1>12. failures' = 0 => Cardinality(Gathered) + 1 < threshold
    BY <1>0, FiniteGathered DEF IInv, CounterMatches, Arrive
  <1> QED  BY <1>2, <1>5, <1>6, <1>11, <1>12, SameCardinality DEF Abstract!Gather

\* A client back from the wait goes back to sleep in the open cycle and
\* leaves after a finished one.
LEMMA WakeStep ==
  ASSUME MaxCycles <= INT_MAX, IInv, TypeOK', NEW t \in Clients, Wake(t)
  PROVE  IInv' /\ (Abstract!Leave(t) \/ UNCHANGED <<Gathered, Released, status>>)
  <1>0. /\ pc[t] = "woken" /\ Inside(t) /\ cycle \in Nat /\ cycle <= INT_MAX
        /\ mine[t] \in 0..cycle
        /\ UNCHANGED <<valid, counter, cycle, mine, failures>>
    BY BarrierAssumption DEF Wake, Inside, IInv, TypeOK
  <1>1. AsULong(mine[t]) = mine[t]
    BY <1>0 DEF AsULong
  <1>2. CASE mine[t] = cycle
    <2>1. pc' = [pc EXCEPT ![t] = "waiting"] /\ status' = status /\ t \in Gathered
      BY <1>0, <1>1, <1>2 DEF Wake, WaitOrLeave, Gathered
    <2> QED  BY <1>0, <2>1, Invisible
  <1>3. CASE mine[t] # cycle
    <2>1. pc' = [pc EXCEPT ![t] = "out"] /\ status' = [status EXCEPT ![t] = 0]
      BY <1>0, <1>1, <1>3 DEF Wake, WaitOrLeave
    <2>2. t \in Released /\ Released' = Released \ {t} /\ Gathered' = Gathered
      BY <1>0, <1>3, <2>1 DEF Released, Gathered, Inside, IInv, TypeOK
    <2>3. CounterMatches'
      BY <1>0, <2>2 DEF IInv, CounterMatches
    <2>4. ReleasedAwake'
      BY <2>1, <2>2 DEF IInv, TypeOK, ReleasedAwake
    <2>5. IInv'
      BY <1>0, <2>1, <2>3, <2>4 DEF IInv, TypeOK, Inside
    <2> QED  BY <2>1, <2>2, <2>5 DEF Abstract!Leave
  <1> QED  BY <1>2, <1>3

\* A client whose wait fails is no longer gathered, but stays counted.
LEMMA WaitFailedStep ==
  ASSUME IInv, TypeOK', NEW t \in Clients, WaitFailed(t)
  PROVE  IInv' /\ failures' # 0
  <1>0. /\ pc' = [pc EXCEPT ![t] = "out"] /\ UNCHANGED <<valid, counter, cycle, mine>>
        /\ pc \in [Clients -> {"out", "locking", "waiting", "woken"}]
        /\ t \in Gathered /\ threshold \in Nat /\ counter \in 1..threshold
    BY BarrierAssumption DEF WaitFailed, IInv, TypeOK, ReleasedAwake
  <1>1. failures' # 0
    BY BarrierAssumption DEF WaitFailed, IInv, TypeOK
  <1>2. Gathered' = Gathered \ {t}
    BY <1>0 DEF Gathered, Inside
  <1>3. Cardinality(Gathered') = Cardinality(Gathered) - 1
    BY <1>0, <1>2, FiniteGathered, FS_RemoveElement
  <1>4. CounterMatches'
    BY <1>0, <1>1, <1>3, FiniteGathered DEF IInv, CounterMatches
  <1>5. ReleasedAwake'
    BY <1>0, <1>2 DEF IInv, ReleasedAwake
  <1> QED  BY <1>0, <1>1, <1>4, <1>5 DEF IInv, Inside

\* A step that changes neither the clients nor the counters is invisible.
LEMMA Untouched ==
  ASSUME IInv, TypeOK', UNCHANGED <<counter, cycle, pc, mine, failures>>
  PROVE  IInv' /\ UNCHANGED <<Gathered, Released>>
  BY DEF IInv, ReleasedAwake, CounterMatches, Gathered, Released, Inside

\* Every step preserves the invariant and, until a wait fails or the barrier
\* is destroyed, is a step of the abstract barrier or invisible to it.
LEMMA NextRefines ==
  ASSUME MaxCycles <= INT_MAX, IInv, [Next]_bvars
  PROVE  IInv' /\ [valid' /\ failures' = 0 => Abstract!ANext]_(Abstract!avars)
  <1> DEFINE Goal == IInv' /\ [valid' /\ failures' = 0 => Abstract!ANext]_(Abstract!avars)
  <1>0. TypeOK'
    BY NextTypeOK DEF IInv
  <1>1. ASSUME NEW t \in Clients, Call(t) PROVE Goal
    <2>1. CASE valid
      <3>1. pc' = [pc EXCEPT ![t] = "locking"] /\ status' = status /\ pc[t] = "out"
        BY <1>1, <2>1 DEF Call
      <3> QED  BY <1>0, <1>1, <3>1, Invisible DEF Call, Inside, Abstract!avars
    <2>2. CASE ~valid
      <3>1. pc' = pc /\ ~valid'
        BY <1>1, <2>2 DEF Call
      <3> QED  BY <1>0, <1>1, <3>1, Untouched DEF Call
    <2> QED  BY <2>1, <2>2
  <1>2. ASSUME NEW t \in Clients, SpuriousWakeup(t) PROVE Goal
    BY <1>0, <1>2, Invisible DEF SpuriousWakeup, Inside, Abstract!avars
  <1>3. ASSUME NEW t \in Clients, WaitFailed(t) PROVE Goal
    BY <1>0, <1>3, WaitFailedStep
  <1>4. ASSUME NEW d, Destroy(d) PROVE Goal
    BY <1>0, <1>4, Untouched DEF Destroy, Abstract!avars
  <1>5. CASE UNCHANGED bvars
    BY <1>0, <1>5, Untouched DEF bvars, Abstract!avars
  <1>6. ASSUME NEW t \in Clients, InWait(t) PROVE Goal
    BY <1>0, <1>6, CompleteStep, ArriveStep, WakeStep
    DEF InWait, Abstract!ANext, Abstract!avars
  <1> QED  BY <1>1, <1>2, <1>3, <1>4, <1>5, <1>6 DEF Next, Step

\* The initial states correspond.
LEMMA InitRefines == Init => Abstract!AInit
  BY DEF Init, Abstract!AInit, Gathered, Released, Inside

\* While the cycle fits an int no client of a finished cycle is left asleep on
\* barrier->cv, and the counter is exact until a wait fails and never hides a
\* waiting client.
THEOREM BarrierInvariant ==
  ASSUME MaxCycles <= INT_MAX
  PROVE  Spec => []BarrierInv
  <1>1. IInv /\ [Next]_bvars => IInv'
    BY NextRefines
  <1>2. IInv => BarrierInv
    BY DEF IInv, BarrierInv
  <1> QED  BY <1>1, <1>2, InitIInv, PTL DEF Spec

\* barrier_wait implements the abstract barrier: no client returns before its
\* group of exactly threshold callers is complete, and one of each group gets
\* -1, while the cycle fits an int, no wait fails and the barrier lives.
THEOREM Refinement ==
  ASSUME MaxCycles <= INT_MAX
  PROVE  Spec => Implements
  <1>1. IInv /\ [Next]_bvars
          => IInv' /\ [valid' /\ failures' = 0 => Abstract!ANext]_(Abstract!avars)
    BY NextRefines
  <1> QED  BY <1>1, InitIInv, InitRefines, PTL DEF Spec, Implements

\* barrier_destroy succeeds only when nobody waits in an open cycle.
THEOREM DestroyRefuses ==
  ASSUME MaxCycles <= INT_MAX
  PROVE  Spec => DestroyRefusesGathered
  <1>1. IInv /\ [Next]_bvars => [valid /\ ~valid' => Gathered = {}]_bvars
    <2> SUFFICES ASSUME IInv, Next, valid, ~valid' PROVE Gathered = {}
      OBVIOUS
    <2>1. ASSUME NEW t \in Clients PROVE ~Step(t) /\ ~Call(t)
      BY DEF Step, Call, InWait, CompleteCycle, Arrive, Wake, SpuriousWakeup, WaitFailed
    <2>2. counter = threshold
      BY <2>1 DEF Next, Destroy
    <2>3. Cardinality(Gathered) = 0
      BY <2>2, FiniteGathered, BarrierAssumption DEF IInv, CounterMatches
    <2> QED  BY <2>3, FiniteGathered, FS_EmptySet
  <1>2. IInv /\ [Next]_bvars => IInv'
    BY NextRefines
  <1> QED  BY <1>1, <1>2, InitIInv, PTL DEF Spec, DestroyRefusesGathered
-----------------------------------------------------------------------------
(* The program of barrier_main.c.                                          *)

\* Where main is, and what that says of the threads.
MainAt ==
  /\ Running => valid
  /\ main = "create" => \A t \in Clients : at[t] = "unborn" <=> t >= n
  /\ main \in {"join", "destroy", "exit"} => \A t \in Clients : at[t] # "unborn"
  /\ main = "join" => \A t \in Clients : t < n => at[t] = "done"
  /\ main \in {"destroy", "exit"} => \A t \in Clients : at[t] = "done"

\* Where a thread is, and what that says of its locals.
ThreadAt(t) ==
  /\ pc[t] # "out" => at[t] \in {"adding", "deciding"} /\ step[t] = 0
  /\ at[t] \notin {"adding", "updating"} => step[t] = 0
  /\ at[t] = "adding" => step[t] < INLOOPS * ARRAY
  /\ at[t] = "updating" => step[t] < threshold
  /\ at[t] \in {"first", "adding", "second", "deciding", "updating"} => out_loop[t] <= OUTLOOPS
  /\ at[t] = "unborn" => out_loop[t] = 0
  /\ at[t] = "done" => out_loop[t] = OUTLOOPS + 1

\* The invariant of the program's control, whatever fails.
Control == IInv /\ MTypeOK /\ MainAt /\ \A t \in Clients : ThreadAt(t)

\* The thread that got -1 at the end of a round, until it has changed the increments.
Chosen(t) ==
  \/ at[t] = "deciding" /\ pc[t] = "out" /\ status[t] = -1
  \/ at[t] = "updating"

\* Until a wait fails all threads are in the same cycle, those that have gathered
\* one call ahead, and one is chosen.
InPhase ==
  failures = 0 =>
    /\ \A t \in Clients : Arrivals(t) = cycle + (IF t \in Gathered THEN 1 ELSE 0)
    /\ \A t, u \in Clients : Chosen(t) /\ Chosen(u) => t = u

\* The increments: one more for every round over, and for those the chosen thread
\* has come to.
Increments ==
  failures = 0 =>
    \A u \in Clients : at[u] # "unborn" =>
      /\ \A t \in Clients : Chosen(t) =>
           increment[u] = u + out_loop[t] + (IF u < step[t] THEN 1 ELSE 0)
      /\ (\A t \in Clients : ~Chosen(t)) =>
           \A r \in Nat : cycle \in {2 * r, 2 * r + 1} => increment[u] = u + r

\* The rounds that thread t has added to its array.
Rounds(t) == out_loop[t] + IF at[t] \in {"second", "deciding", "updating"} THEN 1 ELSE 0

\* In the adding loop, after q times through the array and m elements of the next.
PartlyAdded(t) ==
  \E q \in Nat, m \in Elements :
    /\ step[t] = q * ARRAY + m
    /\ \A k \in Elements :
         arrays[t][k] = Expected(t, k, out_loop[t]) + (t + out_loop[t]) * (q + (IF k < m THEN 1 ELSE 0))

\* What the array of a thread holds.
Summed(t) ==
  at[t] # "unborn" =>
    /\ Adding(t) => PartlyAdded(t)
    /\ ~Adding(t) => \A k \in Elements : arrays[t][k] = Expected(t, k, Rounds(t))

\* The arrays.
Additions == failures = 0 => \A t \in Clients : Summed(t)

\* What main has printed and been told.
Printed ==
  failures = 0 =>
    /\ \A t \in Clients : main \in {"destroy", "exit"} \/ (main = "join" /\ t < n) =>
         \A k \in Elements : printed[t][k] = Expected(t, k, OUTLOOPS + 1)
    /\ main = "exit" => destroyed = 0

\* What the constants say.
LEMMA Sizes ==
  ASSUME ThreadNumbers
  PROVE  /\ threshold \in Nat \ {0} /\ Clients = 0..threshold - 1 /\ 0 \in Clients
         /\ ARRAY \in Nat \ {0} /\ INLOOPS \in Nat \ {0} /\ OUTLOOPS \in Nat
         /\ INLOOPS * ARRAY \in Nat \ {0}
         /\ \A c \in Clients : c \in Int /\ 0 <= c /\ c < threshold
         /\ \A c \in Nat : c < threshold => c \in Clients
  <1>1. /\ threshold \in Nat \ {0} /\ Clients = 0..threshold - 1
        /\ ARRAY \in Nat \ {0} /\ INLOOPS \in Nat \ {0} /\ OUTLOOPS \in Nat
    BY BarrierAssumption, MainAssumption DEF ThreadNumbers
  <1>2. INLOOPS * ARRAY \in Nat \ {0}
    BY <1>1
  <1> QED  BY <1>1, <1>2

\* The steps of the program are steps of the barrier or leave it alone: the
\* barrier is valid as long as a thread runs.
LEMMA StepOfBarrier ==
  ASSUME MainAt, [MNext]_vars
  PROVE  [Next]_bvars
  <1>1. ASSUME NEW t \in Clients, Running, Step(t) PROVE Next
    BY <1>1 DEF MainAt, Next
  <1>2. ASSUME NEW t \in Clients, ThreadStep(t) \/ Disturb(t) PROVE [Next]_bvars
    BY <1>1, <1>2
    DEF ThreadStep, Disturb, Enter, InBarrier, Add, Decide, Update, Step
  <1>3. ASSUME MainStep PROVE [Next]_bvars
    BY <1>3 DEF MainStep, Create, Join, Finish, Next
  <1> QED  BY <1>2, <1>3 DEF MNext, vars, bvars

\* Inside the barrier nobody starts a call, and the barrier stays valid.
LEMMA NobodyCalls ==
  ASSUME TypeOK, NEW t \in Clients, InWait(t) \/ SpuriousWakeup(t) \/ WaitFailed(t)
  PROVE  /\ valid' = valid /\ pc[t] # "out"
         /\ \A u \in Clients : pc'[u] # "out" => pc[u] # "out"
  <1>1. CASE CompleteCycle(t)
    BY <1>1 DEF CompleteCycle, Broadcast, TypeOK
  <1>2. CASE Arrive(t)
    BY <1>2 DEF Arrive, WaitOrLeave, TypeOK
  <1>3. CASE Wake(t)
    BY <1>3 DEF Wake, WaitOrLeave, TypeOK
  <1>4. CASE SpuriousWakeup(t)
    BY <1>4 DEF SpuriousWakeup, TypeOK
  <1>5. CASE WaitFailed(t)
    BY <1>5 DEF WaitFailed, TypeOK
  <1> QED  BY <1>1, <1>2, <1>3, <1>4, <1>5 DEF InWait

\* The initial states.
LEMMA InitControl ==
  ASSUME ThreadNumbers, MInit
  PROVE  Control
  <1>1. IInv /\ TypeOK
    BY InitIInv DEF MInit, IInv
  <1>2. MTypeOK
    BY <1>1, Sizes DEF MInit, MTypeOK, Elements
  <1>3. MainAt
    BY Sizes DEF MInit, Init, MainAt, Running
  <1>4. \A t \in Clients : ThreadAt(t)
    BY Sizes DEF MInit, Init, ThreadAt
  <1> QED  BY <1>1, <1>2, <1>3, <1>4 DEF Control

\* The values of a thread's locals.
LEMMA Locals ==
  ASSUME ThreadNumbers, Control, NEW t \in Clients
  PROVE  /\ step[t] \in Nat /\ increment[t] \in Nat
         /\ out_loop[t] \in Int /\ 0 <= out_loop[t] /\ out_loop[t] <= OUTLOOPS + 1
         /\ at[t] \in {"unborn", "first", "adding", "second", "deciding", "updating", "done"}
         /\ pc[t] \in {"out", "locking", "waiting", "woken"}
         /\ status[t] \in {-1, 0, EPERM, EINVAL}
         /\ ThreadAt(t)
  <1>1. MTypeOK /\ TypeOK /\ ThreadAt(t)
    BY DEF Control, MTypeOK
  <1>2. out_loop[t] \in 0..OUTLOOPS + 1
    BY <1>1 DEF MTypeOK
  <1>3. out_loop[t] \in Int /\ 0 <= out_loop[t] /\ out_loop[t] <= OUTLOOPS + 1
    BY <1>2, Sizes
  <1>4. pc[t] \in {"out", "locking", "waiting", "woken"} /\ status[t] \in {-1, 0, EPERM, EINVAL}
    BY <1>1 DEF TypeOK
  <1> QED  BY <1>1, <1>3, <1>4 DEF MTypeOK

\* A thread that stays where it is.
LEMMA Stays ==
  ASSUME NEW u \in Clients, ThreadAt(u),
         pc'[u] = pc[u], at'[u] = at[u], step'[u] = step[u], out_loop'[u] = out_loop[u]
  PROVE  ThreadAt(u)'
  BY DEF ThreadAt

\* A thread that moves on to another place.
LEMMA EnterControl ==
  ASSUME ThreadNumbers, Control, TypeOK', NEW t \in Clients, Enter(t)
  PROVE  MTypeOK' /\ MainAt' /\ \A u \in Clients : ThreadAt(u)'
  <1>1. /\ valid /\ valid' = valid /\ pc[t] = "out" /\ pc' = [pc EXCEPT ![t] = "locking"]
        /\ UNCHANGED <<out_loop, step, increment, arrays, main, n, printed, destroyed>>
    BY DEF Control, MainAt, Enter, Call, data, mvars
  <1>2. \/ at[t] = "first" /\ at' = [at EXCEPT ![t] = "adding"]
        \/ at[t] = "second" /\ at' = [at EXCEPT ![t] = "deciding"]
    BY DEF Enter
  <1>3. MTypeOK'
    BY <1>1, <1>2 DEF Control, MTypeOK
  <1>4. MainAt'
    BY <1>1, <1>2 DEF Control, MTypeOK, MainAt, Running
  <1>5. ASSUME NEW u \in Clients PROVE ThreadAt(u)'
    <2>1. CASE u # t
      BY <1>1, <1>2, <2>1, Locals, Stays DEF Control, MTypeOK, TypeOK
    <2>2. CASE u = t
      <3>1. /\ pc'[t] = "locking" /\ step'[t] = step[t] /\ out_loop'[t] = out_loop[t]
            /\ \/ at[t] = "first" /\ at'[t] = "adding"
               \/ at[t] = "second" /\ at'[t] = "deciding"
        BY <1>1, <1>2 DEF Control, MTypeOK, TypeOK
      <3>2. ThreadAt(t)
        BY Locals
      <3> QED  BY <2>2, <3>1, <3>2, Sizes DEF ThreadAt
    <2> QED  BY <2>1, <2>2
  <1> QED  BY <1>3, <1>4, <1>5

\* A step inside the barrier.
LEMMA BarrierControl ==
  ASSUME ThreadNumbers, Control, TypeOK', NEW t \in Clients, InBarrier(t) \/ Disturb(t)
  PROVE  MTypeOK' /\ MainAt' /\ \A u \in Clients : ThreadAt(u)'
  <1>1. /\ UNCHANGED <<at, out_loop, step, increment, arrays, main, n, printed, destroyed>>
        /\ InWait(t) \/ SpuriousWakeup(t) \/ WaitFailed(t)
    BY DEF InBarrier, Disturb, tvars, data, mvars
  <1>2. valid' = valid /\ \A u \in Clients : pc'[u] # "out" => pc[u] # "out"
    BY <1>1, NobodyCalls DEF Control, MTypeOK
  <1>3. MTypeOK'
    BY <1>1 DEF Control, MTypeOK
  <1>4. MainAt'
    BY <1>1, <1>2 DEF Control, MainAt, Running
  <1> QED  BY <1>1, <1>2, <1>3, <1>4 DEF Control, ThreadAt

\* A step of the adding loop.
LEMMA AddControl ==
  ASSUME ThreadNumbers, Control, TypeOK', NEW t \in Clients, Add(t)
  PROVE  MTypeOK' /\ MainAt' /\ \A u \in Clients : ThreadAt(u)'
  <1> DEFINE last == step[t] + 1 = INLOOPS * ARRAY
  <1> DEFINE e == step[t] % ARRAY
  <1>1. /\ UNCHANGED <<bvars, valid, pc, out_loop, increment, main, n, printed, destroyed>>
        /\ at[t] = "adding" /\ pc[t] = "out"
        /\ step' = [step EXCEPT ![t] = IF last THEN 0 ELSE step[t] + 1]
        /\ at' = [at EXCEPT ![t] = IF last THEN "second" ELSE at[t]]
        /\ arrays' = [arrays EXCEPT ![t] = [arrays[t] EXCEPT ![e] = arrays[t][e] + increment[t]]]
    BY DEF Add, Adding, bvars, mvars
  <1>2. step[t] \in Nat /\ e \in Elements
    BY Sizes, ModType DEF Control, MTypeOK, Elements
  <1> HIDE DEF e
  <1>3. arrays[t] \in [Elements -> Nat] /\ arrays[t][e] + increment[t] \in Nat
    BY <1>2 DEF Control, MTypeOK
  <1>4. [arrays[t] EXCEPT ![e] = arrays[t][e] + increment[t]] \in [Elements -> Nat]
    BY <1>3
  <1>5. arrays' \in [Clients -> [Elements -> Nat]]
    BY <1>1, <1>4 DEF Control, MTypeOK
  <1>6. MTypeOK'
    BY <1>1, <1>2, <1>5 DEF Control, MTypeOK
  <1>7. MainAt'
    BY <1>1 DEF Control, MTypeOK, MainAt, Running
  <1>8. ASSUME NEW u \in Clients PROVE ThreadAt(u)'
    <2>1. ThreadAt(u) /\ ThreadAt(t)
      BY DEF Control
    <2>2. step[t] + 1 < INLOOPS * ARRAY \/ last
      BY <1>1, <1>2, <2>1, Sizes DEF ThreadAt
    <2> QED  BY <1>1, <1>2, <2>1, <2>2, Sizes DEF Control, MTypeOK, ThreadAt
  <1> QED  BY <1>6, <1>7, <1>8

\* The end of a round, for a thread that is outside the barrier.
LEMMA RoundControl ==
  ASSUME ThreadNumbers, Control, NEW t \in Clients, NextRound(t), at[t] \in {"deciding", "updating"}
  PROVE  /\ at'[t] = IF out_loop[t] + 1 <= OUTLOOPS THEN "first" ELSE "done"
         /\ out_loop'[t] = out_loop[t] + 1 /\ out_loop'[t] <= OUTLOOPS + 1
         /\ at' \in [Clients -> {"unborn", "first", "adding", "second", "deciding", "updating", "done"}]
         /\ out_loop' \in [Clients -> 0..OUTLOOPS + 1]
         /\ \A u \in Clients \ {t} : at'[u] = at[u] /\ out_loop'[u] = out_loop[u]
  <1>1. out_loop[t] \in Int /\ 0 <= out_loop[t] /\ out_loop[t] <= OUTLOOPS
    BY Locals, Sizes DEF ThreadAt
  <1>2. out_loop[t] + 1 \in 0..OUTLOOPS + 1
    BY <1>1, Sizes
  <1>3. /\ out_loop' = [out_loop EXCEPT ![t] = out_loop[t] + 1]
        /\ at' = [at EXCEPT ![t] = IF out_loop[t] + 1 <= OUTLOOPS THEN "first" ELSE "done"]
    BY DEF NextRound
  <1>4. out_loop'[t] = out_loop[t] + 1 /\ out_loop' \in [Clients -> 0..OUTLOOPS + 1]
    BY <1>2, <1>3 DEF Control, MTypeOK
  <1>5. out_loop'[t] <= OUTLOOPS + 1
    BY <1>1, <1>4, Sizes
  <1> QED  BY <1>3, <1>4, <1>5 DEF Control, MTypeOK

\* Where a thread is at the end of a round.
LEMMA RoundThread ==
  ASSUME ThreadNumbers, Control, NEW t \in Clients, out_loop'[t] = out_loop[t] + 1, out_loop'[t] <= OUTLOOPS + 1,
         at'[t] = IF out_loop[t] + 1 <= OUTLOOPS THEN "first" ELSE "done", step'[t] = 0, pc'[t] = "out"
  PROVE  ThreadAt(t)'
  <1>1. OUTLOOPS \in Int /\ out_loop[t] \in Int
    BY Locals, Sizes
  <1>2. \/ at'[t] = "first" /\ out_loop'[t] <= OUTLOOPS
        \/ at'[t] = "done" /\ out_loop'[t] = OUTLOOPS + 1
    BY <1>1
  <1> QED  BY <1>2 DEF ThreadAt

\* A thread looks at what the second barrier returned.
LEMMA DecideControl ==
  ASSUME ThreadNumbers, Control, TypeOK', NEW t \in Clients, Decide(t)
  PROVE  MTypeOK' /\ MainAt' /\ \A u \in Clients : ThreadAt(u)'
  <1>1. /\ UNCHANGED <<valid, pc, step, increment, arrays, n, printed, destroyed>>
        /\ at[t] = "deciding" /\ pc[t] = "out" /\ Running
        /\ ThreadAt(t) /\ step[t] = 0
    BY DEF Decide, bvars, data, Control, ThreadAt
  <1>2. CASE status[t] > 0 /\ main' = "abort" /\ UNCHANGED <<at, out_loop>>
    BY <1>1, <1>2 DEF Control, MTypeOK, MainAt, Running, ThreadAt
  <1>3. CASE at' = [at EXCEPT ![t] = "updating"] /\ UNCHANGED <<out_loop, main>>
    <2>1. MTypeOK' /\ MainAt'
      BY <1>1, <1>3 DEF Control, MTypeOK, MainAt, Running
    <2>2. ASSUME NEW u \in Clients PROVE ThreadAt(u)'
      <3>1. ThreadAt(u)
        BY DEF Control
      <3> QED  BY <1>1, <1>3, <3>1, Sizes DEF Control, MTypeOK, ThreadAt
    <2> QED  BY <2>1, <2>2
  <1>4. CASE NextRound(t) /\ UNCHANGED main
    <2>1. /\ at'[t] = IF out_loop[t] + 1 <= OUTLOOPS THEN "first" ELSE "done"
          /\ out_loop'[t] = out_loop[t] + 1 /\ out_loop'[t] <= OUTLOOPS + 1
          /\ at' \in [Clients -> {"unborn", "first", "adding", "second", "deciding", "updating", "done"}]
          /\ out_loop' \in [Clients -> 0..OUTLOOPS + 1]
          /\ \A u \in Clients \ {t} : at'[u] = at[u] /\ out_loop'[u] = out_loop[u]
      BY <1>1, <1>4, RoundControl
    <2>2. MTypeOK'
      BY <1>1, <1>4, <2>1 DEF Control, MTypeOK
    <2>3. MainAt'
      BY <1>1, <1>4, <2>1 DEF Control, MTypeOK, MainAt, Running
    <2>4. ASSUME NEW u \in Clients PROVE ThreadAt(u)'
      <3>1. CASE u # t
        BY <1>1, <2>1, <3>1, Locals, Stays
      <3>2. CASE u = t
        BY <1>1, <2>1, <3>2, RoundThread
      <3> QED  BY <3>1, <3>2
    <2> QED  BY <2>2, <2>3, <2>4
  <1> QED  BY <1>2, <1>3, <1>4 DEF Decide

\* The chosen thread changes one increment.
LEMMA UpdateControl ==
  ASSUME ThreadNumbers, Control, TypeOK', NEW t \in Clients, Update(t)
  PROVE  MTypeOK' /\ MainAt' /\ \A u \in Clients : ThreadAt(u)'
  <1>1. /\ UNCHANGED <<valid, pc, arrays, main, n, printed, destroyed>>
        /\ at[t] = "updating" /\ Running /\ pc[t] = "out"
        /\ ThreadAt(t) /\ step[t] \in Nat /\ step[t] < threshold
        /\ increment' = [increment EXCEPT ![step[t]] = @ + 1]
    BY DEF Update, bvars, mvars, Control, ThreadAt, MTypeOK, TypeOK
  <1>2. step[t] \in Clients
    BY <1>1, Sizes
  <1>3. increment' \in [Clients -> Nat]
    BY <1>1, <1>2 DEF Control, MTypeOK
  <1>4. CASE step[t] + 1 # threshold
    <2>1. step' = [step EXCEPT ![t] = step[t] + 1] /\ UNCHANGED <<at, out_loop>>
      BY <1>4 DEF Update
    <2>2. MTypeOK'
      BY <1>1, <1>3, <2>1 DEF Control, MTypeOK
    <2>3. MainAt'
      BY <1>1, <2>1 DEF Control, MainAt, Running
    <2>4. ASSUME NEW u \in Clients PROVE ThreadAt(u)'
      <3>1. CASE u # t
        BY <1>1, <2>1, <3>1, Locals, Stays DEF Control, MTypeOK
      <3>2. CASE u = t
        <4>1. step'[t] = step[t] + 1
          BY <2>1 DEF Control, MTypeOK
        <4> QED  BY <1>1, <1>4, <2>1, <3>2, <4>1, Locals, Sizes DEF ThreadAt
      <3> QED  BY <3>1, <3>2
    <2> QED  BY <2>2, <2>3, <2>4
  <1>5. CASE step[t] + 1 = threshold
    <2>0. step' = [step EXCEPT ![t] = 0] /\ NextRound(t)
      BY <1>5 DEF Update
    <2>1. /\ at'[t] = IF out_loop[t] + 1 <= OUTLOOPS THEN "first" ELSE "done"
          /\ out_loop'[t] = out_loop[t] + 1 /\ out_loop'[t] <= OUTLOOPS + 1
          /\ at' \in [Clients -> {"unborn", "first", "adding", "second", "deciding", "updating", "done"}]
          /\ out_loop' \in [Clients -> 0..OUTLOOPS + 1]
          /\ \A u \in Clients \ {t} : at'[u] = at[u] /\ out_loop'[u] = out_loop[u]
      BY <1>1, <2>0, RoundControl
    <2>2. MTypeOK'
      BY <1>1, <1>3, <2>0, <2>1 DEF Control, MTypeOK
    <2>3. MainAt'
      BY <1>1, <2>1 DEF Control, MTypeOK, MainAt, Running
    <2>4. ASSUME NEW u \in Clients PROVE ThreadAt(u)'
      <3>1. CASE u # t
        BY <1>1, <2>0, <2>1, <3>1, Locals, Stays DEF Control, MTypeOK
      <3>2. CASE u = t
        <4>1. step'[t] = 0
          BY <2>0 DEF Control, MTypeOK
        <4> QED  BY <1>1, <2>1, <3>2, <4>1, RoundThread
      <3> QED  BY <3>1, <3>2
    <2> QED  BY <2>2, <2>3, <2>4
  <1> QED  BY <1>4, <1>5

\* A step of main.
LEMMA MainControl ==
  ASSUME ThreadNumbers, Control, TypeOK', MainStep
  PROVE  MTypeOK' /\ MainAt' /\ \A u \in Clients : ThreadAt(u)'
  <1>0. n \in Clients /\ (n + 1 # threshold => n + 1 \in Clients)
    BY Sizes DEF Control, MTypeOK
  <1>1. CASE Create
    <2>1. /\ main = "create" /\ at' = [at EXCEPT ![n] = "first"]
          /\ UNCHANGED <<valid, pc, out_loop, step, printed, destroyed>>
          /\ increment' = [increment EXCEPT ![n] = n]
          /\ arrays' = [arrays EXCEPT ![n] = [k \in Elements |-> k + 1]]
          /\ IF n + 1 = threshold THEN main' = "join" /\ n' = 0 ELSE n' = n + 1 /\ main' = main
      BY <1>1 DEF Create, bvars
    <2>2. [k \in Elements |-> k + 1] \in [Elements -> Nat]
      BY Sizes DEF Elements
    <2>3. MTypeOK'
      <3>1. n' \in Clients /\ main' \in {"create", "join"} /\ n \in Nat
        BY <1>0, <2>1, Sizes
      <3>2. /\ increment' \in [Clients -> Nat] /\ arrays' \in [Clients -> [Elements -> Nat]]
            /\ at' \in [Clients -> {"unborn", "first", "adding", "second", "deciding", "updating", "done"}]
        BY <2>1, <2>2, <3>1 DEF Control, MTypeOK
      <3> QED  BY <2>1, <3>1, <3>2 DEF Control, MTypeOK
    <2>4. \A t \in Clients : at'[t] = IF t = n THEN "first" ELSE at[t]
      BY <2>1 DEF Control, MTypeOK
    <2>5. MainAt'
      BY <1>0, <2>1, <2>4, Sizes DEF Control, MainAt, Running
    <2>6. at[n] = "unborn"
      BY <1>0, <2>1, Sizes DEF Control, MainAt
    <2>7. ASSUME NEW u \in Clients PROVE ThreadAt(u)'
      <3>1. ThreadAt(u)
        BY DEF Control
      <3> QED  BY <1>0, <2>1, <2>4, <2>6, <3>1, Sizes DEF ThreadAt
    <2> QED  BY <2>3, <2>5, <2>7
  <1>2. CASE Join
    <2>1. /\ main = "join" /\ at[n] = "done"
          /\ UNCHANGED <<valid, pc, at, out_loop, step, increment, arrays, destroyed>>
          /\ printed' = [printed EXCEPT ![n] = arrays[n]]
          /\ IF n + 1 = threshold THEN main' = "destroy" /\ n' = 0 ELSE n' = n + 1 /\ main' = main
      BY <1>2 DEF Join, bvars, data, tvars
    <2>2. MTypeOK'
      BY <1>0, <2>1, Sizes DEF Control, MTypeOK
    <2>3. MainAt'
      BY <1>0, <2>1, Sizes DEF Control, MainAt, Running
    <2> QED  BY <2>1, <2>2, <2>3 DEF Control, ThreadAt
  <1>3. CASE Finish
    <2>1. /\ main = "destroy" /\ main' = "exit" /\ destroyed' \in {0, EINVAL, EBUSY}
          /\ UNCHANGED <<pc, at, out_loop, step, increment, arrays, n, printed>>
      BY <1>3 DEF Finish, Destroy, data, tvars
    <2> QED  BY <2>1 DEF Control, MTypeOK, MainAt, Running, ThreadAt
  <1> QED  BY <1>1, <1>2, <1>3 DEF MainStep

\* Every step preserves the invariant of the control.
LEMMA NextControl ==
  ASSUME MaxCycles <= INT_MAX, ThreadNumbers, Control, [MNext]_vars
  PROVE  Control'
  <1>1. IInv' /\ TypeOK'
    BY StepOfBarrier, NextRefines DEF Control, IInv
  <1>2. ASSUME NEW t \in Clients, ThreadStep(t) \/ Disturb(t) PROVE Control'
    BY <1>1, <1>2, EnterControl, BarrierControl, AddControl, DecideControl, UpdateControl
    DEF ThreadStep, Control
  <1>3. CASE MainStep
    BY <1>1, <1>3, MainControl DEF Control
  <1>4. CASE UNCHANGED vars
    BY <1>1, <1>4
    DEF vars, bvars, data, mvars, tvars, Control, MTypeOK, MainAt, ThreadAt, Running
  <1> QED  BY <1>2, <1>3, <1>4 DEF MNext

-----------------------------------------------------------------------------
(* Every call of barrier_wait is counted once.                             *)

\* Arrivals as a function of a thread's place.
Count(a, o, p) ==
  2 * o
  + (CASE a \in {"adding", "second"} -> 1
       [] a \in {"deciding", "updating"} -> 2
       [] OTHER -> 0)
  - (IF p = "locking" THEN 1 ELSE 0)

\* Its values.
LEMMA CountIs ==
  ASSUME NEW a, NEW o \in Int, NEW p
  PROVE  /\ Count(a, o, p) \in Int
         /\ a \in {"unborn", "first", "done"} /\ p = "out" => Count(a, o, p) = 2 * o
         /\ a = "adding" /\ p = "locking" => Count(a, o, p) = 2 * o
         /\ a = "adding" /\ p # "locking" => Count(a, o, p) = 2 * o + 1
         /\ a = "second" /\ p = "out" => Count(a, o, p) = 2 * o + 1
         /\ a = "deciding" /\ p = "locking" => Count(a, o, p) = 2 * o + 1
         /\ a = "deciding" /\ p # "locking" => Count(a, o, p) = 2 * o + 2
         /\ a = "updating" /\ p = "out" => Count(a, o, p) = 2 * o + 2
  BY DEF Count

\* Arrivals, before and after a step.
LEMMA ArrivalsIs ==
  ASSUME NEW t
  PROVE  /\ Arrivals(t) = Count(at[t], out_loop[t], pc[t])
         /\ Arrivals(t)' = Count(at'[t], out_loop'[t], pc'[t])
  BY DEF Arrivals, Count

\* What each step of a thread does to the threads' places.
LEMMA EnterMoves ==
  ASSUME Control, NEW t \in Clients, Enter(t)
  PROVE  /\ pc[t] = "out" /\ pc'[t] = "locking"
         /\ \/ at[t] = "first" /\ at'[t] = "adding"
            \/ at[t] = "second" /\ at'[t] = "deciding"
         /\ \A u \in Clients : u # t => pc'[u] = pc[u] /\ at'[u] = at[u]
         /\ UNCHANGED <<valid, counter, cycle, mine, status, failures>>
         /\ UNCHANGED <<out_loop, step, increment, arrays, main, n, printed, destroyed>>
  <1>1. /\ pc[t] = "out" /\ pc' = [pc EXCEPT ![t] = "locking"]
        /\ UNCHANGED <<valid, counter, cycle, mine, status, failures>>
        /\ UNCHANGED <<out_loop, step, increment, arrays, main, n, printed, destroyed>>
    BY DEF Control, MainAt, Enter, Call, data, mvars
  <1>2. \/ at[t] = "first" /\ at' = [at EXCEPT ![t] = "adding"]
        \/ at[t] = "second" /\ at' = [at EXCEPT ![t] = "deciding"]
    BY DEF Enter
  <1> QED  BY <1>1, <1>2 DEF Control, MTypeOK, TypeOK

\* One element is added to; after the last the thread moves on.
LEMMA AddMoves ==
  ASSUME Control, NEW t \in Clients, Add(t)
  PROVE  /\ at[t] = "adding" /\ pc[t] = "out"
         /\ IF step[t] + 1 = INLOOPS * ARRAY THEN at'[t] = "second" /\ step'[t] = 0
                                             ELSE at'[t] = "adding" /\ step'[t] = step[t] + 1
         /\ arrays'[t] = [arrays[t] EXCEPT ![step[t] % ARRAY] = arrays[t][step[t] % ARRAY] + increment[t]]
         /\ \A u \in Clients : u # t => at'[u] = at[u] /\ step'[u] = step[u] /\ arrays'[u] = arrays[u]
         /\ UNCHANGED <<valid, counter, cycle, pc, mine, status, failures>>
         /\ UNCHANGED <<out_loop, increment, main, n, printed, destroyed>>
  <1> DEFINE last == step[t] + 1 = INLOOPS * ARRAY
  <1> DEFINE e == step[t] % ARRAY
  <1>1. /\ UNCHANGED <<valid, counter, cycle, pc, mine, status, failures>>
        /\ UNCHANGED <<out_loop, increment, main, n, printed, destroyed>>
        /\ at[t] = "adding" /\ pc[t] = "out"
        /\ step' = [step EXCEPT ![t] = IF last THEN 0 ELSE step[t] + 1]
        /\ at' = [at EXCEPT ![t] = IF last THEN "second" ELSE at[t]]
        /\ arrays' = [arrays EXCEPT ![t] = [arrays[t] EXCEPT ![e] = arrays[t][e] + increment[t]]]
    BY DEF Add, Adding, bvars, mvars
  <1> HIDE DEF last, e
  <1>2. /\ at[t] = "adding" /\ pc[t] = "out"
        /\ IF last THEN at'[t] = "second" /\ step'[t] = 0
                   ELSE at'[t] = "adding" /\ step'[t] = step[t] + 1
        /\ arrays'[t] = [arrays[t] EXCEPT ![e] = arrays[t][e] + increment[t]]
        /\ \A u \in Clients : u # t => at'[u] = at[u] /\ step'[u] = step[u] /\ arrays'[u] = arrays[u]
    BY <1>1 DEF Control, MTypeOK
  <1> QED  BY <1>1, <1>2 DEF last, e

\* The status of the second barrier decides.
LEMMA DecideMoves ==
  ASSUME ThreadNumbers, Control, NEW t \in Clients, Decide(t)
  PROVE  /\ at[t] = "deciding" /\ pc[t] = "out"
         /\ \/ status[t] > 0 /\ at'[t] = at[t] /\ out_loop'[t] = out_loop[t] /\ main' = "abort"
            \/ status[t] = -1 /\ at'[t] = "updating" /\ out_loop'[t] = out_loop[t] /\ main' = main
            \/ /\ status[t] = 0 /\ main' = main
               /\ at'[t] \in {"first", "done"} /\ out_loop'[t] = out_loop[t] + 1
         /\ \A u \in Clients : u # t => at'[u] = at[u] /\ out_loop'[u] = out_loop[u]
         /\ UNCHANGED <<valid, counter, cycle, pc, mine, status, failures>>
         /\ UNCHANGED <<step, increment, arrays, n, printed, destroyed>>
  <1>1. /\ UNCHANGED <<valid, counter, cycle, pc, mine, status, failures>>
        /\ UNCHANGED <<step, increment, arrays, n, printed, destroyed>>
        /\ at[t] = "deciding" /\ pc[t] = "out"
    BY DEF Decide, bvars, data
  <1>2. CASE status[t] > 0 /\ main' = "abort" /\ UNCHANGED <<at, out_loop>>
    BY <1>1, <1>2
  <1>3. CASE status[t] = -1 /\ at' = [at EXCEPT ![t] = "updating"] /\ UNCHANGED <<out_loop, main>>
    BY <1>1, <1>3 DEF Control, MTypeOK
  <1>4. CASE status[t] = 0 /\ NextRound(t) /\ UNCHANGED main
    <2>1. /\ at'[t] \in {"first", "done"} /\ out_loop'[t] = out_loop[t] + 1
          /\ \A u \in Clients \ {t} : at'[u] = at[u] /\ out_loop'[u] = out_loop[u]
      BY <1>1, <1>4, RoundControl
    <2> QED  BY <1>1, <1>4, <2>1
  <1> QED  BY <1>2, <1>3, <1>4 DEF Decide

\* One increment grows; after the last the round ends.
LEMMA UpdateMoves ==
  ASSUME ThreadNumbers, Control, NEW t \in Clients, Update(t)
  PROVE  /\ at[t] = "updating" /\ pc[t] = "out" /\ step[t] \in Clients
         /\ increment'[step[t]] = increment[step[t]] + 1
         /\ \A u \in Clients : u # step[t] => increment'[u] = increment[u]
         /\ IF step[t] + 1 = threshold
              THEN step'[t] = 0 /\ at'[t] \in {"first", "done"} /\ out_loop'[t] = out_loop[t] + 1
              ELSE step'[t] = step[t] + 1 /\ at'[t] = "updating" /\ out_loop'[t] = out_loop[t]
         /\ \A u \in Clients : u # t => at'[u] = at[u] /\ step'[u] = step[u] /\ out_loop'[u] = out_loop[u]
         /\ UNCHANGED <<valid, counter, cycle, pc, mine, status, failures>>
         /\ UNCHANGED <<arrays, main, n, printed, destroyed>>
  <1>1. /\ UNCHANGED <<valid, counter, cycle, pc, mine, status, failures>>
        /\ UNCHANGED <<arrays, main, n, printed, destroyed>>
        /\ at[t] = "updating"
        /\ increment' = [increment EXCEPT ![step[t]] = @ + 1]
    BY DEF Update, bvars, mvars
  <1>2. pc[t] = "out" /\ step[t] \in Nat /\ step[t] < threshold
    BY <1>1, Locals DEF ThreadAt
  <1>3. step[t] \in Clients
    BY <1>2, Sizes
  <1>4. /\ increment'[step[t]] = increment[step[t]] + 1
        /\ \A u \in Clients : u # step[t] => increment'[u] = increment[u]
    BY <1>1, <1>3 DEF Control, MTypeOK
  <1>5. CASE step[t] + 1 # threshold
    <2>1. step' = [step EXCEPT ![t] = step[t] + 1] /\ UNCHANGED <<at, out_loop>>
      BY <1>5 DEF Update
    <2>2. step'[t] = step[t] + 1 /\ \A u \in Clients : u # t => step'[u] = step[u]
      BY <2>1 DEF Control, MTypeOK
    <2> QED  BY <1>1, <1>2, <1>3, <1>4, <1>5, <2>1, <2>2
  <1>6. CASE step[t] + 1 = threshold
    <2>1. step' = [step EXCEPT ![t] = 0] /\ NextRound(t)
      BY <1>6 DEF Update
    <2>2. step'[t] = 0 /\ \A u \in Clients : u # t => step'[u] = step[u]
      BY <2>1 DEF Control, MTypeOK
    <2>3. /\ at'[t] \in {"first", "done"} /\ out_loop'[t] = out_loop[t] + 1
          /\ \A u \in Clients \ {t} : at'[u] = at[u] /\ out_loop'[u] = out_loop[u]
      BY <1>1, <2>1, RoundControl
    <2> QED  BY <1>1, <1>2, <1>3, <1>4, <1>6, <2>2, <2>3
  <1> QED  BY <1>5, <1>6

\* main creates thread n.
LEMMA CreateMoves ==
  ASSUME ThreadNumbers, Control, Create
  PROVE  /\ n \in Clients /\ at[n] = "unborn" /\ at'[n] = "first" /\ main = "create"
         /\ increment'[n] = n /\ arrays'[n] = [k \in Elements |-> k + 1]
         /\ \A u \in Clients : u # n =>
              at'[u] = at[u] /\ increment'[u] = increment[u] /\ arrays'[u] = arrays[u]
         /\ main' \in {"create", "join"} /\ (main' = "join" => n' = 0)
         /\ UNCHANGED <<valid, counter, cycle, pc, mine, status, failures>>
         /\ UNCHANGED <<step, out_loop, printed, destroyed>>
  <1>1. /\ main = "create" /\ at' = [at EXCEPT ![n] = "first"]
        /\ UNCHANGED <<valid, counter, cycle, pc, mine, status, failures>>
        /\ UNCHANGED <<out_loop, step, printed, destroyed>>
        /\ increment' = [increment EXCEPT ![n] = n]
        /\ arrays' = [arrays EXCEPT ![n] = [k \in Elements |-> k + 1]]
        /\ IF n + 1 = threshold THEN main' = "join" /\ n' = 0 ELSE n' = n + 1 /\ main' = main
    BY DEF Create, bvars
  <1>2. n \in Clients /\ at[n] = "unborn"
    BY <1>1, Sizes DEF Control, MTypeOK, MainAt
  <1> QED  BY <1>1, <1>2 DEF Control, MTypeOK

\* What each step inside the barrier does to the clients' places.
LEMMA CompleteMoves ==
  ASSUME MaxCycles <= INT_MAX, IInv, NEW t \in Clients, CompleteCycle(t)
  PROVE  /\ pc[t] = "locking" /\ pc'[t] = "out" /\ status'[t] = -1
         /\ counter = 1 /\ counter' = threshold /\ cycle' = cycle + 1 /\ failures' = failures
         /\ \A u \in Clients : u # t =>
              /\ pc'[u] = "out" <=> pc[u] = "out"
              /\ pc'[u] = "locking" <=> pc[u] = "locking"
              /\ status'[u] = status[u]
         /\ Gathered' = {} /\ t \notin Gathered
         /\ failures = 0 => Cardinality(Gathered) + 1 = threshold
  <1>0. /\ cycle \in Nat /\ cycle < MaxCycles /\ MaxCycles < ULONG_MAX
        /\ threshold \in Nat \ {0} /\ counter \in Nat
        /\ MaxCycles \in Nat /\ ULONG_MAX \in Nat
    BY BarrierAssumption DEF IInv, TypeOK, CompleteCycle
  <1>1. cycle' = cycle + 1 /\ counter = 1 /\ counter' = threshold /\ failures' = failures
    BY <1>0 DEF CompleteCycle, Increment
  <1>2. /\ pc[t] = "locking" /\ pc'[t] = "out" /\ status'[t] = -1
        /\ pc \in [Clients -> {"out", "locking", "waiting", "woken"}]
    BY DEF CompleteCycle, Broadcast, IInv, TypeOK
  <1>3. \A u \in Clients : u # t =>
              /\ pc'[u] = "out" <=> pc[u] = "out"
              /\ pc'[u] = "locking" <=> pc[u] = "locking"
              /\ status'[u] = status[u]
    BY <1>2 DEF CompleteCycle, Broadcast, IInv, TypeOK
  <1>4. \A u \in Clients : Inside(u)' => Inside(u) /\ mine'[u] = mine[u]
    BY <1>2 DEF Inside, CompleteCycle, Broadcast, IInv, TypeOK
  <1>5. Gathered' = {}
    BY <1>0, <1>1, <1>4 DEF Gathered, IInv
  <1>6. t \notin Gathered
    BY <1>2 DEF Gathered, Inside
  <1>7. failures = 0 => Cardinality(Gathered) + 1 = threshold
    BY <1>0, <1>1, FiniteGathered DEF IInv, CounterMatches
  <1> QED  BY <1>1, <1>2, <1>3, <1>5, <1>6, <1>7

\* A client that is not the last gathers.
LEMMA ArriveMoves ==
  ASSUME MaxCycles <= INT_MAX, IInv, NEW t \in Clients, Arrive(t)
  PROVE  /\ pc[t] = "locking" /\ pc'[t] = "waiting" /\ \A u \in Clients : u # t => pc'[u] = pc[u]
         /\ counter' = counter - 1 /\ UNCHANGED <<cycle, status, failures>>
         /\ Gathered' = Gathered \cup {t}
  <1>0. /\ cycle \in Nat /\ cycle <= INT_MAX /\ pc \in [Clients -> {"out", "locking", "waiting", "woken"}]
    BY BarrierAssumption DEF IInv, TypeOK
  <1>1. AsInt(cycle) = cycle /\ AsULong(cycle) = cycle
    BY <1>0, AsIntExact
  <1>2. /\ pc' = [pc EXCEPT ![t] = "waiting"] /\ status' = status
        /\ mine' = [mine EXCEPT ![t] = cycle] /\ pc[t] = "locking"
        /\ counter' = counter - 1 /\ UNCHANGED <<cycle, failures>>
    BY <1>1 DEF Arrive, WaitOrLeave
  <1>3. \A u \in Clients : u # t => pc'[u] = pc[u] /\ mine'[u] = mine[u]
    BY <1>0, <1>2 DEF IInv, TypeOK
  <1>4. pc'[t] = "waiting" /\ mine'[t] = cycle
    BY <1>0, <1>2 DEF IInv, TypeOK
  <1>5. Gathered' = Gathered \cup {t}
    BY <1>2, <1>3, <1>4 DEF Gathered, Inside
  <1> QED  BY <1>2, <1>3, <1>4, <1>5

\* A client back from the wait sleeps again or leaves with 0.
LEMMA WakeMoves ==
  ASSUME IInv, NEW t \in Clients, Wake(t)
  PROVE  /\ pc[t] = "woken" /\ \A u \in Clients : u # t => pc'[u] = pc[u] /\ status'[u] = status[u]
         /\ pc'[t] = "waiting" \/ (pc'[t] = "out" /\ status'[t] = 0)
         /\ UNCHANGED <<counter, cycle, failures>> /\ Gathered' = Gathered
  <1>0. /\ pc[t] = "woken" /\ Inside(t) /\ cycle \in Nat /\ mine[t] \in 0..cycle
        /\ UNCHANGED <<valid, counter, cycle, mine, failures>>
        /\ pc \in [Clients -> {"out", "locking", "waiting", "woken"}]
        /\ status \in [Clients -> {-1, 0, EPERM, EINVAL}]
    BY BarrierAssumption DEF Wake, Inside, IInv, TypeOK
  <1>1. AsULong(mine[t]) = mine[t]
    BY <1>0 DEF AsULong
  <1>2. \/ mine[t] = cycle /\ pc' = [pc EXCEPT ![t] = "waiting"] /\ status' = status
        \/ mine[t] # cycle /\ pc' = [pc EXCEPT ![t] = "out"] /\ status' = [status EXCEPT ![t] = 0]
    BY <1>0, <1>1 DEF Wake, WaitOrLeave
  <1>3. Gathered' = Gathered
    BY <1>0, <1>2 DEF Gathered, Inside
  <1> QED  BY <1>0, <1>2, <1>3

\* A wait that returns early; until one fails nothing else changes.
LEMMA DisturbMoves ==
  ASSUME IInv, NEW t \in Clients, SpuriousWakeup(t) \/ WaitFailed(t)
  PROVE  /\ pc[t] = "waiting" /\ \A u \in Clients : u # t => pc'[u] = pc[u]
         /\ UNCHANGED <<counter, cycle>> /\ pc'[t] # "locking"
         /\ failures' = 0 => /\ failures = 0 /\ pc'[t] = "woken"
                             /\ Gathered' = Gathered /\ UNCHANGED status
  <1>0. /\ pc \in [Clients -> {"out", "locking", "waiting", "woken"}] /\ failures \in Nat
    BY BarrierAssumption DEF IInv, TypeOK
  <1>1. CASE SpuriousWakeup(t)
    BY <1>0, <1>1 DEF SpuriousWakeup, Gathered, Inside
  <1>2. CASE WaitFailed(t)
    BY <1>0, <1>2 DEF WaitFailed
  <1> QED  BY <1>1, <1>2

\* Outside the barrier no step changes the number of a thread's arrivals.
LEMMA SameArrivals ==
  ASSUME ThreadNumbers, Control, NEW u \in Clients,
         MainStep \/ \E t \in Clients : Enter(t) \/ Add(t) \/ Decide(t) \/ Update(t)
  PROVE  Arrivals(u)' = Arrivals(u)
  <1>0. Arrivals(u) = Count(at[u], out_loop[u], pc[u]) /\ Arrivals(u)' = Count(at'[u], out_loop'[u], pc'[u])
    BY ArrivalsIs
  <1>1. out_loop[u] \in Int /\ out_loop[u] + 1 \in Int /\ ThreadAt(u)
    BY Locals
  <1>2. ASSUME NEW t \in Clients, Enter(t) PROVE Arrivals(u)' = Arrivals(u)
    <2>1. CASE u = t
      <3>1. out_loop'[u] = out_loop[u]
        BY <1>2, EnterMoves
      <3>2. CASE at[u] = "first" /\ at'[u] = "adding" /\ pc[u] = "out" /\ pc'[u] = "locking"
        BY <1>0, <1>1, <3>1, <3>2, CountIs
      <3>3. CASE at[u] = "second" /\ at'[u] = "deciding" /\ pc[u] = "out" /\ pc'[u] = "locking"
        BY <1>0, <1>1, <3>1, <3>3, CountIs
      <3> QED  BY <1>2, <2>1, <3>2, <3>3, EnterMoves
    <2>2. CASE u # t
      BY <1>0, <1>2, <2>2, EnterMoves
    <2> QED  BY <2>1, <2>2
  <1>3. ASSUME NEW t \in Clients, Add(t) PROVE Arrivals(u)' = Arrivals(u)
    <2>1. CASE u = t
      <3>1. /\ out_loop'[u] = out_loop[u] /\ at[u] = "adding" /\ pc[u] = "out" /\ pc'[u] = "out"
            /\ at'[u] \in {"adding", "second"}
        BY <1>3, <2>1, AddMoves
      <3> QED  BY <1>0, <1>1, <3>1, CountIs
    <2>2. CASE u # t
      BY <1>0, <1>3, <2>2, AddMoves
    <2> QED  BY <2>1, <2>2
  <1>4. ASSUME NEW t \in Clients, Decide(t) PROVE Arrivals(u)' = Arrivals(u)
    <2>1. CASE u = t
      <3>1. /\ at[u] = "deciding" /\ pc[u] = "out" /\ pc'[u] = "out"
            /\ \/ at'[u] \in {"deciding", "updating"} /\ out_loop'[u] = out_loop[u]
               \/ at'[u] \in {"first", "done"} /\ out_loop'[u] = out_loop[u] + 1
        BY <1>4, <2>1, DecideMoves
      <3> QED  BY <1>0, <1>1, <3>1, CountIs
    <2>2. CASE u # t
      BY <1>0, <1>4, <2>2, DecideMoves
    <2> QED  BY <2>1, <2>2
  <1>5. ASSUME NEW t \in Clients, Update(t) PROVE Arrivals(u)' = Arrivals(u)
    <2>1. CASE u = t
      <3>1. /\ at[u] = "updating" /\ pc[u] = "out" /\ pc'[u] = "out"
            /\ \/ at'[u] = "updating" /\ out_loop'[u] = out_loop[u]
               \/ at'[u] \in {"first", "done"} /\ out_loop'[u] = out_loop[u] + 1
        BY <1>5, <2>1, UpdateMoves
      <3> QED  BY <1>0, <1>1, <3>1, CountIs
    <2>2. CASE u # t
      BY <1>0, <1>5, <2>2, UpdateMoves
    <2> QED  BY <2>1, <2>2
  <1>6. ASSUME Create PROVE Arrivals(u)' = Arrivals(u)
    <2>1. CASE u = n
      <3>1. at[u] = "unborn" /\ at'[u] = "first" /\ out_loop'[u] = out_loop[u] /\ pc'[u] = pc[u]
        BY <1>6, <2>1, CreateMoves
      <3>2. pc[u] = "out"
        BY <1>1, <3>1 DEF ThreadAt
      <3> QED  BY <1>0, <1>1, <3>1, <3>2, CountIs
    <2>2. CASE u # n
      BY <1>0, <1>6, <2>2, CreateMoves
    <2> QED  BY <2>1, <2>2
  <1>7. ASSUME Join \/ Finish PROVE Arrivals(u)' = Arrivals(u)
    BY <1>0, <1>7 DEF Join, Finish, Destroy, tvars, bvars
  <1> QED  BY <1>2, <1>3, <1>4, <1>5, <1>6, <1>7 DEF MainStep

\* Inside the barrier the client that gets the mutex for the first time is counted.
LEMMA InsideArrivals ==
  ASSUME MaxCycles <= INT_MAX, ThreadNumbers, Control, NEW t \in Clients, NEW u \in Clients,
         InBarrier(t) \/ Disturb(t)
  PROVE  Arrivals(u)' = IF u = t /\ (CompleteCycle(t) \/ Arrive(t)) THEN Arrivals(u) + 1 ELSE Arrivals(u)
  <1>0. Arrivals(u) = Count(at[u], out_loop[u], pc[u]) /\ Arrivals(u)' = Count(at'[u], out_loop'[u], pc'[u])
    BY ArrivalsIs
  <1>1. out_loop[u] \in Int /\ ThreadAt(u) /\ IInv /\ UNCHANGED <<at, out_loop>>
    BY Locals DEF Control, InBarrier, Disturb, tvars
  <1>2. CASE u = t /\ pc[t] = "locking" /\ pc'[t] # "locking"
    <2>1. at[u] \in {"adding", "deciding"}
      BY <1>1, <1>2 DEF ThreadAt
    <2>2. Arrivals(u)' = Arrivals(u) + 1
      BY <1>0, <1>1, <1>2, <2>1, CountIs
    <2>3. CompleteCycle(t) \/ Arrive(t)
      BY <1>1, <1>2, WakeMoves, DisturbMoves DEF InBarrier, InWait, Disturb
    <2> QED  BY <1>2, <2>2, <2>3
  <1>3. CASE pc'[u] = "locking" <=> pc[u] = "locking"
    <2>1. Arrivals(u)' = Arrivals(u)
      BY <1>0, <1>1, <1>3 DEF Count
    <2>2. u = t => ~CompleteCycle(t) /\ ~Arrive(t)
      BY <1>1, <1>3, CompleteMoves, ArriveMoves
    <2> QED  BY <2>1, <2>2
  <1>4. \/ u = t /\ pc[t] = "locking" /\ pc'[t] # "locking"
        \/ pc'[u] = "locking" <=> pc[u] = "locking"
    BY <1>1, CompleteMoves, ArriveMoves, WakeMoves, DisturbMoves DEF InBarrier, InWait, Disturb
  <1> QED  BY <1>2, <1>3, <1>4

\* A thread makes two calls in each of OUTLOOPS + 1 rounds.
LEMMA ArrivalsBound ==
  ASSUME ThreadNumbers, Control, NEW t \in Clients
  PROVE  /\ Arrivals(t) \in Int /\ 0 <= Arrivals(t) /\ Arrivals(t) <= 2 * (OUTLOOPS + 1)
         /\ pc[t] = "locking" => Arrivals(t) + 1 <= 2 * (OUTLOOPS + 1)
  <1>1. Arrivals(t) = Count(at[t], out_loop[t], pc[t])
    BY ArrivalsIs
  <1>2. /\ out_loop[t] \in Int /\ 0 <= out_loop[t] /\ out_loop[t] <= OUTLOOPS + 1 /\ ThreadAt(t)
        /\ at[t] \in {"unborn", "first", "adding", "second", "deciding", "updating", "done"}
        /\ OUTLOOPS \in Nat
    BY Locals, Sizes
  <1>3. pc[t] # "out" => at[t] \in {"adding", "deciding"}
    BY <1>2 DEF ThreadAt
  <1>4. at[t] \in {"adding", "second", "deciding", "updating"} => out_loop[t] <= OUTLOOPS
    BY <1>2 DEF ThreadAt
  <1> HIDE DEF Arrivals
  <1>5. CASE at[t] \in {"unborn", "first", "done"}
    BY <1>1, <1>2, <1>3, <1>5, CountIs
  <1>6. CASE at[t] = "adding"
    BY <1>1, <1>2, <1>4, <1>6, CountIs
  <1>7. CASE at[t] = "second"
    BY <1>1, <1>2, <1>3, <1>4, <1>7, CountIs
  <1>8. CASE at[t] = "deciding"
    BY <1>1, <1>2, <1>4, <1>8, CountIs
  <1>9. CASE at[t] = "updating"
    BY <1>1, <1>2, <1>3, <1>4, <1>9, CountIs
  <1> QED  BY <1>2, <1>5, <1>6, <1>7, <1>8, <1>9

\* There are finitely many calls.
LEMMA FiniteCalls ==
  ASSUME ThreadNumbers
  PROVE  IsFiniteSet(Calls) /\ Cardinality(Calls) \in Nat
  <1> DEFINE K == 1..2 * (OUTLOOPS + 1)
  <1>1. IsFiniteSet(K) /\ IsFiniteSet(Clients)
    BY Sizes, FS_Interval, BarrierAssumption
  <1>2. IsFiniteSet(Clients \X K)
    BY <1>1, FS_Product
  <1>3. Calls \subseteq Clients \X K
    BY DEF Calls
  <1> QED  BY <1>2, <1>3, FS_Subset, FS_CardinalityType

\* One more arrival is one more call.
LEMMA OneMoreCall ==
  ASSUME ThreadNumbers, Control, NEW t \in Clients, pc[t] = "locking",
         \A u \in Clients : Arrivals(u)' = IF u = t THEN Arrivals(u) + 1 ELSE Arrivals(u)
  PROVE  Cardinality(Calls') = Cardinality(Calls) + 1
  <1> DEFINE K == 1..2 * (OUTLOOPS + 1)
  <1> DEFINE c == <<t, Arrivals(t) + 1>>
  <1>1. /\ OUTLOOPS \in Nat
        /\ \A u \in Clients : Arrivals(u) \in Int /\ 0 <= Arrivals(u) /\ Arrivals(u) <= 2 * (OUTLOOPS + 1)
        /\ Arrivals(t) + 1 <= 2 * (OUTLOOPS + 1)
    BY ArrivalsBound, Sizes
  <1>2. c \in Clients \X K /\ c \notin Calls
    BY <1>1 DEF Calls
  <1>3. Calls' = {call \in Clients \X K : call[2] <= Arrivals(call[1])'}
    BY DEF Calls
  <1>4. ASSUME NEW u \in Clients, NEW k \in K
        PROVE  <<u, k>> \in Calls' <=> <<u, k>> \in Calls \/ <<u, k>> = c
    <2>1. <<u, k>> \in Calls' <=> k <= Arrivals(u)'
      BY <1>3
    <2>2. <<u, k>> \in Calls <=> k <= Arrivals(u)
      BY DEF Calls
    <2>3. k \in Int
      BY <1>1
    <2> QED  BY <1>1, <2>1, <2>2, <2>3
  <1>5. Calls' = Calls \cup {c}
    <2>1. Calls' \subseteq Clients \X K /\ Calls \cup {c} \subseteq Clients \X K
      BY <1>2, <1>3 DEF Calls
    <2>2. \A x \in Clients \X K : \E u \in Clients, k \in K : x = <<u, k>>
      OBVIOUS
    <2> QED  BY <1>4, <2>1, <2>2
  <1> QED  BY <1>2, <1>5, FiniteCalls, FS_AddElement

\* No arrival, no call.
LEMMA SameCalls ==
  ASSUME \A u \in Clients : Arrivals(u)' = Arrivals(u)
  PROVE  Calls' = Calls
  <1>1. Calls' = {call \in Clients \X (1..2 * (OUTLOOPS + 1)) : call[2] <= Arrivals(call[1])'}
    BY DEF Calls
  <1>2. \A x \in Clients \X (1..2 * (OUTLOOPS + 1)) : Arrivals(x[1])' = Arrivals(x[1])
    OBVIOUS
  <1> QED  BY <1>1, <1>2 DEF Calls

\* At first no call is made.
LEMMA InitCounted ==
  ASSUME ThreadNumbers, MInit
  PROVE  ArrivalsCounted
  <1>1. ASSUME NEW t \in Clients PROVE Arrivals(t) = 0
    BY <1>1, ArrivalsIs, CountIs DEF MInit, Init
  <1>2. Calls = {}
    BY <1>1, Sizes DEF Calls
  <1> QED  BY <1>2, FS_EmptySet, Sizes DEF MInit, Init, ArrivalsCounted

\* Every step keeps the barrier's counters and the calls made in agreement.
LEMMA NextCounted ==
  ASSUME MaxCycles <= INT_MAX, ThreadNumbers, Control, ArrivalsCounted, [MNext]_vars
  PROVE  ArrivalsCounted'
  <1> DEFINE N == Cardinality(Calls)
  <1>0. /\ N \in Nat /\ threshold \in Nat \ {0} /\ cycle \in Nat /\ counter \in Int /\ IInv
        /\ cycle * threshold + (threshold - counter) = N
        /\ cycle * threshold \in Nat
    BY FiniteCalls, Sizes, BarrierAssumption DEF Control, IInv, TypeOK, ArrivalsCounted
  <1>1. CASE MainStep \/ \E t \in Clients : Enter(t) \/ Add(t) \/ Decide(t) \/ Update(t)
    <2>1. Calls' = Calls
      BY <1>1, SameArrivals, SameCalls
    <2>2. UNCHANGED <<cycle, counter>>
      BY <1>1 DEF MainStep, Create, Join, Finish, Destroy, Enter, Call, Add, Decide, Update, bvars
    <2> QED  BY <2>1, <2>2 DEF ArrivalsCounted
  <1>2. ASSUME NEW t \in Clients, InBarrier(t) \/ Disturb(t) PROVE ArrivalsCounted'
    <2>1. CASE CompleteCycle(t)
      <3>1. /\ pc[t] = "locking" /\ counter = 1 /\ counter' = threshold /\ cycle' = cycle + 1
        BY <1>0, <2>1, CompleteMoves
      <3>2. Cardinality(Calls') = N + 1
        BY <1>2, <2>1, <3>1, InsideArrivals, OneMoreCall
      <3>3. cycle' * threshold = cycle * threshold + threshold
        BY <1>0, <3>1
      <3>4. cycle' * threshold + (threshold - counter') = N + 1
        BY <1>0, <3>1, <3>3
      <3> QED  BY <3>2, <3>4 DEF ArrivalsCounted
    <2>2. CASE Arrive(t)
      <3>1. /\ pc[t] = "locking" /\ counter' = counter - 1 /\ cycle' = cycle
        BY <1>0, <2>2, ArriveMoves
      <3>2. Cardinality(Calls') = N + 1
        BY <1>2, <2>2, <3>1, InsideArrivals, OneMoreCall
      <3>3. cycle' * threshold + (threshold - counter') = N + 1
        BY <1>0, <3>1
      <3> QED  BY <3>2, <3>3 DEF ArrivalsCounted
    <2>3. CASE ~CompleteCycle(t) /\ ~Arrive(t)
      <3>1. Calls' = Calls
        BY <1>2, <2>3, InsideArrivals, SameCalls
      <3>2. UNCHANGED <<cycle, counter>>
        BY <1>0, <1>2, <2>3, WakeMoves, DisturbMoves DEF InBarrier, InWait, Disturb
      <3> QED  BY <3>1, <3>2 DEF ArrivalsCounted
    <2> QED  BY <2>1, <2>2, <2>3
  <1>3. CASE UNCHANGED vars
    <2>1. Calls' = Calls
      BY <1>3, SameCalls DEF vars, bvars, tvars, Arrivals
    <2> QED  BY <1>3, <2>1 DEF ArrivalsCounted, vars, bvars
  <1> QED  BY <1>1, <1>2, <1>3 DEF MNext, ThreadStep

-----------------------------------------------------------------------------
(* Until a wait fails the threads go through the rounds together.          *)

\* A step from which no wait has failed starts where none had failed.
LEMMA FailuresGrow ==
  ASSUME Control, [MNext]_vars, failures' = 0
  PROVE  failures = 0
  <1>1. ASSUME NEW t \in Clients, Disturb(t) PROVE failures = 0
    BY <1>1, DisturbMoves DEF Disturb, Control
  <1>2. ASSUME NEW t \in Clients, ThreadStep(t) PROVE failures = 0
    BY <1>2 DEF ThreadStep, Enter, InBarrier, Add, Decide, Update, Call, InWait,
                CompleteCycle, Arrive, Wake, bvars
  <1>3. ASSUME MainStep PROVE failures = 0
    BY <1>3 DEF MainStep, Create, Join, Finish, Destroy, bvars
  <1>4. ASSUME UNCHANGED vars PROVE failures = 0
    BY <1>4 DEF vars, bvars
  <1> QED  BY <1>1, <1>2, <1>3, <1>4 DEF MNext

\* A thread outside the barrier has made one call for each cycle.
LEMMA OutInPhase ==
  ASSUME ThreadNumbers, Control, InPhase, failures = 0, NEW t \in Clients, t \notin Gathered
  PROVE  Arrivals(t) = cycle /\ cycle \in Nat
  <1>1. cycle \in Nat
    BY BarrierAssumption DEF Control, IInv, TypeOK
  <1>2. Arrivals(t) = cycle + 0
    BY DEF InPhase
  <1> QED  BY <1>1, <1>2

\* A client that does not wait is not gathered.
LEMMA OutNotGathered ==
  ASSUME NEW t \in Clients, pc[t] \in {"out", "locking"}
  PROVE  t \notin Gathered
  BY DEF Gathered, Inside

\* The thread that completes a cycle finds all the others gathered.
LEMMA OthersGathered ==
  ASSUME MaxCycles <= INT_MAX, ThreadNumbers, Control, failures = 0, NEW t \in Clients, CompleteCycle(t)
  PROVE  \A u \in Clients : u # t => u \in Gathered
  <1>1. Cardinality(Gathered) + 1 = threshold /\ t \notin Gathered
    BY CompleteMoves DEF Control
  <1>2. threshold \in Nat \ {0} /\ Clients = 0..threshold - 1
    BY Sizes
  <1>3. Cardinality(Clients) = threshold
    BY <1>2, FS_Interval
  <1>4. IsFiniteSet(Clients \ {t}) /\ Cardinality(Clients \ {t}) = threshold - 1
    BY <1>3, BarrierAssumption, FS_RemoveElement
  <1>5. Gathered \subseteq Clients \ {t}
    BY <1>1 DEF Gathered
  <1>6. Cardinality(Gathered) \in Nat
    BY FiniteGathered
  <1>7. Cardinality(Gathered) = Cardinality(Clients \ {t})
    BY <1>1, <1>2, <1>4, <1>6
  <1> QED  BY <1>4, <1>5, <1>7, FS_Subset

\* When a cycle is completed nobody is chosen, and at most the thread that
\* completes it becomes so.
LEMMA CompleteChosen ==
  ASSUME MaxCycles <= INT_MAX, ThreadNumbers, Control, failures = 0, NEW t \in Clients, InBarrier(t), CompleteCycle(t)
  PROVE  /\ \A u \in Clients : ~Chosen(u)
         /\ \A u \in Clients : Chosen(u)' <=> u = t /\ at[t] = "deciding"
  <1>1. \A u \in Clients : u # t => pc[u] # "out" /\ pc'[u] # "out"
    <2>1. \A u \in Clients : u # t => u \in Gathered
      BY OthersGathered
    <2> QED  BY <2>1, CompleteMoves DEF Gathered, Inside, Control
  <1>2. pc[t] = "locking" /\ pc'[t] = "out" /\ status'[t] = -1 /\ at' = at
    BY CompleteMoves DEF Control, InBarrier, tvars
  <1>3. \A u \in Clients : pc[u] # "out" => at[u] \in {"adding", "deciding"}
    BY Locals DEF ThreadAt
  <1> QED  BY <1>1, <1>2, <1>3 DEF Chosen

\* Any other step makes nobody chosen.
LEMMA NobodyChosen ==
  ASSUME MaxCycles <= INT_MAX, ThreadNumbers, Control, [MNext]_vars, failures' = 0,
         ~\E t \in Clients : InBarrier(t) /\ CompleteCycle(t), NEW u \in Clients
  PROVE  /\ Chosen(u)' => Chosen(u)
         /\ (~\E t \in Clients : Update(t)) => (Chosen(u)' <=> Chosen(u))
  <1> DEFINE Same == Chosen(u)' <=> Chosen(u)
  <1>1. ASSUME NEW t \in Clients, Enter(t) PROVE Same
    BY <1>1, EnterMoves DEF Chosen
  <1>2. ASSUME NEW t \in Clients, Add(t) PROVE Same
    BY <1>2, AddMoves DEF Chosen
  <1>3. ASSUME NEW t \in Clients, Decide(t) PROVE Same
    BY <1>3, DecideMoves, Locals DEF Chosen, EPERM, EINVAL
  <1>4. ASSUME NEW t \in Clients, Update(t) PROVE Chosen(u)' => Chosen(u)
    BY <1>4, UpdateMoves DEF Chosen
  <1>5. ASSUME NEW t \in Clients, InBarrier(t) \/ Disturb(t) PROVE Same
    <2>1. ThreadAt(u) /\ IInv /\ UNCHANGED at
      BY <1>5, Locals DEF Control, InBarrier, Disturb, tvars
    <2>2. Arrive(t) \/ Wake(t) \/ SpuriousWakeup(t) \/ WaitFailed(t)
      BY <1>5 DEF InBarrier, InWait, Disturb
    <2>3. pc[t] # "out" /\ (pc'[t] = "out" => status'[t] = 0)
      BY <2>1, <2>2, ArriveMoves, WakeMoves, DisturbMoves
    <2>4. u # t => pc'[u] = pc[u] /\ status'[u] = status[u]
      BY <2>1, <2>2, ArriveMoves, WakeMoves, DisturbMoves
    <2> QED  BY <2>1, <2>3, <2>4 DEF Chosen
  <1>6. ASSUME Create PROVE Same
    BY <1>6, CreateMoves DEF Chosen
  <1>7. ASSUME Join \/ Finish \/ UNCHANGED vars PROVE Same
    BY <1>7 DEF Join, Finish, Destroy, vars, bvars, tvars, Chosen
  <1> QED  BY <1>1, <1>2, <1>3, <1>4, <1>5, <1>6, <1>7 DEF MNext, MainStep, ThreadStep

\* At first all threads are in cycle 0.
LEMMA InitPhase ==
  ASSUME ThreadNumbers, MInit
  PROVE  InPhase
  <1>1. ASSUME NEW t \in Clients PROVE Arrivals(t) = 0
    BY <1>1, ArrivalsIs, CountIs DEF MInit, Init
  <1>2. Gathered = {}
    BY DEF MInit, Init, Gathered, Inside
  <1>3. \A t \in Clients : ~Chosen(t)
    BY DEF MInit, Chosen
  <1> QED  BY <1>1, <1>2, <1>3 DEF InPhase, MInit, Init

\* Every step keeps the threads together.
LEMMA NextPhase ==
  ASSUME MaxCycles <= INT_MAX, ThreadNumbers, Control, InPhase, [MNext]_vars
  PROVE  InPhase'
  <1> SUFFICES ASSUME failures' = 0
               PROVE  /\ \A u \in Clients : Arrivals(u)' = cycle' + (IF u \in Gathered' THEN 1 ELSE 0)
                      /\ \A u, w \in Clients : Chosen(u)' /\ Chosen(w)' => u = w
    BY DEF InPhase
  <1>0. failures = 0 /\ IInv /\ cycle \in Nat
    BY FailuresGrow, BarrierAssumption DEF Control, IInv, TypeOK
  <1>1. /\ \A u \in Clients : Arrivals(u) = cycle + (IF u \in Gathered THEN 1 ELSE 0)
        /\ \A u, w \in Clients : Chosen(u) /\ Chosen(w) => u = w
    BY <1>0 DEF InPhase
  <1>2. CASE \E t \in Clients : InBarrier(t) /\ CompleteCycle(t)
    <2>1. PICK t \in Clients : InBarrier(t) /\ CompleteCycle(t)
      BY <1>2
    <2>2. cycle' = cycle + 1 /\ Gathered' = {} /\ t \notin Gathered
      BY <1>0, <2>1, CompleteMoves
    <2>3. \A u \in Clients : u # t => u \in Gathered
      BY <1>0, <2>1, OthersGathered
    <2>4. \A u \in Clients : Arrivals(u)' = IF u = t THEN Arrivals(u) + 1 ELSE Arrivals(u)
      BY <2>1, InsideArrivals
    <2>5. \A u \in Clients : Arrivals(u)' = cycle' + (IF u \in Gathered' THEN 1 ELSE 0)
      BY <1>0, <1>1, <2>2, <2>3, <2>4
    <2>6. \A u \in Clients : Chosen(u)' => u = t
      BY <1>0, <2>1, CompleteChosen
    <2> QED  BY <2>5, <2>6
  <1>3. CASE ~\E t \in Clients : InBarrier(t) /\ CompleteCycle(t)
    <2>1. \A u, w \in Clients : Chosen(u)' /\ Chosen(w)' => u = w
      BY <1>1, <1>3, NobodyChosen
    <2>2. ASSUME NEW t \in Clients, InBarrier(t), Arrive(t), NEW u \in Clients
          PROVE  Arrivals(u)' = cycle' + (IF u \in Gathered' THEN 1 ELSE 0)
      <3>1. cycle' = cycle /\ Gathered' = Gathered \cup {t} /\ t \notin Gathered
        BY <1>0, <2>2, ArriveMoves, OutNotGathered
      <3>2. Arrivals(u)' = IF u = t THEN Arrivals(u) + 1 ELSE Arrivals(u)
        BY <2>2, InsideArrivals
      <3> QED  BY <1>0, <1>1, <3>1, <3>2
    <2>3. CASE ~\E t \in Clients : InBarrier(t) /\ Arrive(t)
      <3>1. ASSUME NEW t \in Clients, InBarrier(t) \/ Disturb(t), NEW u \in Clients
            PROVE  Arrivals(u)' = Arrivals(u) /\ cycle' = cycle /\ Gathered' = Gathered
        <4>1. Wake(t) \/ SpuriousWakeup(t) \/ WaitFailed(t)
          BY <1>3, <2>3, <3>1 DEF InBarrier, InWait, Disturb
        <4>2. cycle' = cycle /\ Gathered' = Gathered
          BY <1>0, <4>1, WakeMoves, DisturbMoves
        <4>3. ~CompleteCycle(t) /\ ~Arrive(t)
          BY <1>0, <4>1, WakeMoves, DisturbMoves DEF CompleteCycle, Arrive
        <4> QED  BY <3>1, <4>2, <4>3, InsideArrivals
      <3>2. ASSUME NEW u \in Clients,
                   MainStep \/ \E t \in Clients : Enter(t) \/ Add(t) \/ Decide(t) \/ Update(t)
            PROVE  Arrivals(u)' = Arrivals(u) /\ cycle' = cycle /\ Gathered' = Gathered
        <4>1. Arrivals(u)' = Arrivals(u)
          BY <3>2, SameArrivals
        <4>2. CASE \E t \in Clients : Enter(t)
          <5>1. PICK t \in Clients : Enter(t)
            BY <4>2
          <5>2. /\ pc[t] = "out" /\ pc'[t] = "locking" /\ UNCHANGED <<mine, cycle>>
                /\ \A w \in Clients : w # t => pc'[w] = pc[w]
            BY <5>1, EnterMoves
          <5>3. Gathered' = Gathered
            BY <5>2 DEF Gathered, Inside
          <5> QED  BY <4>1, <5>2, <5>3
        <4>3. CASE MainStep \/ \E t \in Clients : Add(t) \/ Decide(t) \/ Update(t)
          <5>1. UNCHANGED <<pc, mine, cycle>>
            BY <4>3 DEF MainStep, Create, Join, Finish, Destroy, Add, Decide, Update, bvars
          <5> QED  BY <4>1, <5>1 DEF Gathered, Inside
        <4> QED  BY <3>2, <4>2, <4>3
      <3>3. ASSUME UNCHANGED vars, NEW u \in Clients
            PROVE  Arrivals(u)' = Arrivals(u) /\ cycle' = cycle /\ Gathered' = Gathered
        BY <3>3 DEF vars, bvars, tvars, Arrivals, Gathered, Inside
      <3> QED  BY <1>1, <2>1, <3>1, <3>2, <3>3 DEF MNext, ThreadStep
    <2> QED  BY <2>1, <2>2, <2>3
  <1> QED  BY <1>2, <1>3

\* The barriers keep the updater alone: its cycle is even, that of a thread that
\* adds is odd.
LEMMA PhaseAlone ==
  ASSUME ThreadNumbers, Control, InPhase
  PROVE  UpdaterAlone
  <1> SUFFICES ASSUME failures = 0, NEW t \in Clients, NEW u \in Clients, at[t] = "updating", u # t
               PROVE  ~Adding(u) /\ at[u] # "updating"
    BY DEF UpdaterAlone
  <1>1. at[u] # "updating"
    BY DEF InPhase, Chosen
  <1>2. ASSUME Adding(u) PROVE FALSE
    <2>1. /\ pc[t] = "out" /\ pc[u] = "out" /\ at[u] = "adding"
          /\ out_loop[t] \in Int /\ out_loop[u] \in Int
      BY <1>2, Locals DEF ThreadAt, Adding
    <2>2. Arrivals(t) = cycle /\ Arrivals(u) = cycle
      BY <2>1, OutNotGathered, OutInPhase
    <2>3. Arrivals(t) = 2 * out_loop[t] + 2 /\ Arrivals(u) = 2 * out_loop[u] + 1
      BY <2>1, ArrivalsIs, CountIs
    <2> QED  BY <2>1, <2>2, <2>3
  <1> QED  BY <1>1, <1>2

\* While the cycle fits an int, the thread that changes the increments does so
\* alone until a wait fails, and every call of barrier_wait is counted exactly
\* once, in the cycles completed or in the open one, even after waits fail.
THEOREM RoundsCorrect ==
  ASSUME MaxCycles <= INT_MAX, ThreadNumbers
  PROVE  MSpec => []RoundsKept
  <1> DEFINE I == Control /\ ArrivalsCounted /\ InPhase
  <1>1. MInit => I
    BY InitControl, InitCounted, InitPhase
  <1>2. I /\ [MNext]_vars => I'
    BY NextControl, NextCounted, NextPhase
  <1>3. I => RoundsKept
    BY PhaseAlone DEF RoundsKept, ProgramInv, Control
  <1> QED  BY <1>1, <1>2, <1>3, PTL DEF MSpec

-----------------------------------------------------------------------------
(* What the program computes.                                              *)

\* The chosen thread has made two calls in its round; a thread that adds, one.
LEMMA ChosenCycle ==
  ASSUME ThreadNumbers, Control, InPhase, failures = 0, NEW t \in Clients, pc[t] = "out"
  PROVE  /\ cycle \in Nat /\ out_loop[t] \in Int /\ 0 <= out_loop[t]
         /\ Chosen(t) => cycle = 2 * out_loop[t] + 2
         /\ at[t] = "adding" => cycle = 2 * out_loop[t] + 1
         /\ at[t] \in {"unborn", "first", "done"} => cycle = 2 * out_loop[t]
  <1>1. Arrivals(t) = cycle /\ cycle \in Nat
    BY OutNotGathered, OutInPhase
  <1>2. out_loop[t] \in Int /\ 0 <= out_loop[t] /\ Arrivals(t) = Count(at[t], out_loop[t], pc[t])
    BY Locals, ArrivalsIs
  <1> QED  BY <1>1, <1>2, CountIs DEF Chosen

\* The chosen thread is outside the barrier.
LEMMA ChosenOut ==
  ASSUME ThreadNumbers, Control, NEW t \in Clients, Chosen(t)
  PROVE  pc[t] = "out"
  BY Locals DEF Chosen, ThreadAt

\* A thread that adds finds the increment of its round.
LEMMA AddsIncrement ==
  ASSUME ThreadNumbers, Control, InPhase, Increments, failures = 0, NEW t \in Clients, Adding(t)
  PROVE  increment[t] = t + out_loop[t]
  <1>1. /\ pc[t] = "out" /\ at[t] = "adding" /\ out_loop[t] \in Nat /\ cycle = 2 * out_loop[t] + 1
    BY ChosenCycle DEF Adding
  <1>2. ASSUME NEW u \in Clients, Chosen(u) PROVE FALSE
    <2>1. out_loop[u] \in Int /\ cycle = 2 * out_loop[u] + 2
      BY <1>2, ChosenOut, ChosenCycle
    <2> QED  BY <1>1, <2>1
  <1> QED  BY <1>1, <1>2 DEF Increments

\* The increments one state later.
LEMMA IncrementsNext ==
  ASSUME failures' = 0 =>
           \A u \in Clients : at'[u] # "unborn" =>
             /\ \A t \in Clients : Chosen(t)' =>
                  increment'[u] = u + out_loop'[t] + (IF u < step'[t] THEN 1 ELSE 0)
             /\ (\A t \in Clients : ~Chosen(t)') =>
                  \A r \in Nat : cycle' \in {2 * r, 2 * r + 1} => increment'[u] = u + r
  PROVE  Increments'
  BY DEF Increments

\* The chosen thread comes to the next increment, or ends the round.
LEMMA UpdateIncrements ==
  ASSUME MaxCycles <= INT_MAX, ThreadNumbers, Control, InPhase, Increments, failures = 0, failures' = 0,
         NEW t \in Clients, Update(t)
  PROVE  Increments'
  <1> DEFINE s == step[t]
  <1> DEFINE o == out_loop[t]
  <1>0. Chosen(t) /\ pc[t] = "out" /\ at[t] = "updating" /\ s \in Clients
    BY UpdateMoves DEF Chosen
  <1>1. /\ o \in Nat /\ cycle = 2 * o + 2 /\ threshold \in Nat
        /\ \A c \in Clients : c \in Int /\ 0 <= c /\ c < threshold
        /\ \A u \in Clients : increment[u] \in Nat
    BY <1>0, ChosenCycle, Locals, Sizes
  <1>2. \A u \in Clients : at[u] # "unborn" => increment[u] = u + o + (IF u < s THEN 1 ELSE 0)
    BY <1>0 DEF Increments
  <1>3. /\ \A u \in Clients : increment'[u] = IF u = s THEN increment[u] + 1 ELSE increment[u]
        /\ \A u \in Clients : at'[u] # "unborn" => at[u] # "unborn"
        /\ cycle' = cycle
    BY <1>0, UpdateMoves
  <1> HIDE DEF s, o
  <1>4. \A u \in Clients : at'[u] # "unborn" => increment'[u] = u + o + (IF u < s + 1 THEN 1 ELSE 0)
    <2> TAKE u \in Clients
    <2> HAVE at'[u] # "unborn"
    <2>1. increment[u] = u + o + (IF u < s THEN 1 ELSE 0) /\ s \in Int /\ u \in Int
      BY <1>0, <1>1, <1>2, <1>3
    <2>2. increment'[u] = IF u = s THEN increment[u] + 1 ELSE increment[u]
      BY <1>3
    <2> QED  BY <1>1, <2>1, <2>2
  <1>5. \A u \in Clients : Chosen(u) => u = t
    BY <1>0 DEF InPhase
  <1>6. \A u \in Clients : Chosen(u)' => u = t
    <2>1. ~\E u \in Clients : InBarrier(u) /\ CompleteCycle(u)
      <3>1. pc' = pc
        BY UpdateMoves
      <3> QED  BY <3>1, CompleteMoves DEF Control
    <2>2. [MNext]_vars
      BY DEF MNext, ThreadStep
    <2> QED  BY <1>5, <2>1, <2>2, NobodyChosen
  <1>7. CASE s + 1 = threshold
    <2>1. at'[t] \in {"first", "done"}
      BY <1>7, UpdateMoves DEF s
    <2>2. \A u \in Clients : ~Chosen(u)'
      BY <1>6, <2>1 DEF Chosen
    <2>3. \A u \in Clients : at'[u] # "unborn" => increment'[u] = u + (o + 1)
      BY <1>0, <1>1, <1>4, <1>7
    <2>4. \A r \in Nat : cycle' \in {2 * r, 2 * r + 1} => r = o + 1
      BY <1>1, <1>3
    <2> QED  BY <2>2, <2>3, <2>4, IncrementsNext
  <1>8. CASE s + 1 # threshold
    <2>1. at'[t] = "updating" /\ out_loop'[t] = o /\ step'[t] = s + 1
      BY <1>8, UpdateMoves DEF s, o
    <2>2. Chosen(t)'
      BY <2>1 DEF Chosen
    <2> QED  BY <1>4, <1>6, <2>1, <2>2, IncrementsNext
  <1> QED  BY <1>7, <1>8

\* A completed cycle: the second of a round chooses a thread, the first chooses none.
LEMMA CompleteIncrements ==
  ASSUME MaxCycles <= INT_MAX, ThreadNumbers, Control, InPhase, Increments, failures = 0,
         NEW t \in Clients, InBarrier(t), CompleteCycle(t)
  PROVE  Increments'
  <1> DEFINE o == out_loop[t]
  <1>0. /\ pc[t] = "locking" /\ cycle' = cycle + 1
        /\ UNCHANGED <<at, out_loop, step, increment>> /\ t \notin Gathered
    BY CompleteMoves DEF Control, InBarrier, tvars, data
  <1>1. /\ cycle \in Nat /\ Arrivals(t) = cycle /\ o \in Nat /\ step[t] = 0
        /\ at[t] \in {"adding", "deciding"}
        /\ \A c \in Clients : c \in Int /\ 0 <= c
        /\ Arrivals(t) = Count(at[t], o, pc[t])
    BY <1>0, OutInPhase, Locals, Sizes, ArrivalsIs DEF ThreadAt
  <1>2. /\ \A u \in Clients : ~Chosen(u)
        /\ \A u \in Clients : Chosen(u)' <=> u = t /\ at[t] = "deciding"
    BY CompleteChosen
  <1>3. \A u \in Clients : at[u] # "unborn" =>
          \A r \in Nat : cycle \in {2 * r, 2 * r + 1} => increment[u] = u + r
    BY <1>2 DEF Increments
  <1> HIDE DEF o
  <1>4. CASE at[t] = "deciding"
    <2>1. cycle = 2 * o + 1
      BY <1>0, <1>1, <1>4, CountIs
    <2>2. \A u \in Clients : at[u] # "unborn" => increment[u] = u + o
      BY <1>1, <1>3, <2>1
    <2>3. \A u \in Clients : at[u] # "unborn" => increment[u] = u + o + (IF u < step[t] THEN 1 ELSE 0)
      BY <1>1, <2>2
    <2> QED  BY <1>0, <1>2, <1>4, <2>3, IncrementsNext DEF o
  <1>5. CASE at[t] = "adding"
    <2>1. cycle = 2 * o
      BY <1>0, <1>1, <1>5, CountIs
    <2>2. \A u \in Clients : at[u] # "unborn" => increment[u] = u + o
      BY <1>1, <1>3, <2>1
    <2>3. \A r \in Nat : cycle' \in {2 * r, 2 * r + 1} => r = o
      <3>1. cycle' = cycle + 1 /\ o \in Int
        BY <1>0, <1>1
      <3>2. cycle' = 2 * o + 1
        BY ONLY <2>1, <3>1
      <3> QED  BY ONLY <3>1, <3>2
    <2>4. \A u \in Clients : ~Chosen(u)'
      BY <1>2, <1>5
    <2> QED  BY <1>0, <2>2, <2>3, <2>4, IncrementsNext
  <1> QED  BY <1>1, <1>4, <1>5

\* A new thread finds the first round, and its increment is its number.
LEMMA CreateIncrements ==
  ASSUME MaxCycles <= INT_MAX, ThreadNumbers, Control, InPhase, Increments, failures = 0, failures' = 0, Create
  PROVE  Increments'
  <1>0. /\ n \in Clients /\ at[n] = "unborn" /\ increment'[n] = n
        /\ UNCHANGED <<cycle, pc, step, out_loop>>
        /\ \A u \in Clients : u # n => at'[u] = at[u] /\ increment'[u] = increment[u]
    BY CreateMoves
  <1>1. pc[n] = "out" /\ out_loop[n] = 0 /\ \A c \in Clients : c \in Int
    BY <1>0, Locals, Sizes DEF ThreadAt
  <1>2. cycle = 0
    BY <1>0, <1>1, ChosenCycle
  <1>3. ASSUME NEW t \in Clients, Chosen(t) PROVE FALSE
    <2>1. out_loop[t] \in Int /\ 0 <= out_loop[t] /\ cycle = 2 * out_loop[t] + 2
      BY <1>3, ChosenOut, ChosenCycle
    <2> QED  BY <1>2, <2>1
  <1>4. \A t \in Clients : ~Chosen(t)'
    <2>1. \A t \in Clients : at'[t] \in {"deciding", "updating"} => at[t] = at'[t]
      BY <1>0, CreateMoves
    <2> QED  BY <1>0, <1>3, <2>1, CreateMoves DEF Chosen
  <1>5. \A r \in Nat : cycle' \in {2 * r, 2 * r + 1} => r = 0
    BY <1>0, <1>2
  <1>6. \A u \in Clients : at'[u] # "unborn" => increment'[u] = u + 0
    <2> TAKE u \in Clients
    <2> HAVE at'[u] # "unborn"
    <2>1. CASE u = n
      BY <1>0, <1>1, <2>1
    <2>2. CASE u # n
      BY <1>0, <1>2, <1>3, <2>2 DEF Increments
    <2> QED  BY <2>1, <2>2
  <1> QED  BY <1>4, <1>5, <1>6, IncrementsNext

\* Every step keeps the increments as the rounds say.
LEMMA NextIncrements ==
  ASSUME MaxCycles <= INT_MAX, ThreadNumbers, Control, InPhase, Increments, [MNext]_vars
  PROVE  Increments'
  <1> SUFFICES ASSUME failures' = 0 PROVE Increments'
    BY IncrementsNext
  <1>0. failures = 0
    BY FailuresGrow
  <1>1. CASE \E t \in Clients : Update(t)
    BY <1>0, <1>1, UpdateIncrements
  <1>2. CASE \E t \in Clients : InBarrier(t) /\ CompleteCycle(t)
    BY <1>0, <1>2, CompleteIncrements
  <1>3. CASE Create
    BY <1>0, <1>3, CreateIncrements
  <1>4. CASE /\ ~\E t \in Clients : Update(t)
             /\ ~\E t \in Clients : InBarrier(t) /\ CompleteCycle(t)
             /\ ~Create
    <2>1. \A u \in Clients : Chosen(u)' <=> Chosen(u)
      BY <1>4, NobodyChosen
    <2>2. /\ \A u \in Clients : at'[u] # "unborn" => at[u] # "unborn"
          /\ \A t \in Clients : Chosen(t) => out_loop'[t] = out_loop[t] /\ step'[t] = step[t]
          /\ cycle' = cycle /\ increment' = increment
      <3> DEFINE Goal == /\ \A u \in Clients : at'[u] # "unborn" => at[u] # "unborn"
                         /\ \A t \in Clients : Chosen(t) => out_loop'[t] = out_loop[t] /\ step'[t] = step[t]
                         /\ cycle' = cycle /\ increment' = increment
      <3>1. ASSUME NEW t \in Clients, Enter(t) PROVE Goal
        BY <3>1, EnterMoves
      <3>2. ASSUME NEW t \in Clients, Add(t) PROVE Goal
        BY <3>2, AddMoves DEF Chosen
      <3>3. ASSUME NEW t \in Clients, Decide(t) PROVE Goal
        BY <3>3, DecideMoves DEF Chosen
      <3>4. ASSUME NEW t \in Clients, InBarrier(t) \/ Disturb(t) PROVE Goal
        <4>1. UNCHANGED <<at, out_loop, step, increment>>
          BY <3>4 DEF InBarrier, Disturb, tvars, data
        <4>2. cycle' = cycle
          BY <1>4, <3>4 DEF InBarrier, InWait, Arrive, Wake, Disturb, SpuriousWakeup, WaitFailed
        <4> QED  BY <4>1, <4>2
      <3>5. ASSUME Join \/ Finish \/ UNCHANGED vars PROVE Goal
        BY <3>5 DEF Join, Finish, Destroy, vars, bvars, tvars, data
      <3> QED  BY <1>4, <3>1, <3>2, <3>3, <3>4, <3>5 DEF MNext, MainStep, ThreadStep
    <2> QED  BY <1>0, <2>1, <2>2, IncrementsNext DEF Increments
  <1> QED  BY <1>1, <1>2, <1>3, <1>4

\* A round more: INLOOPS times the increment of the round.
LEMMA ExpectedNext ==
  ASSUME ThreadNumbers, NEW t \in Nat, NEW k \in Nat, NEW r \in Nat
  PROVE  /\ Expected(t, k, r) \in Int /\ Expected(t, k, r + 1) \in Int
         /\ Expected(t, k, r + 1) = Expected(t, k, r) + (t + r) * INLOOPS
  <1> DEFINE x == r * (r - 1)
  <1>1. INLOOPS \in Nat
    BY Sizes
  <1>2. x \in Int /\ (r + 1) * ((r + 1) - 1) = x + 2 * r /\ r * t \in Int /\ (r + 1) * t = r * t + t
    OBVIOUS
  <1> HIDE DEF x
  <1>3. (x + 2 * r) \div 2 = x \div 2 + r /\ x \div 2 \in Int
    BY <1>2
  <1> DEFINE y == r * t + x \div 2
  <1>4. y \in Int /\ (r + 1) * t + ((r + 1) * ((r + 1) - 1)) \div 2 = y + (t + r)
    BY <1>2, <1>3
  <1>5. /\ Expected(t, k, r) = k + 1 + INLOOPS * y
        /\ Expected(t, k, r + 1) = k + 1 + INLOOPS * ((r + 1) * t + ((r + 1) * ((r + 1) - 1)) \div 2)
    BY DEF Expected, x
  <1>6. Expected(t, k, r + 1) = k + 1 + INLOOPS * (y + (t + r))
    BY <1>4, <1>5
  <1> HIDE DEF y, Expected
  <1>7. /\ INLOOPS * (y + (t + r)) = INLOOPS * y + (t + r) * INLOOPS
        /\ INLOOPS * y \in Int /\ (t + r) * INLOOPS \in Int
    BY ONLY <1>1, <1>4, t \in Nat, r \in Nat
  <1> QED  BY <1>5, <1>6, <1>7

\* Before the first round an element has its first value.
LEMMA ExpectedFirst ==
  ASSUME ThreadNumbers, NEW t \in Nat, NEW k \in Nat
  PROVE  Expected(t, k, 0) = k + 1
  <1>1. 0 * t = 0 /\ (0 * (0 - 1)) \div 2 = 0
    OBVIOUS
  <1> QED  BY <1>1, Sizes DEF Expected

\* Where the adding loop is: the element, and whether the step is the last.
LEMMA LoopPlace ==
  ASSUME NEW A \in Nat \ {0}, NEW L \in Nat \ {0}, NEW q \in Nat, NEW m \in 0..A - 1
  PROVE  /\ (q * A + m) % A = m
         /\ q * A + m + 1 = L * A => m + 1 = A /\ q + 1 = L
         /\ (q + 1) * A + 0 = q * A + A
  <1>1. (q * A + m) % A = m
    OBVIOUS
  <1>2. ASSUME q * A + m + 1 = L * A PROVE m + 1 = A /\ q + 1 = L
    <2> DEFINE d == L - q
    <2>1. d \in Int /\ d * A = m + 1
      BY <1>2
    <2>2. d * A > 0 /\ d * A <= A
      BY <2>1
    <2> HIDE DEF d
    <2>3. d > 0
      BY <2>1, <2>2
    <2>4. d < 2
      BY <2>1, <2>2
    <2>5. d = 1
      BY <2>1, <2>3, <2>4
    <2> QED  BY <2>1, <2>5 DEF d
  <1> QED  BY <1>1, <1>2

\* Threads whose sums a step does not disturb.
LEMMA SumStays ==
  ASSUME NEW u \in Clients, Summed(u), arrays'[u] = arrays[u], step'[u] = step[u],
         out_loop'[u] = out_loop[u], at'[u] = at[u], pc'[u] = "out" <=> pc[u] = "out"
  PROVE  Summed(u)'
  <1>1. Adding(u)' <=> Adding(u)
    BY DEF Adding
  <1>2. Rounds(u)' = Rounds(u)
    BY DEF Rounds
  <1>3. PartlyAdded(u) => PartlyAdded(u)'
    BY DEF PartlyAdded
  <1> QED  BY <1>1, <1>2, <1>3 DEF Summed

\* A thread that moves between two places outside the adding loop.
LEMMA SumRests ==
  ASSUME NEW u \in Clients, Summed(u), at[u] # "unborn", ~Adding(u), ~Adding(u)',
         Rounds(u)' = Rounds(u), arrays'[u] = arrays[u]
  PROVE  Summed(u)'
  BY DEF Summed

\* A thread that leaves the first barrier starts to add.
LEMMA SumStarts ==
  ASSUME ThreadNumbers, Control, NEW u \in Clients, Summed(u), pc[u] # "out", at[u] = "adding",
         arrays'[u] = arrays[u], step'[u] = step[u], out_loop'[u] = out_loop[u], at'[u] = at[u]
  PROVE  Summed(u)'
  <1> DEFINE c == u + out_loop[u]
  <1>1. /\ step[u] = 0 /\ out_loop[u] \in Nat /\ c \in Nat /\ ARRAY \in Nat \ {0}
    BY Locals, Sizes DEF ThreadAt
  <1>0. (\A k \in Elements : arrays[u][k] = Expected(u, k, Rounds(u))) /\ Rounds(u) = out_loop[u]
    BY <1>1 DEF Summed, Adding, Rounds
  <1>2. \A k \in Elements : arrays[u][k] = Expected(u, k, out_loop[u])
    BY <1>0
  <1>3. arrays[u] \in [Elements -> Nat]
    BY DEF Control, MTypeOK
  <1>4. \A k \in Elements : k \in Int /\ 0 <= k
    BY <1>1 DEF Elements
  <1> HIDE DEF c
  <1>5. \A k \in Elements :
          arrays[u][k] = Expected(u, k, out_loop[u]) + c * (0 + (IF k < 0 THEN 1 ELSE 0))
    <2> TAKE k \in Elements
    <2>1. (IF k < 0 THEN 1 ELSE 0) = 0
      BY <1>4
    <2>2. c * (0 + 0) = 0
      BY ONLY <1>1
    <2>3. arrays[u][k] \in Nat /\ arrays[u][k] = Expected(u, k, out_loop[u])
      BY <1>2, <1>3
    <2> QED  BY <2>1, <2>2, <2>3
  <1>6. 0 \in Elements /\ step[u] = 0 * ARRAY + 0
    BY <1>1 DEF Elements
  <1>7. PartlyAdded(u)'
    BY <1>5, <1>6 DEF PartlyAdded, c
  <1>8. Rounds(u)' = Rounds(u)
    BY DEF Rounds
  <1> QED  BY <1>0, <1>7, <1>8 DEF Summed

\* A step of the adding loop.
LEMMA SumGrows ==
  ASSUME ThreadNumbers, Control, InPhase, Increments, failures = 0, NEW t \in Clients, Add(t), Summed(t)
  PROVE  Summed(t)'
  <1> DEFINE o == out_loop[t]
  <1> DEFINE c == t + o
  <1> DEFINE E(k) == Expected(t, k, o)
  <1>0. Adding(t) /\ at[t] = "adding" /\ pc[t] = "out" /\ pc'[t] = "out" /\ out_loop'[t] = o
    BY AddMoves DEF Adding
  <1>1. PICK q \in Nat, m \in Elements :
          /\ step[t] = q * ARRAY + m
          /\ \A k \in Elements : arrays[t][k] = E(k) + c * (q + (IF k < m THEN 1 ELSE 0))
    BY <1>0 DEF Summed, PartlyAdded
  <1>2. /\ o \in Nat /\ t \in Nat /\ c \in Nat /\ increment[t] = c
        /\ ARRAY \in Nat \ {0} /\ INLOOPS \in Nat \ {0} /\ Elements = 0..ARRAY - 1
    BY <1>0, AddsIncrement, Locals, Sizes DEF Elements
  <1>3. /\ (q * ARRAY + m) % ARRAY = m
        /\ q * ARRAY + m + 1 = INLOOPS * ARRAY => m + 1 = ARRAY /\ q + 1 = INLOOPS
        /\ (q + 1) * ARRAY + 0 = q * ARRAY + ARRAY
        /\ q * ARRAY \in Nat
    BY <1>2, LoopPlace
  <1>4. arrays[t] \in [Elements -> Nat] /\ arrays'[t] = [arrays[t] EXCEPT ![m] = arrays[t][m] + c]
    <2>1. step[t] % ARRAY = m
      BY <1>1, <1>3
    <2> HIDE DEF c
    <2> QED  BY <1>2, <2>1, AddMoves DEF Control, MTypeOK
  <1>5. \A k \in Elements : k \in Nat /\ k < ARRAY
    BY <1>2
  <1>6. \A k \in Elements : E(k) \in Int /\ Expected(t, k, o + 1) = E(k) + c * INLOOPS
    <2> TAKE k \in Elements
    <2>1. k \in Nat /\ o \in Nat /\ t \in Nat
      BY <1>2, <1>5
    <2> HIDE DEF o
    <2> QED  BY <2>1, ExpectedNext
  <1> HIDE DEF E, o, c
  <1>7. c * (q + 1) = c * q + c /\ c * (q + 0) = c * q /\ c * q \in Int
    BY ONLY <1>2, q \in Nat
  <1>8. \A k \in Elements : arrays'[t][k] = E(k) + c * (q + (IF k < m + 1 THEN 1 ELSE 0))
    <2> TAKE k \in Elements
    <2>0. E(k) \in Int /\ k \in Nat /\ m \in Nat /\ c \in Nat
      BY <1>2, <1>5, <1>6
    <2>1. CASE k = m
      <3>1. arrays[t][m] = E(k) + c * (q + 0)
        BY <1>1, <2>0, <2>1
      <3>2. arrays'[t][k] = arrays[t][m] + c
        BY <1>4, <2>1
      <3>3. (IF k < m + 1 THEN 1 ELSE 0) = 1
        BY <2>0, <2>1
      <3> QED  BY <1>7, <2>0, <3>1, <3>2, <3>3
    <2>2. CASE k # m
      <3>1. arrays'[t][k] = arrays[t][k]
        BY <1>4, <2>2
      <3>2. (IF k < m + 1 THEN 1 ELSE 0) = IF k < m THEN 1 ELSE 0
        BY <2>0, <2>2
      <3> QED  BY <1>1, <3>1, <3>2
    <2> QED  BY <2>1, <2>2
  <1>9. m \in Nat /\ m < ARRAY
    BY <1>5
  <1>10. m + 1 = ARRAY => \A k \in Elements : arrays'[t][k] = E(k) + c * (q + 1)
    BY <1>5, <1>8
  <1>11. CASE step[t] + 1 = INLOOPS * ARRAY
    <2>1. m + 1 = ARRAY /\ q + 1 = INLOOPS
      BY <1>1, <1>3, <1>11
    <2>2. at'[t] = "second"
      BY <1>11, AddMoves
    <2>3. \A k \in Elements : arrays'[t][k] = Expected(t, k, o + 1)
      BY <1>6, <1>10, <2>1
    <2>4. Rounds(t)' = o + 1 /\ ~Adding(t)'
      BY <1>0, <2>2 DEF Rounds, Adding, o
    <2> QED  BY <2>3, <2>4 DEF Summed
  <1>12. CASE step[t] + 1 # INLOOPS * ARRAY
    <2>1. at'[t] = "adding" /\ step'[t] = step[t] + 1
      BY <1>12, AddMoves
    <2>2. CASE m + 1 = ARRAY
      <3>1. step'[t] = (q + 1) * ARRAY + 0
        BY <1>1, <1>2, <1>3, <1>9, <2>1, <2>2
      <3>2. 0 \in Elements /\ q + 1 \in Nat
        BY <1>2
      <3>3. \A k \in Elements : arrays'[t][k] = E(k) + c * ((q + 1) + (IF k < 0 THEN 1 ELSE 0))
        <4> TAKE k \in Elements
        <4>1. (q + 1) + (IF k < 0 THEN 1 ELSE 0) = q + 1
          BY <1>5
        <4> QED  BY <1>10, <2>2, <4>1
      <3>4. PartlyAdded(t)'
        BY <1>0, <3>1, <3>2, <3>3 DEF PartlyAdded, E, c, o
      <3> QED  BY <1>0, <2>1, <3>4 DEF Summed, Adding
    <2>3. CASE m + 1 # ARRAY
      <3>1. step'[t] = q * ARRAY + (m + 1)
        BY <1>1, <1>2, <1>3, <1>9, <2>1
      <3>2. m + 1 \in Elements
        BY <1>2, <1>9, <2>3
      <3>3. PartlyAdded(t)'
        BY <1>0, <1>8, <3>1, <3>2 DEF PartlyAdded, E, c, o
      <3> QED  BY <1>0, <2>1, <3>3 DEF Summed, Adding
    <2> QED  BY <2>2, <2>3
  <1> QED  BY <1>11, <1>12

\* A thread that main creates.
LEMMA SumBegins ==
  ASSUME ThreadNumbers, Control, Create, NEW u \in Clients, u = n
  PROVE  Summed(u)'
  <1>1. at'[u] = "first" /\ arrays'[u] = [k \in Elements |-> k + 1] /\ out_loop' = out_loop
    BY CreateMoves
  <1>2. out_loop[u] = 0 /\ u \in Nat /\ ARRAY \in Nat
    BY CreateMoves, Locals, Sizes DEF ThreadAt
  <1>3. \A k \in Elements : arrays'[u][k] = Expected(u, k, 0)
    <2> TAKE k \in Elements
    <2>1. k \in Nat
      BY <1>2 DEF Elements
    <2> QED  BY <1>1, <1>2, <2>1, ExpectedFirst
  <1>4. Rounds(u)' = 0 /\ ~Adding(u)'
    BY <1>1, <1>2 DEF Rounds, Adding
  <1> QED  BY <1>3, <1>4 DEF Summed

\* Every step keeps the arrays as the rounds say.
LEMMA NextAdditions ==
  ASSUME MaxCycles <= INT_MAX, ThreadNumbers, Control, InPhase, Increments, Additions, [MNext]_vars
  PROVE  Additions'
  <1> SUFFICES ASSUME failures' = 0, NEW u \in Clients PROVE Summed(u)'
    BY DEF Additions
  <1>0. failures = 0 /\ Summed(u) /\ IInv /\ out_loop[u] \in Int
    BY FailuresGrow, Locals DEF Additions, Control
  <1>1. ASSUME NEW t \in Clients, Enter(t) PROVE Summed(u)'
    <2>1. CASE u = t
      <3>1. Rounds(u)' = Rounds(u) /\ ~Adding(u) /\ ~Adding(u)' /\ at[u] # "unborn" /\ arrays'[u] = arrays[u]
        BY <1>0, <1>1, <2>1, EnterMoves DEF Rounds, Adding
      <3> QED  BY <1>0, <3>1, SumRests
    <2>2. CASE u # t
      BY <1>0, <1>1, <2>2, EnterMoves, SumStays
    <2> QED  BY <2>1, <2>2
  <1>2. ASSUME NEW t \in Clients, Add(t) PROVE Summed(u)'
    <2>1. CASE u = t
      BY <1>0, <1>2, <2>1, SumGrows
    <2>2. CASE u # t
      BY <1>0, <1>2, <2>2, AddMoves, SumStays
    <2> QED  BY <2>1, <2>2
  <1>3. ASSUME NEW t \in Clients, Decide(t) PROVE Summed(u)'
    <2>1. CASE u = t
      <3>1. Rounds(u)' = Rounds(u) /\ ~Adding(u) /\ ~Adding(u)' /\ at[u] # "unborn" /\ arrays'[u] = arrays[u]
        BY <1>0, <1>3, <2>1, DecideMoves DEF Rounds, Adding
      <3> QED  BY <1>0, <3>1, SumRests
    <2>2. CASE u # t
      BY <1>0, <1>3, <2>2, DecideMoves, SumStays
    <2> QED  BY <2>1, <2>2
  <1>4. ASSUME NEW t \in Clients, Update(t) PROVE Summed(u)'
    <2>1. CASE u = t
      <3>1. Rounds(u)' = Rounds(u) /\ ~Adding(u) /\ ~Adding(u)' /\ at[u] # "unborn" /\ arrays'[u] = arrays[u]
        BY <1>0, <1>4, <2>1, UpdateMoves DEF Rounds, Adding
      <3> QED  BY <1>0, <3>1, SumRests
    <2>2. CASE u # t
      BY <1>0, <1>4, <2>2, UpdateMoves, SumStays
    <2> QED  BY <2>1, <2>2
  <1>5. ASSUME NEW t \in Clients, InBarrier(t) \/ Disturb(t) PROVE Summed(u)'
    <2>1. /\ UNCHANGED <<at, out_loop, step, arrays>>
          /\ CompleteCycle(t) \/ Arrive(t) \/ Wake(t) \/ SpuriousWakeup(t) \/ WaitFailed(t)
      BY <1>5 DEF InBarrier, InWait, Disturb, tvars, data
    <2>2. u # t => (pc'[u] = "out" <=> pc[u] = "out")
      BY <1>0, <2>1, CompleteMoves, ArriveMoves, WakeMoves, DisturbMoves
    <2>3. u = t => pc[u] # "out"
      BY <1>0, <2>1, CompleteMoves, ArriveMoves, WakeMoves, DisturbMoves
    <2>4. CASE u = t /\ at[u] = "adding"
      BY <1>0, <2>1, <2>3, <2>4, SumStarts
    <2>5. CASE u = t /\ at[u] # "adding"
      <3>1. Rounds(u)' = Rounds(u) /\ ~Adding(u) /\ ~Adding(u)'
        BY <2>1, <2>5 DEF Rounds, Adding
      <3>2. at[u] # "unborn"
        BY <2>3, <2>5, Locals DEF ThreadAt
      <3> QED  BY <1>0, <2>1, <3>1, <3>2, SumRests
    <2>6. CASE u # t
      BY <1>0, <2>1, <2>2, <2>6, SumStays
    <2> QED  BY <2>4, <2>5, <2>6
  <1>6. ASSUME Create PROVE Summed(u)'
    <2>1. CASE u = n
      BY <1>6, <2>1, SumBegins
    <2>2. CASE u # n
      BY <1>0, <1>6, <2>2, CreateMoves, SumStays
    <2> QED  BY <2>1, <2>2
  <1>7. ASSUME Join \/ Finish \/ UNCHANGED vars PROVE Summed(u)'
    <2>1. UNCHANGED <<at, out_loop, step, arrays, pc>>
      BY <1>7 DEF Join, Finish, Destroy, vars, bvars, tvars, data
    <2> QED  BY <1>0, <2>1, SumStays
  <1> QED  BY <1>1, <1>2, <1>3, <1>4, <1>5, <1>6, <1>7 DEF MNext, MainStep, ThreadStep

\* A thread that is done has added all its rounds.
LEMMA DoneSum ==
  ASSUME ThreadNumbers, Control, Additions, failures = 0, NEW t \in Clients, at[t] = "done"
  PROVE  \A k \in Elements : arrays[t][k] = Expected(t, k, OUTLOOPS + 1)
  <1>1. out_loop[t] = OUTLOOPS + 1 /\ OUTLOOPS \in Nat
    BY Locals, Sizes DEF ThreadAt
  <1>2. Rounds(t) = OUTLOOPS + 1 /\ ~Adding(t)
    BY <1>1 DEF Rounds, Adding
  <1> QED  BY <1>2 DEF Additions, Summed

\* Every step keeps what main has printed right, and barrier_destroy finds
\* nobody in the barrier.
LEMMA NextPrinted ==
  ASSUME ThreadNumbers, Control, Additions, Printed, [MNext]_vars
  PROVE  Printed'
  <1> SUFFICES ASSUME failures' = 0
               PROVE  /\ \A t \in Clients : main' \in {"destroy", "exit"} \/ (main' = "join" /\ t < n') =>
                           \A k \in Elements : printed'[t][k] = Expected(t, k, OUTLOOPS + 1)
                      /\ main' = "exit" => destroyed' = 0
    BY DEF Printed
  <1>0. failures = 0
    BY FailuresGrow
  <1>1. /\ \A t \in Clients : main \in {"destroy", "exit"} \/ (main = "join" /\ t < n) =>
             \A k \in Elements : printed[t][k] = Expected(t, k, OUTLOOPS + 1)
        /\ main = "exit" => destroyed = 0
    BY <1>0 DEF Printed
  <1>2. n \in Clients /\ threshold \in Nat /\ \A c \in Clients : c \in Int /\ 0 <= c /\ c < threshold
    BY Sizes DEF Control, MTypeOK
  <1>3. CASE Create
    <2>1. main' \in {"create", "join"} /\ (main' = "join" => n' = 0)
      BY <1>3, CreateMoves
    <2> QED  BY <1>2, <2>1
  <1>4. CASE Join
    <2>1. /\ main = "join" /\ at[n] = "done" /\ printed' = [printed EXCEPT ![n] = arrays[n]]
          /\ IF n + 1 = threshold THEN main' = "destroy" /\ n' = 0 ELSE n' = n + 1 /\ main' = main
      BY <1>4 DEF Join
    <2>2. /\ printed'[n] = arrays[n] /\ \A t \in Clients : t # n => printed'[t] = printed[t]
      BY <1>2, <2>1 DEF Control, MTypeOK
    <2>3. \A k \in Elements : arrays[n][k] = Expected(n, k, OUTLOOPS + 1)
      BY <1>0, <1>2, <2>1, DoneSum
    <2>4. \A t \in Clients : t <= n => \A k \in Elements : printed'[t][k] = Expected(t, k, OUTLOOPS + 1)
      BY <1>1, <1>2, <2>1, <2>2, <2>3
    <2> QED  BY <1>2, <2>1, <2>4
  <1>5. CASE Finish
    <2>1. main = "destroy" /\ main' = "exit" /\ printed' = printed /\ valid
      BY <1>5 DEF Finish, Control, MainAt, Running
    <2>2. \A t \in Clients : pc[t] = "out"
      <3> TAKE t \in Clients
      <3>1. at[t] = "done"
        BY <2>1 DEF Control, MainAt
      <3> QED  BY <3>1, Locals DEF ThreadAt
    <2>3. Gathered = {}
      BY <2>2 DEF Gathered, Inside
    <2>4. threshold - counter = 0 /\ counter \in Int
      BY <1>0, <1>2, <2>3, FS_EmptySet DEF Control, IInv, CounterMatches, TypeOK
    <2>5. destroyed' = 0
      BY <1>2, <1>5, <2>1, <2>4 DEF Finish, Destroy
    <2> QED  BY <1>1, <2>1, <2>5
  <1>6. CASE \E t \in Clients : ThreadStep(t) \/ Disturb(t)
    <2>1. UNCHANGED <<printed, destroyed, n>> /\ main' \in {main, "abort"}
      BY <1>6 DEF ThreadStep, Enter, InBarrier, Add, Decide, Update, Disturb, mvars
    <2> QED  BY <1>1, <2>1
  <1>7. CASE UNCHANGED vars
    BY <1>1, <1>7 DEF vars, mvars
  <1> QED  BY <1>3, <1>4, <1>5, <1>6, <1>7 DEF MNext, MainStep

\* What the invariant says of the results.
LEMMA ResultsFollow ==
  ASSUME ThreadNumbers, Control, InPhase, Increments, Additions, Printed
  PROVE  ResultsExact
  <1>1. ArraysInStep
    BY DEF ArraysInStep, Additions, Summed, Rounds
  <1>2. ASSUME failures = 0, main = "exit", NEW u \in Clients
        PROVE  increment[u] = u + OUTLOOPS + 1
    <2>1. \A t \in Clients : at[t] = "done" /\ pc[t] = "out" /\ out_loop[t] = OUTLOOPS + 1
      BY <1>2, Locals DEF Control, MainAt, ThreadAt
    <2>2. \A t \in Clients : ~Chosen(t)
      BY <2>1 DEF Chosen
    <2>3. cycle = 2 * (OUTLOOPS + 1) /\ OUTLOOPS + 1 \in Nat
      BY <1>2, <2>1, ChosenCycle, Sizes
    <2>4. increment[u] = u + (OUTLOOPS + 1)
      BY <1>2, <2>1, <2>2, <2>3 DEF Increments
    <2> QED  BY <2>4, Sizes
  <1>3. CleanExit
    BY <1>2 DEF CleanExit, Printed
  <1> QED  BY <1>1, <1>3 DEF ResultsExact

\* While the cycle fits an int and until a wait fails, every array holds, outside
\* the adding loop, exactly what its finished rounds have added, whatever the
\* threads' relative speed, and main prints the full sums and destroys an idle
\* barrier.
THEOREM ResultsCorrect ==
  ASSUME MaxCycles <= INT_MAX, ThreadNumbers
  PROVE  MSpec => []ResultsExact
  <1> DEFINE I == Control /\ InPhase /\ Increments /\ Additions /\ Printed
  <1>1. ASSUME MInit PROVE I
    <2>1. Increments /\ Additions /\ Printed
      BY <1>1 DEF MInit, Increments, Additions, Summed, Printed
    <2> QED  BY <1>1, <2>1, InitControl, InitPhase
  <1>2. I /\ [MNext]_vars => I'
    BY NextControl, NextPhase, NextIncrements, NextAdditions, NextPrinted
  <1>3. I => ResultsExact
    BY ResultsFollow
  <1> QED  BY <1>1, <1>2, <1>3, PTL DEF MSpec
=============================================================================
