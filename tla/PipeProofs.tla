------------------------------ MODULE PipeProofs ------------------------------
(***************************************************************************)
(* Proofs about Pipe, for every number of stages and values.               *)
(***************************************************************************)
EXTENDS MCPipe, FiniteSetTheorems, SequenceTheorems, TLAPS

\* PipeInv is inductive.  NoneAsleep needs SenderHasData: a sender that frees
\* its stage must have held the datum that made others wait for it.

\* Stage numbers and their neighbours.
LEMMA Numbers ==
  /\ 0 \in Threads /\ stages \in All /\ 0 \in All /\ stages - 1 \in Threads
  /\ Threads \subseteq All /\ stages \notin Threads
  /\ \A i \in Threads : i + 1 \in All /\ i # i + 1 /\ i + 1 # 0
  /\ \A i \in Threads : i + 1 # stages => i + 1 \in Threads
  /\ \A i, j \in Threads : i + 1 = j + 1 => i = j
  BY PipeAssumption DEF Threads, All

\* Init establishes the invariant.
LEMMA InitIInv == Init => PipeInv
  <1> SUFFICES ASSUME Init PROVE PipeInv
    OBVIOUS
  <1>1. TypeOK
    <2>1. value \in Values \cup {0} /\ active \in Nat
      BY DEF Init
    <2>2. wild \in BOOLEAN
      BY DEF Init
    <2>3. queue \in Seq(Values \cup {0}) /\ started \in Seq(Values \cup {0}) /\ results \in Seq(Int)
      BY DEF Init
    <2> QED  BY <2>1, <2>2, <2>3 DEF Init, TypeOK
  <1>2. NoneAsleep /\ SenderHasData
    BY Numbers DEF Init, NoneAsleep, SenderHasData
  <1> QED  BY <1>1, <1>2 DEF PipeInv

\* Passing the datum on wakes whoever waits for either stage.
LEMMA StageSendIInv ==
  ASSUME PipeInv, NEW i \in Threads, StageSend(i)
  PROVE  PipeInv'
  <1>0. /\ data_ready \in [All -> {0, 1}] /\ data \in [All -> Int]
        /\ pc \in [Threads -> {"start", "waiting", "woken", "send", "full"}]
        /\ main \in {"idle", "send", "sendwait", "collect", "collectwait", "exit"}
    BY DEF PipeInv, TypeOK
  <1>1. /\ i \in All /\ i + 1 \in All /\ i # i + 1
        /\ data_ready[i] = 1 /\ data_ready[i + 1] = 0
        /\ data_ready' = [data_ready EXCEPT ![i + 1] = 1, ![i] = 0]
    BY Numbers DEF StageSend, PipeInv, SenderHasData
  <1>2. /\ data_ready'[i] = 0 /\ data_ready'[i + 1] = 1
        /\ \A j \in All \ {i, i + 1} : data_ready'[j] = data_ready[j]
        /\ data_ready' \in [All -> {0, 1}]
    BY <1>0, <1>1
  <1>3. /\ pc'[i] = "waiting"
        /\ \A j \in Threads : j = i + 1 => pc'[j] = Woken(pc[j])
        /\ \A j \in Threads : j + 1 = i => pc'[j] = WokenFull(pc[j])
        /\ \A j \in Threads : j # i /\ j # i + 1 /\ j + 1 # i => pc'[j] = pc[j]
        /\ pc' \in [Threads -> {"start", "waiting", "woken", "send", "full"}]
    <2>1. \A j \in Threads : j \in Int /\ (j = i - 1 <=> j + 1 = i)
      BY PipeAssumption DEF Threads
    <2>2. pc' = [j \in Threads |-> CASE j = i -> "waiting"
                                     [] j = i + 1 -> Woken(pc[j])
                                     [] j = i - 1 -> WokenFull(pc[j])
                                     [] OTHER -> pc[j]]
      BY DEF StageSend
    <2>3. pc'[i] = "waiting"
      BY <2>1, <2>2
    <2>4. ASSUME NEW j \in Threads, j = i + 1 PROVE pc'[j] = Woken(pc[j])
      BY <2>1, <2>2, <2>4
    <2>5. ASSUME NEW j \in Threads, j + 1 = i PROVE pc'[j] = WokenFull(pc[j])
      BY <2>1, <2>2, <2>5
    <2>6. ASSUME NEW j \in Threads, j # i, j # i + 1, j + 1 # i PROVE pc'[j] = pc[j]
      BY <2>1, <2>2, <2>6
    <2>7. ASSUME NEW j \in Threads
          PROVE  pc'[j] \in {"start", "waiting", "woken", "send", "full"}
      BY <1>0, <2>3, <2>4, <2>5, <2>6 DEF Woken, WokenFull
    <2>8. pc' = [j \in Threads |-> pc'[j]]
      BY <2>2
    <2> QED  BY <2>3, <2>4, <2>5, <2>6, <2>7, <2>8
  <1>4. /\ i = 0 => main' # "sendwait"
        /\ i + 1 = stages => main' # "collectwait"
        /\ main' = "sendwait" => main = "sendwait"
        /\ main' = "collectwait" => main = "collectwait"
        /\ main' \in {"idle", "send", "sendwait", "collect", "collectwait", "exit"}
    <2>1. CASE i = 0 /\ main = "sendwait"
      <3>1. main' = "send"
        BY <2>1 DEF StageSend
      <3> QED  BY <3>1
    <2>2. CASE ~(i = 0 /\ main = "sendwait") /\ i + 1 = stages
      <3>1. main' = WokenCollect(main)
        BY <2>2 DEF StageSend
      <3> QED  BY <3>1, <2>2, <1>0 DEF WokenCollect
    <2>3. CASE ~(i = 0 /\ main = "sendwait") /\ i + 1 # stages
      <3>1. main' = main
        BY <2>3 DEF StageSend
      <3> QED  BY <3>1, <2>3, <1>0
    <2> QED  BY <2>1, <2>2, <2>3
  <1>5. TypeOK'
    <2>1. data' \in [All -> Int]
      BY <1>0, <1>1 DEF StageSend
    <2> QED  BY <1>2, <1>3, <1>4, <2>1 DEF StageSend, PipeInv, TypeOK
  <1>6. \A j \in Threads : data_ready'[j] = 1 => pc'[j] # "waiting"
    BY <1>2, <1>3, Numbers DEF PipeInv, NoneAsleep, Woken, WokenFull
  <1>7. \A j \in Threads : data_ready'[j + 1] = 0 => pc'[j] # "full"
    BY <1>2, <1>3, Numbers DEF PipeInv, NoneAsleep, Woken, WokenFull
  <1>8. data_ready'[0] = 0 => main' # "sendwait"
    BY <1>2, <1>4, Numbers DEF PipeInv, NoneAsleep
  <1>9. data_ready'[stages] = 1 => main' # "collectwait"
    BY <1>2, <1>4, Numbers DEF PipeInv, NoneAsleep
  <1>10. SenderHasData'
    <2> SUFFICES ASSUME NEW j \in Threads, pc'[j] \in {"send", "full"}
                 PROVE  data_ready'[j] = 1
      BY DEF SenderHasData
    <2>1. CASE j = i + 1
      BY <2>1, <1>2
    <2>2. CASE j # i /\ j # i + 1
      <3>1. pc[j] \in {"send", "full"}
        BY <2>2, <1>3 DEF WokenFull
      <3> QED  BY <3>1, <2>2, <1>2, Numbers DEF PipeInv, SenderHasData
    <2>3. CASE j = i
      BY <2>3, <1>3
    <2> QED  BY <2>1, <2>2, <2>3
  <1> QED  BY <1>5, <1>6, <1>7, <1>8, <1>9, <1>10 DEF PipeInv, NoneAsleep

\* Every step preserves the invariant.
LEMMA NextIInv == PipeInv /\ [Next]_vars => PipeInv'
  <1> SUFFICES ASSUME PipeInv, [Next]_vars PROVE PipeInv'
    OBVIOUS
  <1> USE DEF PipeInv, TypeOK, NoneAsleep, SenderHasData
  <1>1. ASSUME NEW i \in Threads, Stage(i) PROVE PipeInv'
    BY <1>1, Numbers DEF Stage
  <1>2. ASSUME NEW i \in Threads, StageFull(i) PROVE PipeInv'
    BY <1>2, Numbers DEF StageFull
  <1>3. ASSUME NEW i \in Threads, StageSend(i) PROVE PipeInv'
    BY <1>3, StageSendIInv
  <1>4. ASSUME NEW i \in Threads, SpuriousStage(i) PROVE PipeInv'
    BY <1>4, Numbers DEF SpuriousStage
  <1>5. CASE SpuriousMain
    BY <1>5 DEF SpuriousMain
  <1>6. ASSUME NEW v \in Values, Start(v) PROVE PipeInv'
    BY <1>6 DEF Start
  <1>7. CASE StartFull
    <2>1. value \in Values \cup {0} /\ queue \in Seq(Values \cup {0})
      OBVIOUS
    <2>2. Append(queue, value) \in Seq(Values \cup {0})
      BY <2>1
    <2>3. queue' \in Seq(Values \cup {0})
      BY <1>7, <2>1, <2>2 DEF StartFull
    <2>4. wild' \in BOOLEAN
      BY <1>7 DEF StartFull
    <2> QED  BY <1>7, <2>3, <2>4, Numbers DEF StartFull
  <1>8. CASE StartSend
    <2>1. value \in Int /\ started \in Seq(Values \cup {0})
      BY PipeAssumption
    <2>2. started' \in Seq(Values \cup {0})
      BY <1>8, <2>1 DEF StartSend
    <2>3. /\ data' \in [All -> Int] /\ data_ready' \in [All -> {0, 1}]
          /\ pc' \in [Threads -> {"start", "waiting", "woken", "send", "full"}]
      BY <1>8, <2>1, Numbers DEF StartSend, Woken
    <2>4. TypeOK'
      BY <1>8, <2>2, <2>3 DEF StartSend
    <2>5. NoneAsleep' /\ SenderHasData'
      BY <1>8, Numbers DEF StartSend, Woken
    <2> QED  BY <2>4, <2>5
  <1>9. CASE ResultEmpty
    BY <1>9 DEF ResultEmpty, vars
  <1>10. CASE ResultBegin
    BY <1>10 DEF ResultBegin
  <1>11. CASE ResultWait
    BY <1>11 DEF ResultWait
  <1>12. CASE ResultTake
    <2>1. data[stages] \in Int /\ results \in Seq(Int)
      BY Numbers
    <2>2. results' \in Seq(Int)
      BY <1>12, <2>1 DEF ResultTake
    <2>3. /\ data_ready' \in [All -> {0, 1}]
          /\ pc' \in [Threads -> {"start", "waiting", "woken", "send", "full"}]
      BY <1>12, Numbers DEF ResultTake, WokenFull
    <2>4. TypeOK'
      BY <1>12, <2>2, <2>3 DEF ResultTake
    <2>5. SenderHasData'
      BY <1>12, Numbers DEF ResultTake, WokenFull
    <2>6. \A i \in Threads : data_ready'[i + 1] = 0 => pc'[i] # "full"
      <3>1. \A i \in Threads : i + 1 = stages <=> i = stages - 1
        BY PipeAssumption DEF Threads
      <3> QED  BY <1>12, <3>1, Numbers DEF ResultTake, WokenFull
    <2>7. NoneAsleep'
      BY <1>12, <2>6, Numbers DEF ResultTake, WokenFull
    <2> QED  BY <2>4, <2>5, <2>7
  <1>13. CASE Eof
    BY <1>13 DEF Eof
  <1>14. CASE UNCHANGED vars
    BY <1>14 DEF vars
  <1> QED  BY <1>1, <1>2, <1>3, <1>4, <1>5, <1>6, <1>7, <1>8, <1>9, <1>10, <1>11, <1>12, <1>13,
              <1>14
           DEF Next, StageStep, MainStep, Input

\* In a pipeline of any length the fields keep their types and no wakeup is lost,
\* although every stage but the last holds its mutex while it sends, and every
\* signal is sent to a condition variable its waiter may not have reached.
THEOREM PipeInvariant == Spec => []PipeInv
  BY InitIInv, NextIInv, PTL DEF Spec

\* What main's place adds to pipe->active.
LEMMA ActivePlaces ==
  /\ main \in {"send", "sendwait"} => (ActiveCounts <=> active = Len(started) - Len(results) + 1)
  /\ main \in {"collect", "collectwait"} => (ActiveCounts <=> active = Len(started) - Len(results) + (-1))
  /\ main \in {"idle", "exit"} => (ActiveCounts <=> active = Len(started) - Len(results) + 0)
  BY DEF ActiveCounts

\* pipe->active is exact: with it positive, a result is in the pipe.
THEOREM ActiveExact == Spec => []ActiveCounts
  <1>1. Init => ActiveCounts
    <2> SUFFICES ASSUME Init PROVE ActiveCounts
      OBVIOUS
    <2>1. main = "idle" /\ active = 0 /\ Len(started) = 0 /\ Len(results) = 0
      BY DEF Init
    <2> QED  BY <2>1, ActivePlaces
  <1>2. PipeInv /\ ActiveCounts /\ [Next]_vars => ActiveCounts'
    <2> SUFFICES ASSUME PipeInv, ActiveCounts, [Next]_vars PROVE ActiveCounts'
      OBVIOUS
    <2>0. /\ Len(started) \in Nat /\ Len(results) \in Nat /\ active \in Nat
          /\ main \in {"idle", "send", "sendwait", "collect", "collectwait", "exit"}
          /\ main' \in {"idle", "send", "sendwait", "collect", "collectwait", "exit"}
          /\ started \in Seq(Values \cup {0}) /\ results \in Seq(Int)
      BY NextIInv DEF PipeInv, TypeOK
    <2>a. /\ main' \in {"send", "sendwait"}
                => (ActiveCounts' <=> active' = Len(started') - Len(results') + 1)
          /\ main' \in {"collect", "collectwait"}
                => (ActiveCounts' <=> active' = Len(started') - Len(results') + (-1))
          /\ main' \in {"idle", "exit"}
                => (ActiveCounts' <=> active' = Len(started') - Len(results') + 0)
      BY DEF ActiveCounts
    <2>1. ASSUME NEW i \in Threads, StageStep(i) \/ SpuriousStage(i) PROVE ActiveCounts'
      <3>1. /\ UNCHANGED <<active, started, results>>
            /\ \/ main' = main
               \/ main = "sendwait" /\ main' = "send"
               \/ main = "collectwait" /\ main' = "collect"
        BY <2>1 DEF StageStep, Stage, StageFull, StageSend, SpuriousStage, WokenCollect
      <3> QED  BY <3>1, <2>0, <2>a, ActivePlaces
    <2>2. CASE SpuriousMain \/ StartFull \/ ResultWait \/ ResultEmpty \/ Eof \/ UNCHANGED vars
      <3>1. /\ UNCHANGED <<active, started, results>>
            /\ \/ main' = main
               \/ {main, main'} \subseteq {"send", "sendwait"}
               \/ {main, main'} \subseteq {"collect", "collectwait"}
               \/ {main, main'} \subseteq {"idle", "exit"}
        BY <2>2 DEF SpuriousMain, StartFull, ResultWait, ResultEmpty, Eof, vars
      <3> QED  BY <3>1, <2>0, <2>a, ActivePlaces
    <2>3. ASSUME NEW v \in Values, Start(v) PROVE ActiveCounts'
      BY <2>3, <2>0, <2>a, ActivePlaces DEF Start
    <2>4. CASE StartSend
      <3>1. value \in Values \cup {0}
        BY DEF PipeInv, TypeOK
      <3>2. Len(started') = Len(started) + 1 /\ results' = results
        BY <2>4, <3>1, <2>0 DEF StartSend
      <3> QED  BY <3>2, <2>4, <2>0, <2>a, ActivePlaces DEF StartSend
    <2>5. CASE ResultBegin
      BY <2>5, <2>0, <2>a, ActivePlaces DEF ResultBegin
    <2>6. CASE ResultTake
      <3>1. data[stages] \in Int
        BY Numbers DEF PipeInv, TypeOK
      <3>2. Len(results') = Len(results) + 1 /\ started' = started
        BY <2>6, <3>1, <2>0 DEF ResultTake
      <3> QED  BY <3>2, <2>6, <2>0, <2>a, ActivePlaces DEF ResultTake
    <2> QED  BY <2>1, <2>2, <2>3, <2>4, <2>5, <2>6 DEF Next, MainStep, Input
  <1> QED  BY <1>1, <1>2, InitIInv, NextIInv, PTL DEF Spec

\* Both together: whatever the length of the pipeline and the speed of its
\* stages, no wakeup is lost and pipe->active is exact.
THEOREM Sound == Spec => []PipeSound
  <1>1. PipeInv /\ ActiveCounts => PipeSound
    BY DEF PipeSound
  <1> QED  BY <1>1, PipeInvariant, ActiveExact, PTL
-----------------------------------------------------------------------------
(* The refinement of the first-in first-out queue.                         *)

\* Stages are finitely many, and so are those at or after one of them.
LEMMA Finite ==
  ASSUME NEW S \in SUBSET All
  PROVE  /\ IsFiniteSet(S) /\ Cardinality(S) \in Nat
         /\ \A i : IsFiniteSet({j \in S : j >= i}) /\ Place(S, i) \in Nat
  <1>1. IsFiniteSet(All)
    BY FS_Interval, PipeAssumption DEF All
  <1>2. \A T \in SUBSET S : IsFiniteSet(T) /\ Cardinality(T) \in Nat
    BY <1>1, FS_Subset, FS_CardinalityType
  <1> QED  BY <1>2 DEF Place

\* Two stages have different places.
LEMMA PlacesDiffer ==
  ASSUME NEW S \in SUBSET All, NEW i \in S, NEW j \in S, i < j
  PROVE  Place(S, j) < Place(S, i)
  <1> DEFINE I == {k \in S : k >= i}
             J == {k \in S : k >= j}
  <1>1. \A k \in S : k \in Int
    BY PipeAssumption DEF All
  <1>2. J \in SUBSET I /\ i \in I /\ i \notin J
    BY <1>1
  <1>3. IsFiniteSet(I) /\ IsFiniteSet(J)
    BY Finite, Zenon
  <1> HIDE DEF I, J
  <1>4. Cardinality(J) <= Cardinality(I) /\ Cardinality(I) # Cardinality(J)
    BY <1>2, <1>3, FS_Subset
  <1>5. Cardinality(I) \in Nat /\ Cardinality(J) \in Nat
    BY <1>3, FS_CardinalityType
  <1>6. Cardinality(J) < Cardinality(I)
    BY ONLY <1>4, <1>5
  <1> QED  BY <1>6 DEF Place, I, J

\* So there is one stage at each place.
LEMMA KthIs ==
  ASSUME NEW S \in SUBSET All, NEW i \in S
  PROVE  Kth(S, Place(S, i)) = i
  <1>1. ASSUME NEW j \in S, Place(S, j) = Place(S, i) PROVE j = i
    <2>0. i \in Int /\ j \in Int
      BY PipeAssumption DEF All
    <2>1. i \in Int /\ j \in Int /\ Place(S, i) \in Nat
      BY <2>0, Finite, Zenon
    <2>2. ~(i < j) /\ ~(j < i)
      BY <1>1, <2>1, PlacesDiffer
    <2> QED  BY <2>1, <2>2
  <1>2. Kth(S, Place(S, i)) \in S /\ Place(S, Kth(S, Place(S, i))) = Place(S, i)
    BY DEF Kth
  <1> QED  BY <1>1, <1>2

\* Every place up to the number of stages is taken.
Filled(S) == \A k \in 1..Cardinality(S) : \E i \in S : Place(S, i) = k

\* A datum moves on to the next stage, which was free: places are kept.
LEMMA Moved ==
  ASSUME NEW S \in SUBSET All, NEW T \in SUBSET All, NEW i \in S, i + 1 \in All, i + 1 \notin S,
         T = (S \ {i}) \cup {i + 1}
  PROVE  /\ Cardinality(T) = Cardinality(S)
         /\ Place(T, i + 1) = Place(S, i)
         /\ \A j \in S \ {i} : Place(T, j) = Place(S, j)
  <1>0. /\ \A k \in S : k \in Int
        /\ \A k \in T : k \in Int
        /\ i \in Int
    BY PipeAssumption DEF All
  <1>1. ASSUME NEW U \in SUBSET S, i \in U
        PROVE  Cardinality((U \ {i}) \cup {i + 1}) = Cardinality(U)
    <2>1. IsFiniteSet(U)
      BY Finite, FS_Subset
    <2>2. IsFiniteSet(U \ {i}) /\ Cardinality(U \ {i}) = Cardinality(U) - 1 /\ Cardinality(U) \in Nat
      BY <1>1, <2>1, FS_RemoveElement, FS_CardinalityType
    <2>3. i + 1 \notin U \ {i}
      OBVIOUS
    <2>4. Cardinality((U \ {i}) \cup {i + 1}) = Cardinality(U \ {i}) + 1
      BY <2>2, <2>3, FS_AddElement
    <2> QED  BY <2>2, <2>4
  <1>2. Place(T, i + 1) = Place(S, i)
    <2>1. \A j \in S : j # i => (j >= i <=> j >= i + 1)
      BY <1>0
    <2>3. i + 1 >= i + 1 /\ ~(i >= i + 1)
      BY <1>0
    <2>a. {j \in T : j >= i + 1} = ({j \in S : j >= i} \ {i}) \cup {i + 1}
      BY <2>1, <2>3, Zenon
    <2>2. i \in {j \in S : j >= i}
      BY <1>0
    <2> QED  BY <2>a, <2>2, <1>1 DEF Place
  <1>3. ASSUME NEW j \in S \ {i} PROVE Place(T, j) = Place(S, j)
    <2>1. CASE j < i
      <3>1. {k \in T : k >= j} = ({k \in S : k >= j} \ {i}) \cup {i + 1}
        BY <1>0, <2>1
      <3>2. i \in {k \in S : k >= j}
        BY <1>0, <2>1
      <3> QED  BY <3>1, <3>2, <1>1 DEF Place
    <2>2. CASE ~(j < i)
      <3>1. j > i + 1
        BY <1>0, <2>2
      <3>2. {k \in T : k >= j} = {k \in S : k >= j}
        BY <1>0, <3>1
      <3> QED  BY <3>2 DEF Place
    <2> QED  BY <2>1, <2>2
  <1> QED  BY <1>1, <1>2, <1>3

\* A datum comes into stage 0: it is the last, the others keep their places.
LEMMA Entered ==
  ASSUME NEW S \in SUBSET All, NEW T, 0 \notin S, T = S \cup {0}
  PROVE  /\ Cardinality(T) = Cardinality(S) + 1
         /\ Place(T, 0) = Cardinality(T)
         /\ \A j \in S : Place(T, j) = Place(S, j)
  <1>0. \A k \in T : k \in Int /\ k >= 0
    BY PipeAssumption DEF All
  <1>1. Cardinality(T) = Cardinality(S) + 1
    BY Finite, FS_AddElement
  <1>2. {j \in T : j >= 0} = T
    BY <1>0
  <1>3. ASSUME NEW j \in S PROVE {k \in T : k >= j} = {k \in S : k >= j}
    BY <1>0
  <1> QED  BY <1>1, <1>2, <1>3 DEF Place

\* The datum of the last stage is taken: it was first, and all move up.
LEMMA Left ==
  ASSUME NEW S \in SUBSET All, NEW T, stages \in S, T = S \ {stages}
  PROVE  /\ Cardinality(T) = Cardinality(S) - 1
         /\ Place(S, stages) = 1
         /\ \A j \in T : Place(T, j) = Place(S, j) - 1
  <1>0. \A k \in S : k \in Int /\ stages >= k /\ (k >= stages => k = stages)
    BY PipeAssumption DEF All
  <1>1. Cardinality(T) = Cardinality(S) - 1
    BY Finite, FS_RemoveElement
  <1>2. {j \in S : j >= stages} = {stages}
    BY <1>0
  <1>3. ASSUME NEW j \in T PROVE Place(T, j) = Place(S, j) - 1
    <2>1. {k \in T : k >= j} = {k \in S : k >= j} \ {stages} /\ stages \in {k \in S : k >= j}
      BY <1>0
    <2> QED  BY <2>1, Finite, FS_RemoveElement DEF Place
  <1> QED  BY <1>1, <1>2, <1>3, FS_Singleton DEF Place
\* The values of data d in the stages S, in the order of their places.
Line(S, d) == [k \in 1..Cardinality(S) |-> d[Kth(S, k)] - Kth(S, k)]

\* Line by the stages.
LEMMA LineAt ==
  ASSUME NEW S \in SUBSET All, Filled(S), NEW d
  PROVE  /\ DOMAIN Line(S, d) = 1..Cardinality(S)
         /\ \A k \in 1..Cardinality(S) :
              \E i \in S : Place(S, i) = k /\ Kth(S, k) = i /\ Line(S, d)[k] = d[i] - i
  <1>1. ASSUME NEW k \in 1..Cardinality(S)
        PROVE  \E i \in S : Place(S, i) = k /\ Kth(S, k) = i /\ Line(S, d)[k] = d[i] - i
    <2>1. PICK i \in S : Place(S, i) = k
      BY DEF Filled
    <2>2. Kth(S, k) = i
      BY <2>1, KthIs
    <2> QED  BY <2>1, <2>2 DEF Line
  <1> QED  BY <1>1 DEF Line

\* It is a sequence of numbers.
LEMMA LineType ==
  ASSUME NEW S \in SUBSET All, Filled(S), NEW d \in [All -> Int]
  PROVE  Line(S, d) \in Seq(Int) /\ Len(Line(S, d)) = Cardinality(S)
  <1>1. \A i \in S : i \in Int /\ d[i] \in Int
    BY PipeAssumption DEF All
  <1>2. \A k \in 1..Cardinality(S) : Line(S, d)[k] \in Int
    BY <1>1, LineAt
  <1>3. Line(S, d) = [k \in 1..Cardinality(S) |-> Line(S, d)[k]] /\ Cardinality(S) \in Nat
    BY Finite DEF Line
  <1>4. Line(S, d) \in [1..Cardinality(S) -> Int]
    BY <1>2, <1>3
  <1> QED  BY <1>3, <1>4

\* Data d in the stages S become data e in the stages T when stage i sends.
Sends(S, T, d, e, i) ==
  /\ S \in SUBSET All /\ Filled(S) /\ d \in [All -> Int]
  /\ i \in S /\ i + 1 \in All /\ i + 1 \notin S
  /\ T = (S \ {i}) \cup {i + 1}
  /\ e[i + 1] = d[i] + 1 /\ \A j \in S \ {i} : e[j] = d[j]

\* Moving a datum on changes nothing of the line: the stage adds one.
LEMMA MovedLine ==
  ASSUME NEW S, NEW T, NEW d, NEW e, NEW i, Sends(S, T, d, e, i)
  PROVE  Filled(T) /\ Line(T, e) = Line(S, d)
  <1> USE DEF Sends
  <1>0. T \in SUBSET All
    OBVIOUS
  <1>1. /\ Cardinality(T) = Cardinality(S)
        /\ Place(T, i + 1) = Place(S, i)
        /\ \A j \in S \ {i} : Place(T, j) = Place(S, j)
    BY <1>0, Moved
  <1>2. /\ i \in Int /\ d[i] \in Int /\ e[i + 1] = d[i] + 1
        /\ \A j \in S \ {i} : e[j] = d[j]
    BY PipeAssumption DEF All
  <1>3. ASSUME NEW k \in 1..Cardinality(S)
        PROVE  /\ \E j \in T : Place(T, j) = k
               /\ e[Kth(T, k)] - Kth(T, k) = d[Kth(S, k)] - Kth(S, k)
    <2>1. PICK j \in S : Place(S, j) = k /\ Kth(S, k) = j
      BY LineAt
    <2>2. CASE j = i
      <3>1. i + 1 \in T /\ Place(T, i + 1) = k
        BY <1>1, <2>1, <2>2
      <3>2. Kth(T, k) = i + 1
        BY <1>0, <3>1, KthIs
      <3>3. e[i + 1] - (i + 1) = d[i] - i
        BY <1>2
      <3> QED  BY <3>1, <3>2, <3>3, <2>1, <2>2
    <2>3. CASE j # i
      <3>1. j \in T /\ Place(T, j) = k
        BY <1>1, <2>1, <2>3
      <3>2. Kth(T, k) = j
        BY <1>0, <3>1, KthIs
      <3> QED  BY <3>1, <3>2, <2>1, <2>3, <1>2
    <2> QED  BY <2>2, <2>3
  <1>4. Filled(T)
    BY <1>1, <1>3 DEF Filled
  <1>5. Line(T, e) = Line(S, d)
    BY <1>1, <1>3 DEF Line
  <1> QED  BY <1>4, <1>5

\* A value put into stage 0 joins the line at its end.
LEMMA EnteredLine ==
  ASSUME NEW S \in SUBSET All, 0 \notin S, NEW T, T = S \cup {0}, Filled(S),
         NEW d \in [All -> Int], NEW v \in Int, NEW e, e = [d EXCEPT ![0] = v]
  PROVE  Filled(T) /\ Line(T, e) = Append(Line(S, d), v)
  <1> DEFINE n == Cardinality(S)
  <1>1. /\ Cardinality(T) = n + 1
        /\ Place(T, 0) = n + 1
        /\ \A j \in S : Place(T, j) = Place(S, j)
        /\ n \in Nat /\ T \subseteq All
    BY Entered, Finite, Numbers
  <1>2. e[0] = v /\ \A j \in S : e[j] = d[j]
    BY Numbers
  <1> HIDE DEF n
  <1>3. ASSUME NEW k \in 1..n
        PROVE  /\ \E j \in T : Place(T, j) = k
               /\ e[Kth(T, k)] - Kth(T, k) = Line(S, d)[k]
    <2>1. PICK j \in S : Place(S, j) = k /\ Line(S, d)[k] = d[j] - j
      BY LineAt DEF n
    <2>2. j \in T /\ Place(T, j) = k
      BY <1>1, <2>1
    <2>3. Kth(T, k) = j
      BY <2>2, <1>1, KthIs
    <2> QED  BY <2>1, <2>2, <2>3, <1>2
  <1>4. 0 \in T /\ Kth(T, n + 1) = 0
    BY <1>1, KthIs
  <1>5. \A k \in 1..n + 1 : k \in 1..n \/ k = n + 1
    BY <1>1
  <1>6. Filled(T)
    BY <1>1, <1>3, <1>4, <1>5 DEF Filled
  <1>7. Line(T, e) = Append(Line(S, d), v)
    <2>1. Line(S, d) \in Seq(Int) /\ Len(Line(S, d)) = n
      BY LineType DEF n
    <2> DEFINE A == Append(Line(S, d), v)
               B == Line(T, e)
    <2>2. A \in Seq(Int) /\ Len(A) = n + 1 /\ A[n + 1] = v /\ \A k \in 1..n : A[k] = Line(S, d)[k]
      BY <2>1, <1>1, AppendProperties
    <2>3. B \in Seq(Int) /\ Len(B) = n + 1
      <3>1. e \in [All -> Int]
        BY Numbers
      <3> QED  BY <3>1, <1>1, <1>6, LineType
    <2>4. \A k \in 1..n + 1 : B[k] = e[Kth(T, k)] - Kth(T, k)
      BY <1>1 DEF Line
    <2>5. n + 1 \in 1..n + 1 /\ e[0] - 0 = v
      BY <1>1, <1>2
    <2>6. \A k \in 1..n + 1 : B[k] = A[k]
      BY <1>3, <1>4, <1>5, <2>2, <2>4, <2>5
    <2> HIDE DEF A, B
    <2>7. A = B
      BY <2>2, <2>3, <2>6, SeqEqual
    <2> QED  BY <2>7 DEF A, B
  <1> QED  BY <1>6, <1>7

\* Taking the datum of the last stage takes the head of the line.
LEMMA LeftLine ==
  ASSUME NEW S \in SUBSET All, stages \in S, NEW T, T = S \ {stages}, Filled(S),
         NEW d \in [All -> Int]
  PROVE  /\ Filled(T)
         /\ Line(S, d) # << >>
         /\ Head(Line(S, d)) = d[stages] - stages
         /\ Line(T, d) = Tail(Line(S, d))
  <1> DEFINE n == Cardinality(T)
  <1>0. T \in SUBSET All
    OBVIOUS
  <1>1. /\ Cardinality(S) = n + 1
        /\ Place(S, stages) = 1
        /\ \A j \in T : Place(T, j) = Place(S, j) - 1
        /\ n \in Nat
    <2>1. Cardinality(T) = Cardinality(S) - 1 /\ Cardinality(S) \in Nat /\ Cardinality(T) \in Nat
      BY <1>0, Left, Finite
    <2>2. Place(S, stages) = 1 /\ \A j \in T : Place(T, j) = Place(S, j) - 1
      BY Left, Zenon
    <2>3. Cardinality(S) = Cardinality(T) + 1
      BY ONLY <2>1
    <2> QED  BY <2>1, <2>2, <2>3
  <1> HIDE DEF n
  <1>2. /\ Line(S, d) \in Seq(Int) /\ Len(Line(S, d)) = n + 1
        /\ \A k \in 1..n + 1 : Line(S, d)[k] = d[Kth(S, k)] - Kth(S, k)
    BY <1>1, LineType DEF Line
  <1>3. Kth(S, 1) = stages
    BY <1>1, KthIs
  <1>4. Line(S, d) # << >> /\ Head(Line(S, d)) = d[stages] - stages
    <2>1. 1 \in 1..n + 1 /\ n + 1 # 0
      BY <1>1
    <2> QED  BY <2>1, <1>2, <1>3
  <1>5. ASSUME NEW k \in 1..n
        PROVE  \E j \in T : Place(T, j) = k /\ Kth(T, k) = j /\ Kth(S, k + 1) = j
    <2>1. k + 1 \in 1..Cardinality(S) /\ k \in Int /\ k + 1 # 1
      BY <1>1
    <2>2. PICK j \in S : Place(S, j) = k + 1 /\ Kth(S, k + 1) = j
      BY <2>1, LineAt
    <2>3. j \in T
      BY <2>1, <2>2, <1>1
    <2>4. Place(T, j) = k
      <3>1. Place(T, j) = Place(S, j) - 1
        BY <2>3, <1>1
      <3>2. Place(T, j) = (k + 1) - 1
        BY <3>1, <2>2
      <3> QED  BY <3>2, <2>1
    <2>5. Kth(T, k) = j
      BY <2>3, <2>4, <1>0, KthIs
    <2> QED  BY <2>2, <2>3, <2>4, <2>5
  <1>6. Filled(T)
    BY <1>5 DEF Filled, n
  <1>7. Line(T, d) = Tail(Line(S, d))
    <2> DEFINE A == Tail(Line(S, d))
               B == Line(T, d)
    <2>1. A \in Seq(Int) /\ Len(A) = n /\ \A k \in 1..n : A[k] = Line(S, d)[k + 1]
      BY <1>1, <1>2, <1>4, HeadTailProperties
    <2>2. B \in Seq(Int) /\ Len(B) = n /\ \A k \in 1..n : B[k] = d[Kth(T, k)] - Kth(T, k)
      BY <1>0, <1>6, LineType DEF Line, n
    <2>3. \A k \in 1..n : k + 1 \in 1..n + 1
      BY <1>1
    <2> HIDE DEF A, B
    <2>4. ASSUME NEW k \in 1..n PROVE A[k] = B[k]
      <3>1. PICK j \in T : Kth(T, k) = j /\ Kth(S, k + 1) = j
        BY <1>5
      <3>2. A[k] = Line(S, d)[k + 1] /\ B[k] = d[j] - j
        BY <3>1, <2>1, <2>2
      <3>3. Line(S, d)[k + 1] = d[j] - j
        BY <3>1, <2>3, <1>2
      <3> QED  BY <3>2, <3>3
    <2>5. A = B
      BY <2>1, <2>2, <2>4, SeqEqual
    <2> QED  BY <2>5 DEF A, B
  <1> QED  BY <1>4, <1>6, <1>7

\* The value being put in is one of main's.
Given == main \in {"send", "sendwait"} => value \in Values

\* The inductive invariant of the refinement.
FifoInv == PipeInv /\ Filled(Occupied) /\ Given

\* The refinement mapping in the terms of the lemmas above.
LEMMA Mapped ==
  /\ InPipe = Line(Occupied, data) /\ InPipe' = Line(Occupied', data')
  /\ Filled(Occupied)' <=> Filled(Occupied')
  BY DEF InPipe, Line, Kth, Place, Filled

\* The first state of the pipeline is the empty queue.
LEMMA InitFifo == Init => FifoInv /\ Fifo!AInit
  <1> SUFFICES ASSUME Init PROVE FifoInv /\ Fifo!AInit
    OBVIOUS
  <1>1. Occupied = {}
    BY DEF Occupied, Init
  <1>2. Cardinality(Occupied) = 0
    BY <1>1, FS_EmptySet
  <1>3. 1..0 = {}
    OBVIOUS
  <1>4. Filled(Occupied)
    BY <1>2, <1>3 DEF Filled
  <1>5. InPipe = << >>
    <2>1. data \in [All -> Int] /\ Occupied \in SUBSET All
      BY DEF Init, Occupied
    <2>2. InPipe \in Seq(Int) /\ Len(InPipe) = 0
      BY <2>1, <1>2, <1>4, Mapped, LineType
    <2> QED  BY <2>2
  <1>6. results = << >> /\ Given
    BY DEF Init, Given
  <1> QED  BY <1>4, <1>5, <1>6, InitIInv DEF FifoInv, Fifo!AInit

\* A value main sends is one of Values.
LEMMA NextGiven == Given /\ [Next]_vars => Given'
  <1> SUFFICES ASSUME Given, [Next]_vars PROVE Given'
    OBVIOUS
  <1>1. ASSUME NEW i \in Threads, StageStep(i) \/ SpuriousStage(i) PROVE Given'
    BY <1>1 DEF Given, StageStep, Stage, StageFull, StageSend, SpuriousStage, WokenCollect
  <1>2. CASE MainStep \/ SpuriousMain
    BY <1>2 DEF Given, MainStep, StartFull, StartSend, ResultWait, ResultTake, SpuriousMain
  <1>3. CASE Input
    BY <1>3 DEF Given, Input, ResultEmpty, ResultBegin, Eof, Start, vars
  <1>4. CASE UNCHANGED vars
    BY <1>4 DEF Given, vars
  <1> QED  BY <1>1, <1>2, <1>3, <1>4 DEF Next

\* A stage that sends does nothing to the queue.
LEMMA StageSendFifo ==
  ASSUME FifoInv, NEW i \in Threads, StageSend(i)
  PROVE  Filled(Occupied)' /\ UNCHANGED <<InPipe, results>>
  <1>1. /\ data_ready \in [All -> {0, 1}] /\ data \in [All -> Int] /\ Filled(Occupied)
        /\ i \in All /\ i + 1 \in All /\ i # i + 1
        /\ data_ready[i] = 1 /\ data_ready[i + 1] = 0
        /\ data_ready' = [data_ready EXCEPT ![i + 1] = 1, ![i] = 0]
        /\ data' = [data EXCEPT ![i + 1] = data[i] + 1]
        /\ results' = results
    BY Numbers DEF StageSend, FifoInv, PipeInv, TypeOK, SenderHasData
  <1>2. /\ i \in Occupied /\ i + 1 \notin Occupied
        /\ Occupied' = (Occupied \ {i}) \cup {i + 1}
        /\ Occupied \in SUBSET All /\ Occupied' \in SUBSET All
    <2>1. /\ data_ready'[i] = 0 /\ data_ready'[i + 1] = 1
          /\ \A j \in All \ {i, i + 1} : data_ready'[j] = data_ready[j]
      BY <1>1
    <2> QED  BY <1>1, <2>1 DEF Occupied
  <1>3. Filled(Occupied') /\ Line(Occupied', data') = Line(Occupied, data)
    <2>1. data'[i + 1] = data[i] + 1 /\ \A j \in Occupied \ {i} : data'[j] = data[j]
      BY <1>1, <1>2
    <2>2. Sends(Occupied, Occupied', data, data', i)
      BY <1>1, <1>2, <2>1 DEF Sends
    <2> QED  BY <2>2, MovedLine
  <1> QED  BY <1>1, <1>3, Mapped

\* pipe_start puts its value into the queue, which has room for it.
LEMMA StartSendFifo ==
  ASSUME FifoInv, StartSend
  PROVE  Filled(Occupied)' /\ \E v \in Values : Fifo!Put(v)
  <1>1. /\ data_ready \in [All -> {0, 1}] /\ data \in [All -> Int] /\ Filled(Occupied)
        /\ 0 \in All /\ data_ready[0] = 0
        /\ data_ready' = [data_ready EXCEPT ![0] = 1]
        /\ data' = [data EXCEPT ![0] = value]
        /\ results' = results
        /\ value \in Values /\ value \in Int
    BY Numbers, PipeAssumption DEF StartSend, FifoInv, PipeInv, TypeOK, Given
  <1>2. /\ 0 \notin Occupied
        /\ Occupied' = Occupied \cup {0}
        /\ Occupied \in SUBSET All
    BY <1>1 DEF Occupied
  <1>3. Filled(Occupied') /\ Line(Occupied', data') = Append(Line(Occupied, data), value)
    <2>1. ASSUME NEW T, T = Occupied \cup {0}, NEW e, e = [data EXCEPT ![0] = value]
          PROVE  Filled(T) /\ Line(T, e) = Append(Line(Occupied, data), value)
      BY <1>1, <1>2, <2>1, EnteredLine
    <2> QED  BY <1>1, <1>2, <2>1
  <1>4. Len(InPipe) <= stages
    <2>1. Occupied \in SUBSET (1..stages)
      BY <1>2, PipeAssumption DEF All
    <2>2. IsFiniteSet(1..stages) /\ Cardinality(1..stages) = stages
      BY FS_Interval, PipeAssumption
    <2>3. Cardinality(Occupied) <= stages
      BY <2>1, <2>2, FS_Subset
    <2> QED  BY <2>3, <1>1, <1>2, LineType, Mapped
  <1>5. Fifo!Put(value)
    BY <1>1, <1>3, <1>4, Mapped DEF Fifo!Put
  <1> QED  BY <1>1, <1>3, <1>5, Mapped

\* pipe_result takes the oldest value, to which every stage has added one.
LEMMA ResultTakeFifo ==
  ASSUME FifoInv, ResultTake
  PROVE  Filled(Occupied)' /\ Fifo!Take
  <1>1. /\ data_ready \in [All -> {0, 1}] /\ data \in [All -> Int] /\ Filled(Occupied)
        /\ stages \in All /\ data_ready[stages] # 0
        /\ data_ready' = [data_ready EXCEPT ![stages] = 0]
        /\ data' = data
        /\ results' = Append(results, data[stages])
    BY Numbers DEF ResultTake, FifoInv, PipeInv, TypeOK
  <1>2. /\ stages \in Occupied
        /\ Occupied' = Occupied \ {stages}
        /\ Occupied \in SUBSET All
    BY <1>1 DEF Occupied
  <1>3. /\ Filled(Occupied')
        /\ Line(Occupied, data) # << >>
        /\ Head(Line(Occupied, data)) = data[stages] - stages
        /\ Line(Occupied', data') = Tail(Line(Occupied, data))
    BY <1>1, <1>2, LeftLine
  <1>4. (data[stages] - stages) + stages = data[stages]
    BY <1>1, PipeAssumption
  <1> QED  BY <1>1, <1>3, <1>4, Mapped DEF Fifo!Take

\* Every step of the pipeline is a step of the queue, or none.
LEMMA NextFifo == FifoInv /\ [Next]_vars => FifoInv' /\ [Fifo!ANext]_(Fifo!avars)
  <1> SUFFICES ASSUME FifoInv, [Next]_vars
               PROVE  Filled(Occupied)' /\ [Fifo!ANext]_(Fifo!avars)
    BY NextIInv, NextGiven DEF FifoInv
  <1>1. ASSUME NEW i \in Threads, StageSend(i)
        PROVE  Filled(Occupied)' /\ [Fifo!ANext]_(Fifo!avars)
    BY <1>1, StageSendFifo DEF Fifo!avars
  <1>2. CASE StartSend
    BY <1>2, StartSendFifo DEF Fifo!ANext
  <1>3. CASE ResultTake
    BY <1>3, ResultTakeFifo DEF Fifo!ANext
  <1>4. CASE UNCHANGED <<data_ready, data, results>>
    <2>1. Occupied' = Occupied
      BY <1>4 DEF Occupied
    <2>2. Filled(Occupied)' /\ UNCHANGED InPipe
      BY <1>4, <2>1, Mapped DEF FifoInv
    <2> QED  BY <1>4, <2>2 DEF Fifo!avars
  <1>5. ASSUME NEW i \in Threads, Stage(i) \/ StageFull(i) \/ SpuriousStage(i)
        PROVE  UNCHANGED <<data_ready, data, results>>
    BY <1>5 DEF Stage, StageFull, SpuriousStage
  <1>6. ASSUME SpuriousMain \/ StartFull \/ ResultWait \/ Input \/ UNCHANGED vars
        PROVE  UNCHANGED <<data_ready, data, results>>
    BY <1>6 DEF SpuriousMain, StartFull, ResultWait, Input, ResultEmpty, ResultBegin, Eof, Start, vars
  <1> QED  BY <1>1, <1>2, <1>3, <1>4, <1>5, <1>6 DEF Next, StageStep, MainStep

\* A pipeline of any length implements the first-in first-out queue: however its
\* stages run, wait and wake, main gets back every value it put in, once, in the
\* order it put them in, increased by one per stage.
THEOREM Refinement == Spec => ImplementsFifo
  BY InitFifo, NextFifo, PTL DEF Spec, ImplementsFifo, Fifo!ASpec
=============================================================================
