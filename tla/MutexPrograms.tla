---------------------------- MODULE MutexPrograms ----------------------------
(***************************************************************************)
(* Programs that share a result: trylock.c (a thread that counts in long   *)
(* rounds and a monitor that looks in between), mutex-1.c (a dot product   *)
(* in slices) and accumulate.cpp (parallel_accumulate).                    *)
(***************************************************************************)
EXTENDS Pthreads

CONSTANTS
  SPIN,         \* increments in a round of trylock.c (210000000)
  Rounds,       \* bound: rounds within the minute trylock.c runs
  MaxMisses,    \* bound: looks of the monitor that fail
  NUMTHRDS,     \* threads of mutex-1.c (4)
  VECLEN,       \* elements of each thread of mutex-1.c (100000)
  MinPerThread, \* min_per_thread of accumulate.cpp (50)
  MaxLength     \* bound: elements accumulated

ASSUME MutexAssumption ==
  /\ SPIN \in Nat \ {0} /\ Rounds \in Nat /\ MaxMisses \in Nat
  /\ NUMTHRDS \in 1..LastThread /\ VECLEN \in Nat
  /\ MinPerThread \in Nat \ {0} /\ MaxLength \in Nat

-----------------------------------------------------------------------------
(* trylock.c.  The minute may be over at any test of the time.             *)

Counter == 1
Monitor == 2

TrylockInit ==
  Start("trylock", [counter |-> 0, spin |-> 0, misses |-> 0, seen |-> 0, over |-> FALSE])

\* A thread that cannot be created is joined all the same, in the order of the
\* joins: its identifier was never set, so the call fails, and main goes on, or
\* it ends the process.
TrylockMain ==
  /\ UNCHANGED g /\ NoSync
  /\ \/ /\ At(Main, "start")
        /\ \E created \in SUBSET {Counter, Monitor} :
             pc' = [t \in Threads |-> IF t = Main THEN "join" ELSE IF t \in created THEN "begin" ELSE pc[t]]
     \/ /\ At(Main, "join") /\ \A t \in {Counter, Monitor} : Ended(t) \/ At(t, "none")
        /\ Goto(Main, "exit")
     \/ /\ At(Main, "join")
        /\ At(Counter, "none") \/ (Ended(Counter) /\ At(Monitor, "none"))
        /\ Goto(Main, "fault")

\* time(NULL) reaches end_time.
Minute ==
  /\ Running("trylock") /\ ~ g.over
  /\ g' = [g EXCEPT !.over = TRUE]
  /\ UNCHANGED <<program, pc>> /\ NoSync

counter_thread ==
  \/ g.over /\ Local(Counter, "begin", "done") /\ UNCHANGED g
  \/ ~ g.over /\ g.counter < Rounds * SPIN /\ Local(Counter, "begin", "lock") /\ UNCHANGED g
  \/ Lock(Counter, "lock", "spin") /\ g' = [g EXCEPT !.spin = 0]
  \/ /\ g.spin < SPIN /\ Local(Counter, "spin", "spin")
     /\ g' = [g EXCEPT !.spin = @ + 1, !.counter = @ + 1]
  \/ g.spin = SPIN /\ Unlock(Counter, "spin", "begin") /\ UNCHANGED g

\* pthread_mutex_trylock, and what follows either answer.
monitor_thread ==
  \/ g.over /\ Local(Monitor, "begin", "done") /\ UNCHANGED g
  \/ ~ g.over /\ Local(Monitor, "begin", "try") /\ UNCHANGED g
  \/ Lock(Monitor, "try", "look") /\ UNCHANGED g
  \/ /\ mutex # None /\ g.misses < MaxMisses
     /\ Local(Monitor, "try", "begin") /\ g' = [g EXCEPT !.misses = @ + 1]
  \/ Unlock(Monitor, "look", "begin") /\ g' = [g EXCEPT !.seen = g.counter]

TrylockStep(t) ==
  /\ Running("trylock") /\ UNCHANGED program
  /\ \/ t = Main /\ TrylockMain
     \/ t = Counter /\ counter_thread
     \/ t = Monitor /\ monitor_thread

\* The monitor never sees a round half done, however its looks fall between
\* the increments.
WholeRounds == program = "trylock" => g.seen % SPIN = 0

-----------------------------------------------------------------------------
(* mutex-1.c.  All elements are 1, so a slice of VECLEN elements adds      *)
(* VECLEN to the sum.  read[t] is what thread t has loaded of the sum.     *)

DotThreads == 1..NUMTHRDS

DotInit == Start("dotprod", [created |-> 0, sum |-> 0, read |-> [t \in DotThreads |-> 0]])

DotMain ==
  \/ /\ g.created < NUMTHRDS
     /\ Create(Main, g.created + 1, "start", "start") /\ NoSync
     /\ g' = [g EXCEPT !.created = @ + 1]
  \/ /\ g.created = NUMTHRDS /\ (\A t \in DotThreads : Ended(t))
     /\ Local(Main, "start", "exit") /\ UNCHANGED g

\* Faulty variant: the sum is read before the mutex is locked.
DotReadsEarly(t) ==
  \/ Local(t, "begin", "lock") /\ g' = [g EXCEPT !.read[t] = g.sum]
  \/ Lock(t, "lock", "add") /\ UNCHANGED g
  \/ Unlock(t, "add", "done") /\ g' = [g EXCEPT !.sum = g.read[t] + VECLEN]

\* The slice is summed, and the sum updated under the mutex.
dotprod(t) ==
  \/ Local(t, "begin", "lock") /\ UNCHANGED g
  \/ Lock(t, "lock", "add") /\ g' = [g EXCEPT !.read[t] = g.sum]
  \/ Unlock(t, "add", "done") /\ g' = [g EXCEPT !.sum = g.read[t] + VECLEN]

DotStep(t) ==
  /\ Running("dotprod") /\ UNCHANGED program
  /\ (t = Main /\ DotMain) \/ (t \in DotThreads /\ dotprod(t))

\* Every slice is in the sum exactly once as soon as its thread has ended.
SumExact ==
  program = "dotprod" =>
    g.sum = VECLEN * Cardinality({t \in DotThreads : Ended(t)})

-----------------------------------------------------------------------------
(* accumulate.cpp.  A sum is kept as the sequence of what was added up, so *)
(* that nothing is assumed of the type's addition.                         *)

AccumulateInit ==
  \E n \in 0..MaxLength, h \in 0..LastThread :
    Start("accumulate", [length |-> n, hardware |-> h, i |-> 0, results |-> <<>>, sum |-> <<>>])

\* num_threads and block_size.
NumThreads ==
  LET most == (g.length + MinPerThread - 1) \div MinPerThread
      hardware == IF g.hardware # 0 THEN g.hardware ELSE 2
  IN  IF hardware <= most THEN hardware ELSE most

\* The elements of block i, the last one taking what is left.
Block(i) ==
  LET size == g.length \div NumThreads
      first == (i - 1) * size
      last == IF i = NumThreads THEN g.length ELSE i * size
  IN  [k \in 1 .. last - first |-> first + k]

AccumulateBlock(i) == [g EXCEPT !.results[i] = @ \o Block(i)]

\* parallel_accumulate in the calling thread.
AccumulateMain ==
  \/ g.length = 0 /\ Local(Main, "start", "exit") /\ UNCHANGED g
  \/ /\ g.length # 0 /\ Local(Main, "start", "launch")
     /\ g' = [g EXCEPT !.results = [i \in 1..NumThreads |-> <<>>]]
  \/ /\ g.i < NumThreads - 1
     /\ Create(Main, g.i + 1, "launch", "launch") /\ NoSync
     /\ g' = [g EXCEPT !.i = @ + 1]
  \/ g.i = NumThreads - 1 /\ Local(Main, "launch", "join") /\ g' = AccumulateBlock(NumThreads)
  \/ /\ (\A t \in 1 .. NumThreads - 1 : Ended(t)) /\ Local(Main, "join", "exit")
     /\ LET Add[k \in 0..NumThreads] == IF k = 0 THEN <<>> ELSE Add[k - 1] \o g.results[k]
        IN  g' = [g EXCEPT !.sum = Add[NumThreads]]

AccumulateStep(t) ==
  /\ Running("accumulate") /\ UNCHANGED program
  /\ \/ t = Main /\ AccumulateMain
     \/ t # Main /\ Local(t, "begin", "done") /\ g' = AccumulateBlock(t)

\* Whatever the length and the number of processors, the blocks cover the range:
\* each element is added once, in its place.
EachElementOnce ==
  program = "accumulate" /\ At(Main, "exit") => g.sum = [k \in 1..g.length |-> k]

\* The programs with a shared result.
SharedResults == WholeRounds /\ SumExact /\ EachElementOnce

\* They all end, trylock.c with a fault only when a thread of its is missing.
ResultsEnd ==
  /\ program \in {"dotprod", "accumulate"} ~> At(Main, "exit")
  /\ program = "trylock" ~>
       At(Main, "exit") \/ (At(Main, "fault") /\ \E t \in {Counter, Monitor} : At(t, "none"))
=============================================================================
