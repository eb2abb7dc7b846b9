----------------------------- MODULE BarrierMain -----------------------------
(***************************************************************************)
(* The program of barrier_main.c: THREADS threads work on arrays of their  *)
(* own in rounds kept apart by the barrier; the thread that completes the  *)
(* second barrier of a round changes the increments of all of them.        *)
(* Threads are the numbers 0..threshold-1.                                 *)
(***************************************************************************)
EXTENDS Barrier

CONSTANTS ARRAY, INLOOPS, OUTLOOPS

\* One thread for each place of the barrier, numbered as in thread[].
ThreadNumbers == Clients = 0..threshold - 1

ASSUME MainAssumption ==
  /\ ARRAY \in Nat \ {0} /\ INLOOPS \in Nat \ {0} /\ OUTLOOPS \in Nat

VARIABLES
  at,          \* where each thread is in thread_routine
  out_loop,    \* the local of thread_routine
  step,        \* steps made of the loop a thread is in
  increment,   \* thread[].increment
  arrays,      \* thread[].arrays
  main,        \* where main is
  n,           \* main's thread_count
  printed,     \* the arrays main has printed
  destroyed    \* what barrier_destroy returned to main

data == <<increment, arrays>>
mvars == <<main, n, printed, destroyed>>
tvars == <<at, out_loop, step>>
vars == <<bvars, data, mvars, tvars>>

Elements == 0..ARRAY - 1

MInit ==
  /\ Init
  /\ at = [t \in Clients |-> "unborn"]
  /\ out_loop = [t \in Clients |-> 0]
  /\ step = [t \in Clients |-> 0]
  /\ increment = [t \in Clients |-> 0]
  /\ arrays = [t \in Clients |-> [k \in Elements |-> 0]]
  /\ main = "create" /\ n = 0
  /\ printed = [t \in Clients |-> <<>>]
  /\ destroyed = -1

Running == main \notin {"exit", "abort"}

-----------------------------------------------------------------------------
(* thread_routine.                                                         *)

\* A barrier_wait is called; then the library's steps run on behalf of t.
Enter(t) ==
  /\ Running
  /\ \/ at[t] = "first" /\ at' = [at EXCEPT ![t] = "adding"]
     \/ at[t] = "second" /\ at' = [at EXCEPT ![t] = "deciding"]
  /\ Call(t)
  /\ UNCHANGED <<out_loop, step, data, mvars>>

InBarrier(t) ==
  /\ Running
  /\ InWait(t)
  /\ UNCHANGED <<tvars, data, mvars>>

Disturb(t) ==
  /\ Running
  /\ SpuriousWakeup(t) \/ WaitFailed(t)
  /\ UNCHANGED <<tvars, data, mvars>>

\* One step of the two inner loops, after the first barrier_wait (whose
\* status is not looked at): one element grows by the increment read then.
Adding(t) == at[t] = "adding" /\ pc[t] = "out"

Add(t) ==
  /\ Running
  /\ Adding(t)
  /\ arrays' = [arrays EXCEPT ![t][step[t] % ARRAY] = @ + increment[t]]
  /\ LET last == step[t] + 1 = INLOOPS * ARRAY IN
       /\ step' = [step EXCEPT ![t] = IF last THEN 0 ELSE @ + 1]
       /\ at' = [at EXCEPT ![t] = IF last THEN "second" ELSE @]
  /\ UNCHANGED <<bvars, out_loop, increment, mvars>>

\* The end of a round.
NextRound(t) ==
  /\ out_loop' = [out_loop EXCEPT ![t] = @ + 1]
  /\ at' = [at EXCEPT ![t] = IF out_loop[t] + 1 <= OUTLOOPS THEN "first" ELSE "done"]

\* Faulty variant: every thread that returns from the second barrier_wait
\* goes on to change the increments.
DecideAll(t) ==
  /\ Running
  /\ at[t] = "deciding" /\ pc[t] = "out"
  /\ at' = [at EXCEPT ![t] = "updating"]
  /\ UNCHANGED <<out_loop, main>>
  /\ UNCHANGED <<bvars, step, data, n, printed, destroyed>>

\* After the second barrier_wait: an error aborts the process, -1 chooses
\* the thread that changes the increments.
Decide(t) ==
  /\ Running
  /\ at[t] = "deciding" /\ pc[t] = "out"
  /\ \/ /\ status[t] > 0
        /\ main' = "abort"
        /\ UNCHANGED <<at, out_loop>>
     \/ /\ status[t] = -1
        /\ at' = [at EXCEPT ![t] = "updating"]
        /\ UNCHANGED <<out_loop, main>>
     \/ /\ status[t] = 0
        /\ NextRound(t)
        /\ UNCHANGED main
  /\ UNCHANGED <<bvars, step, data, n, printed, destroyed>>

\* The chosen thread changes one thread's increment.
Update(t) ==
  /\ Running
  /\ at[t] = "updating"
  /\ increment' = [increment EXCEPT ![step[t]] = @ + 1]
  /\ IF step[t] + 1 = threshold
       THEN step' = [step EXCEPT ![t] = 0] /\ NextRound(t)
       ELSE step' = [step EXCEPT ![t] = @ + 1] /\ UNCHANGED <<at, out_loop>>
  /\ UNCHANGED <<bvars, arrays, mvars>>

-----------------------------------------------------------------------------
(* main.                                                                   *)

\* Faulty variant: the thread is started before its data are set.
CreateFirst ==
  /\ main = "create"
  /\ \/ /\ at[n] = "unborn"
        /\ at' = [at EXCEPT ![n] = "first"]
        /\ UNCHANGED <<n, main, data>>
     \/ /\ at[n] # "unborn"
        /\ increment' = [increment EXCEPT ![n] = n]
        /\ arrays' = [arrays EXCEPT ![n] = [k \in Elements |-> k + 1]]
        /\ IF n + 1 = threshold THEN main' = "join" /\ n' = 0
                                ELSE n' = n + 1 /\ UNCHANGED main
        /\ UNCHANGED at
  /\ UNCHANGED <<bvars, out_loop, step, printed, destroyed>>

\* A thread's data are set, then it is started.
Create ==
  /\ main = "create"
  /\ increment' = [increment EXCEPT ![n] = n]
  /\ arrays' = [arrays EXCEPT ![n] = [k \in Elements |-> k + 1]]
  /\ at' = [at EXCEPT ![n] = "first"]
  /\ IF n + 1 = threshold THEN main' = "join" /\ n' = 0
                          ELSE n' = n + 1 /\ UNCHANGED main
  /\ UNCHANGED <<bvars, out_loop, step, printed, destroyed>>

\* A thread is joined and its array printed.
Join ==
  /\ main = "join"
  /\ at[n] = "done"
  /\ printed' = [printed EXCEPT ![n] = arrays[n]]
  /\ IF n + 1 = threshold THEN main' = "destroy" /\ n' = 0
                          ELSE n' = n + 1 /\ UNCHANGED main
  /\ UNCHANGED <<bvars, data, tvars, destroyed>>

Finish ==
  /\ main = "destroy"
  /\ \E d \in {0, EINVAL, EBUSY} : Destroy(d) /\ destroyed' = d
  /\ main' = "exit"
  /\ UNCHANGED <<data, tvars, n, printed>>

-----------------------------------------------------------------------------
ThreadStep(t) == Enter(t) \/ InBarrier(t) \/ Add(t) \/ Decide(t) \/ Update(t)

MainStep == Create \/ Join \/ Finish

MNext == MainStep \/ \E t \in Clients : ThreadStep(t) \/ Disturb(t)

MSpec == MInit /\ [][MNext]_vars

\* Every thread that can run is scheduled and gets the mutex it asks for.
MFairSpec ==
  /\ MSpec
  /\ WF_vars(MainStep)
  /\ \A t \in Clients : WF_vars(ThreadStep(t))

-----------------------------------------------------------------------------
(* Properties.  Those that a failed wait breaks hold until one fails.      *)

\* Type invariant of the program's own state.
MTypeOK ==
  /\ TypeOK
  /\ at \in [Clients -> {"unborn", "first", "adding", "second", "deciding", "updating", "done"}]
  /\ out_loop \in [Clients -> 0..OUTLOOPS + 1]
  /\ step \in [Clients -> Nat]
  /\ increment \in [Clients -> Nat]
  /\ arrays \in [Clients -> [Elements -> Nat]]
  /\ main \in {"create", "join", "destroy", "exit", "abort"} /\ n \in Clients
  /\ printed \in [Clients -> {<<>>} \cup [Elements -> Nat]]
  /\ destroyed \in {-1, 0, EINVAL, EBUSY}

\* The barriers keep the increments from being changed while anybody uses
\* them: the chosen thread is alone, nobody else adds or changes.
UpdaterAlone ==
  \A t, u \in Clients :
    failures = 0 /\ at[t] = "updating" /\ u # t => ~Adding(u) /\ at[u] # "updating"

\* The state of the program at any moment: well typed, the updater alone.
ProgramInv == MTypeOK /\ UpdaterAlone

\* The calls of barrier_wait a thread has made and had counted.
Arrivals(t) ==
  2 * out_loop[t]
  + (CASE at[t] \in {"adding", "second"} -> 1
       [] at[t] \in {"deciding", "updating"} -> 2
       [] OTHER -> 0)
  - (IF pc[t] = "locking" THEN 1 ELSE 0)

\* All of them, as pairs of a thread and the number of its call.
Calls == {call \in Clients \X (1..2 * (OUTLOOPS + 1)) : call[2] <= Arrivals(call[1])}

\* Even when waits fail and threads leave the barrier early, every call is
\* counted once: the finished cycles and the open one add up to the calls.
ArrivalsCounted == cycle * threshold + (threshold - counter) = Cardinality(Calls)

\* The updater is alone, and the barrier's count agrees with where the threads
\* are, at any moment.
RoundsKept == ProgramInv /\ ArrivalsCounted

\* The increments thread t has added to an element after r rounds: t, t + 1, ...
Expected(t, k, r) == k + 1 + INLOOPS * (r * t + (r * (r - 1)) \div 2)

\* Every round adds the same to all elements of an array, the increment of
\* that round, whatever the threads' relative speed: outside the adding loop
\* an array holds exactly what its finished rounds have added.
ArraysInStep ==
  \A t \in Clients :
    LET r == out_loop[t] + IF at[t] \in {"second", "deciding", "updating"} THEN 1 ELSE 0 IN
    failures = 0 /\ at[t] # "unborn" /\ ~Adding(t) => \A k \in Elements : arrays[t][k] = Expected(t, k, r)

\* When main destroys the barrier it is not busy, and each round has changed
\* every increment once.
CleanExit ==
  failures = 0 /\ main = "exit" =>
    /\ destroyed = 0
    /\ \A t \in Clients : increment[t] = t + OUTLOOPS + 1
    /\ \A t \in Clients, k \in Elements : printed[t][k] = Expected(t, k, OUTLOOPS + 1)

\* What the program computes, at every point and at its end, does not depend on
\* the threads' relative speed.
ResultsExact == ArraysInStep /\ CleanExit

\* The program ends: no thread is left waiting in the barrier.
Terminates == <>(main = "exit" \/ failures > 0)
=============================================================================
