------------------------------- MODULE Barrier -------------------------------
(***************************************************************************)
(* The barrier of barrier.h, barrier.c and barrier_main.c: barrier_int,    *)
(* barrier_wait and barrier_destroy, called by clients in any order.       *)
(*                                                                         *)
(* barrier->cycle is an unsigned long, the copy barrier_wait keeps of it   *)
(* an int; both keep their width here, as INT_MAX and ULONG_MAX.  The      *)
(* fields are used with barrier->mutex held, so the code between two       *)
(* points where it is given up is one action; the test of barrier->valid   *)
(* comes before the lock and is an action of its own.                      *)
(***************************************************************************)
EXTENDS Integers, FiniteSets

CONSTANTS
  Clients,          \* threads that use the barrier
  threshold,        \* barrier->threshold
  INT_MAX, ULONG_MAX,
  MaxCycles,        \* how many cycles the model follows the barrier for
  MaxWaitFailures   \* how often pthread_cond_wait may return an error

ASSUME BarrierAssumption ==
  /\ IsFiniteSet(Clients)
  /\ threshold \in Nat \ {0}
  /\ INT_MAX \in Nat
  /\ ULONG_MAX \in Nat /\ ULONG_MAX > INT_MAX
  /\ MaxCycles \in Nat
  /\ MaxWaitFailures \in Nat

VARIABLES
  valid, counter, cycle,   \* the fields of barrier_t of the same name
  pc,         \* where a client is in barrier_wait: "out" when in none
  mine,       \* barrier_wait's local copy of the cycle
  status,     \* what a client's last barrier_wait returned
  failures    \* failed waits so far

bvars == <<valid, counter, cycle, pc, mine, status, failures>>

EINVAL == 22
EBUSY == 16
EPERM == 1   \* an error of pthread_cond_wait

\* barrier_int.
Init ==
  /\ valid = TRUE
  /\ counter = threshold
  /\ cycle = 0
  /\ pc = [t \in Clients |-> "out"]
  /\ mine = [t \in Clients |-> 0]
  /\ status = [t \in Clients |-> 0]
  /\ failures = 0

-----------------------------------------------------------------------------
(* The conversions of the cycle.                                           *)

\* unsigned long to int, on assignment: the low bits, read as signed.
AsInt(c) ==
  LET m == c % (2 * (INT_MAX + 1)) IN
  IF m > INT_MAX THEN m - 2 * (INT_MAX + 1) ELSE m

\* int to unsigned long, in the comparison: a negative value wraps.
AsULong(i) == IF i < 0 THEN ULONG_MAX + 1 + i ELSE i

\* barrier->cycle++.
Increment(c) == IF c = ULONG_MAX THEN 0 ELSE c + 1

-----------------------------------------------------------------------------
(* barrier_wait.                                                           *)

\* The test of barrier->valid, before the lock.
Call(t) ==
  /\ pc[t] = "out"
  /\ \/ valid /\ pc' = [pc EXCEPT ![t] = "locking"] /\ UNCHANGED status
     \/ ~valid /\ status' = [status EXCEPT ![t] = EINVAL] /\ UNCHANGED pc
  /\ UNCHANGED <<valid, counter, cycle, mine, failures>>

\* Faulty variant: pthread_cond_signal in place of the broadcast.
SignalOne(p) ==
  LET W == {t \in Clients : p[t] = "waiting"} IN
  IF W = {} THEN p ELSE [p EXCEPT ![CHOOSE t \in W : TRUE] = "woken"]

\* Every waiter becomes runnable.
Broadcast(p) == [t \in Clients |-> IF p[t] = "waiting" THEN "woken" ELSE p[t]]

\* Faulty variant: the client that completes a cycle is counted in the next.
CompleteOffByOne(t) ==
  /\ pc[t] = "locking"
  /\ counter - 1 = 0
  /\ cycle < MaxCycles
  /\ cycle' = Increment(cycle)
  /\ counter' = threshold - 1
  /\ pc' = Broadcast([pc EXCEPT ![t] = "out"])
  /\ mine' = [mine EXCEPT ![t] = AsInt(cycle)]
  /\ status' = [status EXCEPT ![t] = -1]
  /\ UNCHANGED <<valid, failures>>

\* The last client of a cycle starts the next one and wakes the others.
CompleteCycle(t) ==
  /\ pc[t] = "locking"
  /\ counter - 1 = 0
  /\ cycle < MaxCycles
  /\ cycle' = Increment(cycle)
  /\ counter' = threshold
  /\ pc' = Broadcast([pc EXCEPT ![t] = "out"])
  /\ mine' = [mine EXCEPT ![t] = AsInt(cycle)]
  /\ status' = [status EXCEPT ![t] = -1]
  /\ UNCHANGED <<valid, failures>>

\* The test of the waiting loop: wait, again or for the first time, while the
\* cycle is the one remembered; otherwise return 0.
WaitOrLeave(t, c) ==
  \/ /\ AsULong(c) = cycle
     /\ pc' = [pc EXCEPT ![t] = "waiting"]
     /\ UNCHANGED status
  \/ /\ AsULong(c) # cycle
     /\ pc' = [pc EXCEPT ![t] = "out"]
     /\ status' = [status EXCEPT ![t] = 0]

\* A client that is not the last remembers the cycle.
Arrive(t) ==
  /\ pc[t] = "locking"
  /\ counter - 1 # 0
  /\ counter' = counter - 1
  /\ mine' = [mine EXCEPT ![t] = AsInt(cycle)]
  /\ WaitOrLeave(t, AsInt(cycle))
  /\ UNCHANGED <<valid, cycle, failures>>

\* Faulty variant: the cycle is tested once, with if in place of while.
WakeOnce(t) ==
  /\ pc[t] = "woken"
  /\ pc' = [pc EXCEPT ![t] = "out"]
  /\ status' = [status EXCEPT ![t] = 0]
  /\ UNCHANGED <<valid, counter, cycle, mine, failures>>

\* Back from pthread_cond_wait.
Wake(t) ==
  /\ pc[t] = "woken"
  /\ WaitOrLeave(t, mine[t])
  /\ UNCHANGED <<valid, counter, cycle, mine, failures>>

\* POSIX lets a wait return without a signal.
SpuriousWakeup(t) ==
  /\ pc[t] = "waiting"
  /\ pc' = [pc EXCEPT ![t] = "woken"]
  /\ UNCHANGED <<valid, counter, cycle, mine, status, failures>>

\* pthread_cond_wait fails: the client leaves with the error; it stays counted
\* as arrived.
WaitFailed(t) ==
  /\ pc[t] = "waiting"
  /\ failures < MaxWaitFailures
  /\ failures' = failures + 1
  /\ pc' = [pc EXCEPT ![t] = "out"]
  /\ status' = [status EXCEPT ![t] = EPERM]
  /\ UNCHANGED <<valid, counter, cycle, mine>>

-----------------------------------------------------------------------------
(* barrier_destroy, which returns d.                                       *)

Destroy(d) ==
  /\ \/ ~valid /\ d = EINVAL /\ UNCHANGED valid
     \/ valid /\ counter # threshold /\ d = EBUSY /\ UNCHANGED valid
     \/ valid /\ counter = threshold /\ d = 0 /\ valid' = FALSE
  /\ UNCHANGED <<counter, cycle, pc, mine, status, failures>>

-----------------------------------------------------------------------------
InWait(t) == CompleteCycle(t) \/ Arrive(t) \/ Wake(t)

Step(t) == Call(t) \/ InWait(t) \/ SpuriousWakeup(t) \/ WaitFailed(t)

\* Clients call as they like, and some thread may destroy the barrier at any
\* time.  A call that comes after that is refused; what a client still inside
\* would do with the destroyed mutex is undefined, and the model does not
\* follow it.
Next ==
  \/ valid /\ \E t \in Clients : Step(t)
  \/ ~valid /\ \E t \in Clients : Call(t)
  \/ \E d \in {0, EINVAL, EBUSY} : Destroy(d)

Spec == Init /\ [][Next]_bvars

\* A client in barrier_wait that can run is scheduled and gets the mutex;
\* nothing makes a client call.
FairSpec == Spec /\ \A t \in Clients : WF_bvars(valid /\ InWait(t))

-----------------------------------------------------------------------------
(* Properties.                                                             *)

\* Type invariant of barrier_t and of barrier_wait's locals.
TypeOK ==
  /\ valid \in BOOLEAN
  /\ counter \in 1..threshold
  /\ cycle \in 0..ULONG_MAX
  /\ pc \in [Clients -> {"out", "locking", "waiting", "woken"}]
  /\ mine \in [Clients -> -(INT_MAX + 1)..INT_MAX]
  /\ status \in [Clients -> {-1, 0, EPERM, EINVAL}]
  /\ failures \in 0..MaxWaitFailures

Inside(t) == pc[t] \in {"waiting", "woken"}
Gathered == {t \in Clients : Inside(t) /\ mine[t] = cycle}
Released == {t \in Clients : Inside(t) /\ mine[t] # cycle}

Abstract == INSTANCE AbstractBarrier
            WITH gathered <- Gathered, released <- Released, result <- status

\* Until a wait fails or the barrier is destroyed it implements the abstract
\* one: groups of exactly threshold callers, nobody returns before its group
\* is complete, one -1 per group.
Implements ==
  /\ Abstract!AInit
  /\ [][valid' /\ failures' = 0 => Abstract!ANext]_(Abstract!avars)

\* Every caller of a complete group returns from barrier_wait, unless the
\* barrier is destroyed under it.
ReleasedReturn == \A t \in Clients : t \in Released ~> pc[t] = "out" \/ ~valid

\* No lost wakeup: a client asleep on barrier->cv belongs to the cycle that is
\* still open; nobody of a finished cycle is left asleep.
ReleasedAwake == \A t \in Clients : pc[t] = "waiting" => t \in Gathered

\* The counter says how many clients of the open cycle are missing; a client
\* whose wait failed stays counted, so after that it may be lower, and never
\* hides a client that waits.
CounterMatches ==
  /\ Cardinality(Gathered) <= threshold - counter
  /\ failures = 0 => Cardinality(Gathered) = threshold - counter

\* The state of the barrier at any moment.
BarrierInv == TypeOK /\ ReleasedAwake /\ CounterMatches

\* barrier_destroy succeeds only when nobody waits in an open cycle, whatever
\* waits have failed before.
DestroyRefusesGathered == [][valid /\ ~valid' => Gathered = {}]_bvars
=============================================================================
