------------------------------ MODULE Pthreads ------------------------------
(***************************************************************************)
(* What the small thread programs use of the pthreads library.  One of     *)
(* them runs at a time; it has at most one mutex and one condition         *)
(* variable, and its own variables are the fields of the record g.         *)
(*                                                                         *)
(* Thread 0 is the one that runs main.  A thread that does not exist has   *)
(* pc "none", one that has ended "done" or "cancelled".  When main returns *)
(* the process is over, whatever the others do (pc "exit"); when a call    *)
(* is given an identifier that was never set, or aborts, it is "fault".    *)
(***************************************************************************)
EXTENDS Integers, Sequences, FiniteSets

CONSTANTS
  LastThread,   \* threads are 0 .. LastThread
  None          \* no thread

ASSUME PthreadsAssumption ==
  /\ LastThread \in Nat
  /\ None \notin 0..LastThread

VARIABLES
  program,   \* which program runs
  pc,        \* pc[t]: where thread t is
  mutex,     \* the thread that has locked the mutex, or None
  waiters,   \* the threads blocked on the condition variable
  pending,   \* the threads with a cancellation request they have not acted on
  g          \* the program's own variables

vars == <<program, pc, mutex, waiters, pending, g>>

Threads == 0..LastThread
Main == 0

\* The program named p with variables v starts: main is at "start", alone.
Start(p, v) ==
  /\ program = p
  /\ pc = [t \in Threads |-> IF t = Main THEN "start" ELSE "none"]
  /\ mutex = None /\ waiters = {} /\ pending = {}
  /\ g = v

Running(p) == program = p /\ pc[Main] \notin {"exit", "fault"}

At(t, l) == pc[t] = l
Goto(t, l) == pc' = [pc EXCEPT ![t] = l]

\* pthread_create: thread t goes from l to m and thread c begins.
Create(t, c, l, m) == At(t, l) /\ pc' = [pc EXCEPT ![t] = m, ![c] = "begin"]

Ended(t) == pc[t] \in {"done", "cancelled"}

\* The synchronisation objects a step leaves alone.
NoSync == UNCHANGED <<mutex, waiters, pending>>

\* Thread t computes: neither it nor anyone else is synchronised.
Local(t, l, m) == At(t, l) /\ Goto(t, m) /\ NoSync

Lock(t, l, m) ==
  /\ At(t, l) /\ mutex = None
  /\ Goto(t, m)
  /\ mutex' = t /\ UNCHANGED <<waiters, pending>>

\* The default mutex does not look who unlocks it.
Unlock(t, l, m) ==
  /\ At(t, l)
  /\ Goto(t, m)
  /\ mutex' = None /\ UNCHANGED <<waiters, pending>>

\* pthread_cond_signal, to whichever waiter there is.
Signal ==
  IF waiters = {} THEN UNCHANGED waiters ELSE \E w \in waiters : waiters' = waiters \ {w}

\* A wait returns although nobody has signalled, which Qt's does not.
Spurious ==
  /\ program # "qt"
  /\ \E w \in waiters : waiters' = waiters \ {w}
  /\ UNCHANGED <<program, pc, mutex, pending, g>>

\* pthread_cancel of c by t: a request, which c acts on at its own time.
Cancel(t, c, l, m) ==
  /\ At(t, l)
  /\ Goto(t, m)
  /\ pending' = IF Ended(c) THEN pending ELSE pending \cup {c}
  /\ UNCHANGED <<mutex, waiters>>

\* pthread_join returns.
Join(t, c, l, m) == Ended(c) /\ Local(t, l, m)

\* Type invariant of the library's state: a thread waits or is to be cancelled
\* only while it runs.
PthreadsOK ==
  /\ mutex \in Threads \cup {None}
  /\ waiters \subseteq {t \in Threads : At(t, "wait")}
  /\ pending \subseteq {t \in Threads : ~ Ended(t)}
=============================================================================
