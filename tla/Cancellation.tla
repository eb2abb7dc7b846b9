---------------------------- MODULE Cancellation ----------------------------
(***************************************************************************)
(* The cancellation programs: cancel.c (a thread that tests for            *)
(* cancellation every so often), cancel_disable.c (and is not cancellable  *)
(* now and then), cancel_cleanp.c (a cleanup handler around a condition    *)
(* wait) and cancel_subcontract.c (a contractor that cancels its team).    *)
(*                                                                         *)
(* Main's sleep before it cancels gives no order: it may cancel at any     *)
(* moment after the creation.                                              *)
(***************************************************************************)
EXTENDS Pthreads

CONSTANTS
  TestEvery,    \* iterations between two calls of pthread_testcancel (1000)
  SleepEvery,   \* iterations between two sleeps with cancellation disabled (755)
  TeamSize      \* THREADS of cancel_cleanp.c and cancel_subcontract.c

ASSUME CancellationAssumption ==
  /\ TestEvery \in Nat \ {0} /\ SleepEvery \in Nat \ {0}
  /\ TestEvery % SleepEvery # 0
  /\ TeamSize \in 2 .. LastThread - 1

\* Thread t acts on the request that is pending for it.
Act(t, l, m) ==
  /\ At(t, l) /\ t \in pending
  /\ Goto(t, m)
  /\ pending' = pending \ {t}
  /\ UNCHANGED <<mutex, waiters>>

-----------------------------------------------------------------------------
(* cancel.c and cancel_disable.c.  The counter is only divided, so it      *)
(* starts again at TestEvery * SleepEvery.                                 *)

Looper == 1

CancelInit ==
  \E p \in {"cancel", "cancel_disable"} : Start(p, [counter |-> 0, disabled |-> FALSE])

CancelMain ==
  /\ \/ Create(Main, Looper, "start", "asleep") /\ NoSync
     \/ Cancel(Main, Looper, "asleep", "join")
     \/ Join(Main, Looper, "join", "exit")
  /\ UNCHANGED g

Count == [g EXCEPT !.counter = (g.counter + 1) % (TestEvery * SleepEvery)]

\* The iterations that sleep, which come first when both are due.
SleepDue == program = "cancel_disable" /\ g.counter % SleepEvery = 0
TestDue == ~ SleepDue /\ g.counter % TestEvery = 0

\* An iteration without a call.
Iterate == ~ SleepDue /\ ~ TestDue /\ Local(Looper, "begin", "begin") /\ g' = Count

\* pthread_testcancel: the end of the thread, or of the iteration.
TestCancel ==
  /\ TestDue
  /\ \/ Act(Looper, "begin", "cancelled") /\ UNCHANGED g
     \/ Looper \notin pending /\ Local(Looper, "begin", "begin") /\ g' = Count

DisableAndSleep ==
  SleepDue /\ Local(Looper, "begin", "sleep") /\ g' = [g EXCEPT !.disabled = TRUE]

\* sleep is a cancellation point, but for a thread that has disabled it.
Sleep ==
  \/ ~ g.disabled /\ Act(Looper, "sleep", "cancelled") /\ UNCHANGED g
  \/ (g.disabled \/ Looper \notin pending)
     /\ Local(Looper, "sleep", "begin") /\ g' = [Count EXCEPT !.disabled = FALSE]

CancelStep(t) ==
  /\ program \in {"cancel", "cancel_disable"} /\ Running(program) /\ UNCHANGED program
  /\ \/ t = Main /\ CancelMain
     \/ t = Looper /\ (Iterate \/ TestCancel \/ DisableAndSleep \/ Sleep)

\* The thread ends at a call of pthread_testcancel and nowhere else: at a
\* multiple of TestEvery, and in cancel_disable.c not at one of the sleeps,
\* although sleep is a cancellation point too.
CancelledAtTest ==
  program \in {"cancel", "cancel_disable"} /\ At(Looper, "cancelled") => TestDue /\ ~ g.disabled

-----------------------------------------------------------------------------
(* cancel_cleanp.c.  `for (count == 0; ..)' starts with whatever count     *)
(* holds: threads 1 .. TeamSize of the model are entries 0 .. TeamSize-1.  *)

CleanpInit ==
  \E c \in -1 .. TeamSize : Start("cancel_cleanp", [count |-> c, counter |-> 0, busy |-> TRUE])

CleanpMain ==
  \/ /\ At(Main, "start") /\ g.count < 0      \* stores outside thread_id
     /\ Goto(Main, "fault") /\ NoSync /\ UNCHANGED g
  \/ /\ g.count \in 0 .. TeamSize - 1
     /\ Create(Main, g.count + 1, "start", "start") /\ NoSync
     /\ g' = [g EXCEPT !.count = @ + 1]
  \/ /\ g.count = TeamSize
     /\ Local(Main, "start", "cancel") /\ g' = [g EXCEPT !.count = 0]
  \/ /\ At(Main, "cancel") /\ g.count < TeamSize /\ pc[g.count + 1] = "none"
     /\ Goto(Main, "fault") /\ NoSync /\ UNCHANGED g
  \/ /\ g.count < TeamSize /\ pc[g.count + 1] # "none"
     /\ Cancel(Main, g.count + 1, "cancel", "join") /\ UNCHANGED g
  \/ /\ g.count < TeamSize
     /\ Join(Main, g.count + 1, "join", "cancel") /\ g' = [g EXCEPT !.count = @ + 1]
  \/ g.count = TeamSize /\ Local(Main, "cancel", "exit") /\ UNCHANGED g

\* Lock, count, and wait as long as the flag says so, which nothing resets.
CleanpThread(t) ==
  \/ Act(t, "begin", "cancelled") /\ UNCHANGED g      \* in printf
  \/ Local(t, "begin", "lock") /\ UNCHANGED g
  \/ /\ At(t, "lock") /\ mutex = None
     /\ g' = [g EXCEPT !.counter = @ + 1]
     /\ IF g.busy THEN waiters' = waiters \cup {t} /\ mutex' = None /\ Goto(t, "wait")
                  ELSE waiters' = waiters /\ mutex' = t /\ Goto(t, "handler")
     /\ UNCHANGED pending
  \/ /\ At(t, "wait") /\ t \notin waiters /\ t \notin pending /\ mutex = None
     /\ IF g.busy THEN waiters' = waiters \cup {t} /\ UNCHANGED <<pc, mutex>>
                  ELSE waiters' = waiters /\ mutex' = t /\ Goto(t, "handler")
     /\ UNCHANGED <<pending, g>>
  \/ /\ At(t, "wait") /\ t \in pending /\ mutex = None      \* cancelled in the wait
     /\ mutex' = t /\ waiters' = waiters \ {t} /\ pending' = pending \ {t}
     /\ Goto(t, "handler") /\ UNCHANGED g

\* Faulty variant: the handler leaves the mutex locked.
CleanupLocked(t) == Local(t, "handler", "cancelled") /\ g' = [g EXCEPT !.counter = @ - 1]

cleanup_handler(t) == Unlock(t, "handler", "cancelled") /\ g' = [g EXCEPT !.counter = @ - 1]

CleanpStep(t) ==
  /\ Running("cancel_cleanp") /\ UNCHANGED program
  /\ \/ t = Main /\ CleanpMain
     \/ t \in 1..TeamSize /\ (CleanpThread(t) \/ cleanup_handler(t))

\* The counter expresses the number of running threads whichever of them are
\* cancelled and where, and the mutex is never left with a thread that is gone.
CounterCounts ==
  program = "cancel_cleanp" =>
    /\ g.counter = Cardinality({t \in 1..TeamSize : pc[t] \in {"wait", "handler"}})
    /\ mutex # None => At(mutex, "handler")

-----------------------------------------------------------------------------
(* cancel_subcontract.c.  Workers 0 .. TeamSize-1 of the code are threads  *)
(* 1 .. TeamSize.                                                          *)

Contractor == LastThread
Team == 1..TeamSize

SubcontractInit == Start("cancel_subcontract", [count |-> 0, detached |-> {}])

SubcontractMain ==
  /\ \/ Create(Main, Contractor, "start", "asleep") /\ NoSync
     \/ Cancel(Main, Contractor, "asleep", "join")
     \/ Join(Main, Contractor, "join", "done")
  /\ UNCHANGED g

\* The contractor creates its team, which nothing can interrupt, and joins
\* workers[1]: a cancellation point, in which it stays until it is cancelled.
ContractorRoutine ==
  \/ /\ g.count < TeamSize
     /\ Create(Contractor, g.count + 1, "begin", "begin") /\ NoSync
     /\ g' = [g EXCEPT !.count = @ + 1]
  \/ g.count = TeamSize /\ Local(Contractor, "begin", "join") /\ g' = [g EXCEPT !.count = 0]
  \/ Act(Contractor, "join", "cleanup") /\ UNCHANGED g

\* The cleanup handler: cancel and detach each worker.
cleanup ==
  \/ /\ g.count < TeamSize
     /\ Cancel(Contractor, g.count + 1, "cleanup", "cleanup")
     /\ g' = [count |-> g.count + 1, detached |-> g.detached \cup {g.count + 1}]
  \/ g.count = TeamSize /\ Local(Contractor, "cleanup", "cancelled") /\ UNCHANGED g

worker_routine(t) == Act(t, "begin", "cancelled") /\ UNCHANGED g

SubcontractStep(t) ==
  /\ Running("cancel_subcontract") /\ UNCHANGED program
  /\ \/ t = Main /\ SubcontractMain
     \/ t = Contractor /\ (ContractorRoutine \/ cleanup)
     \/ t \in Team /\ worker_routine(t)

\* Joining the same worker again and again never fails, because that worker
\* outlives the joins: no worker ends before the contractor is being cleaned
\* up.  Once the contractor is gone every worker is detached and has ended or
\* has been told to.
TeamGoesLast ==
  program = "cancel_subcontract" =>
    /\ pc[Contractor] \in {"begin", "join"} => \A w \in Team : ~ Ended(w)
    /\ Ended(Contractor) => \A w \in Team : w \in g.detached /\ (Ended(w) \/ w \in pending)

\* The cancellation programs: where a thread may be cancelled, what the
\* handlers restore, and who is left.
CancellationInv == PthreadsOK /\ CancelledAtTest /\ CounterCounts /\ TeamGoesLast

\* Every cancelled thread ends and main with it.
CancellationEnds ==
  /\ program \in {"cancel", "cancel_disable"} ~> At(Main, "exit")
  /\ program = "cancel_cleanp" ~> pc[Main] \in {"exit", "fault"}
  /\ program = "cancel_subcontract" ~> \A t \in Team \cup {Main, Contractor} : Ended(t)
=============================================================================
