-------------------------- MODULE SemaphorePrograms --------------------------
(***************************************************************************)
(* semaOrder.c (one thread waits for the other by a semaphore) and         *)
(* semaphore_signal.c (a timer's signal handler posts the semaphore that a *)
(* thread waits on).                                                       *)
(***************************************************************************)
EXTENDS Pthreads

CONSTANTS
  Waits,      \* waits of the thread of semaphore_signal.c (5)
  MaxTicks    \* bound: signals of the timer

ASSUME SemaphoreAssumption == Waits \in Nat /\ MaxTicks \in Nat

-----------------------------------------------------------------------------
(* semaOrder.c.  The semaphore is static and never initialised: it is 0.   *)

First == 1
Second == 2

OrderInit == Start("semaOrder", [sem |-> 0, printed |-> <<>>])

OrderMain ==
  /\ NoSync /\ UNCHANGED g
  /\ \/ At(Main, "start") /\ pc' = [pc EXCEPT ![Main] = "join", ![First] = "begin", ![Second] = "begin"]
     \/ At(Main, "join") /\ Ended(First) /\ Ended(Second) /\ Goto(Main, "exit")

f1 ==
  \/ Local(First, "begin", "post") /\ g' = [g EXCEPT !.printed = Append(@, First)]
  \/ Local(First, "post", "done") /\ g' = [g EXCEPT !.sem = @ + 1]

\* Faulty variant: the thread prints before it waits.
F2PrintsFirst ==
  \/ Local(Second, "begin", "print") /\ g' = [g EXCEPT !.printed = Append(@, Second)]
  \/ g.sem > 0 /\ Local(Second, "print", "done") /\ g' = [g EXCEPT !.sem = @ - 1]

f2 ==
  \/ g.sem > 0 /\ Local(Second, "begin", "print") /\ g' = [g EXCEPT !.sem = @ - 1]
  \/ Local(Second, "print", "done") /\ g' = [g EXCEPT !.printed = Append(@, Second)]

OrderStep(t) ==
  /\ Running("semaOrder") /\ UNCHANGED program
  /\ (t = Main /\ OrderMain) \/ (t = First /\ f1) \/ (t = Second /\ f2)

\* The second thread prints after the first one, whichever is scheduled first.
PrintedInOrder ==
  program = "semaOrder" =>
    /\ \E n \in 0..2 : g.printed = SubSeq(<<First, Second>>, 1, n)
    /\ At(Main, "exit") => g.printed = <<First, Second>>

-----------------------------------------------------------------------------
(* semaphore_signal.c.  The array has room for one thread, which main      *)
(* creates; it then joins five.                                            *)

Waiter == 1

TimerInit ==
  Start("timer", [sem |-> 0, waited |-> 0, ticks |-> 0, armed |-> FALSE, joined |-> 0,
                  stage |-> [t \in {Main, Waiter} |-> "out"]])

TimerMain ==
  \/ Create(Main, Waiter, "start", "arm") /\ NoSync /\ UNCHANGED g
  \/ Local(Main, "arm", "join") /\ g' = [g EXCEPT !.armed = TRUE]
  \/ /\ g.joined = 0
     /\ Join(Main, Waiter, "join", "join") /\ g' = [g EXCEPT !.joined = 1]
  \/ /\ g.joined = 1 /\ At(Main, "join")      \* sem_waiters[1]
     /\ Goto(Main, "fault") /\ NoSync /\ UNCHANGED g

\* signal_catcher in thread t, which does nothing else meanwhile (g.stage[t]): a
\* post, a post, and malloc and printf, which are not for signal handlers: they
\* may block for ever when the thread was in one of them itself, and then for
\* the other thread too.
signal_catcher(t) ==
  /\ UNCHANGED pc /\ NoSync
  /\ \/ g.stage[t] = "first" /\ g' = [g EXCEPT !.stage[t] = "second", !.sem = @ + 1]
     \/ g.stage[t] = "second" /\ g' = [g EXCEPT !.stage[t] = "print", !.sem = @ + 1]
     \/ g.stage[t] = "print" /\ g' = [g EXCEPT !.stage[t] = "out"]
     \/ /\ g.stage[t] = "print" /\ g' = [g EXCEPT !.stage[t] = "stuck"]
        /\ IF t = Waiter THEN At(Waiter, "begin") ELSE g.stage[Waiter] = "stuck"

\* The timer expires.  The signal goes to a thread that is not in the handler; one
\* in the middle of its wait may be interrupted, and tries again.
Tick ==
  /\ Running("timer") /\ UNCHANGED program
  /\ g.armed /\ g.ticks < MaxTicks /\ NoSync
  /\ \E t \in {Main, Waiter} :
       /\ ~ Ended(t) /\ g.stage[t] = "out"
       /\ g' = [g EXCEPT !.stage[t] = "first", !.ticks = @ + 1]
       /\ UNCHANGED pc \/ (t = Waiter /\ At(t, "wait") /\ Goto(t, "eintr"))

sem_waiter ==
  \/ g.waited < Waits /\ Local(Waiter, "begin", "wait") /\ UNCHANGED g
  \/ Local(Waiter, "eintr", "wait") /\ UNCHANGED g
  \/ /\ g.sem > 0 /\ Local(Waiter, "wait", "begin")
     /\ g' = [g EXCEPT !.sem = @ - 1, !.waited = @ + 1]
  \/ g.waited = Waits /\ Local(Waiter, "begin", "done") /\ UNCHANGED g

TimerStep(t) ==
  /\ Running("timer") /\ UNCHANGED program
  /\ t \in {Main, Waiter}
  /\ \/ signal_catcher(t)
     \/ g.stage[t] = "out" /\ ((t = Main /\ TimerMain) \/ (t = Waiter /\ sem_waiter))

\* The posts that the handler in t has still to make.
Owed(t) == IF g.stage[t] = "first" THEN 2 ELSE IF g.stage[t] = "second" THEN 1 ELSE 0

\* No post is lost and none counted twice, although a signal may interrupt the
\* very wait it is meant to end, and the handler may run in both threads at once:
\* two are made for each tick.
PostsAccounted ==
  program = "timer" => g.sem + g.waited + Owed(Main) + Owed(Waiter) = 2 * g.ticks

\* The semaphore programs.
SemaphoreInv == PrintedInOrder /\ PostsAccounted

\* The second thread gets its turn, and the timer's waits all end while the
\* timer goes on, unless the handler has blocked the thread for ever; main of
\* semaphore_signal.c then joins what is no thread.
SemaphoresEnd ==
  /\ program = "semaOrder" ~> At(Main, "exit")
  /\ program = "timer" ~> \/ At(Waiter, "done") /\ At(Main, "fault")
                          \/ program = "timer" /\ g.stage[Waiter] = "stuck"
=============================================================================
