---------------------------- MODULE ForkHandlers ----------------------------
(***************************************************************************)
(* atfork.c.  Main locks the mutex and creates a thread that forks; the    *)
(* mutex and who holds it are copied to the child process.  With the       *)
(* handlers (flag) the thread takes the mutex before the fork, and parent  *)
(* and child each release their own.                                       *)
(*                                                                         *)
(* The child process is thread 2, its copy of the mutex is g.copy and its  *)
(* copy of self_pid is g.self.                                             *)
(***************************************************************************)
EXTENDS Pthreads

Forker == 1
Child == 2

AtforkInit == \E f \in BOOLEAN : Start("atfork", [flag |-> f, copy |-> None, self |-> Main])

AtforkMain ==
  \/ At(Main, "start") /\ pc' = [pc EXCEPT ![Main] = "asleep", ![Forker] = "begin"]
     /\ mutex = None /\ mutex' = Main /\ UNCHANGED <<waiters, pending, g>>
  \/ Unlock(Main, "asleep", "join") /\ UNCHANGED g
  \/ Join(Main, Forker, "join", "exit") /\ UNCHANGED g

\* Faulty variant: the prepare handler does not lock.
PrepareUnlocked == Local(Forker, "begin", "fork") /\ UNCHANGED g

\* The fork has been called: the prepare handler, when there is one.
fork_prepare ==
  /\ IF g.flag THEN Lock(Forker, "begin", "fork") ELSE Local(Forker, "begin", "fork")
  /\ UNCHANGED g

\* The fork itself.  What the forking thread holds, the child holds.
Fork ==
  /\ At(Forker, "fork")
  /\ LET handler == IF g.flag THEN "handler" ELSE "back"
     IN  pc' = [pc EXCEPT ![Forker] = handler, ![Child] = handler]
  /\ g' = [g EXCEPT !.copy = IF mutex = Forker THEN Child ELSE mutex]
  /\ NoSync

fork_parent == Unlock(Forker, "handler", "back") /\ UNCHANGED g

fork_child ==
  /\ Local(Child, "handler", "back")
  /\ g' = [g EXCEPT !.self = Child, !.copy = None]

\* Both processes go on after the fork: lock, print, unlock.
AtforkThread ==
  \/ Lock(Forker, "back", "print") /\ UNCHANGED g
  \/ Unlock(Forker, "print", "waitpid") /\ UNCHANGED g
  \/ Join(Forker, Child, "waitpid", "done") /\ UNCHANGED g
  \/ g.copy = None /\ Local(Child, "back", "print") /\ g' = [g EXCEPT !.copy = Child]
  \/ Local(Child, "print", "done") /\ g' = [g EXCEPT !.copy = None]

AtforkStep(t) ==
  /\ Running("atfork") /\ UNCHANGED program
  /\ \/ t = Main /\ AtforkMain
     \/ t = Forker /\ (fork_prepare \/ Fork \/ fork_parent)
     \/ t = Child /\ fork_child
     \/ t \in {Forker, Child} /\ AtforkThread /\ pc'[t] # pc[t]

\* With the handlers the child never finds its copy of the mutex held by a
\* thread it does not have, and it knows its own pid, whenever main releases
\* the mutex; and the two processes never hold what the other one should.
ForkInv ==
  program = "atfork" =>
    /\ g.flag => g.copy \in {None, Child}
    /\ g.flag /\ pc[Child] \in {"back", "print", "done"} => g.self = Child
    /\ pc[Child] = "print" => g.copy = Child
    /\ At(Forker, "print") \/ (g.flag /\ pc[Forker] \in {"fork", "handler"}) => mutex = Forker

\* The program ends, unless the child copied a mutex that main had locked and
\* there was no handler to release it.
AtforkEnds ==
  /\ Running("atfork") /\ g.flag ~> At(Main, "exit")
  /\ Running("atfork") /\ At(Child, "back") /\ g.copy = None ~> At(Main, "exit")
=============================================================================
