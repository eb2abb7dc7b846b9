------------------------ MODULE ThreadProgramsProofs ------------------------
(***************************************************************************)
(* Proofs about the small thread programs.  Only one program runs in a     *)
(* behaviour and its steps are its own, so each has an inductive invariant *)
(* of its own; the invariant of a family is proved from those of its       *)
(* programs.  The suspend package, whose callers and targets are threads   *)
(* of their own, comes last.                                               *)
(***************************************************************************)
EXTENDS MCThreadPrograms, Suspend, FiniteSetTheorems, SequenceTheorems, WellFoundedInduction, TLAPS

\* Every thread is somewhere.
PcOK == pc = [t \in Threads |-> pc[t]]

\* The threads the programs name exist.
LEMMA NamedThreads == {0, 1, 2, 3} \subseteq Threads /\ LastThread \in Nat /\ None \notin Threads
BY PthreadsAssumption, StreamAssumption DEF Threads

\* A step of a thread is a step of the program that runs.
LEMMA ProgramOfStep ==
  ASSUME NEW t \in Threads, Step(t)
  PROVE  /\ program' = program
         /\ program = "atfork" => AtforkStep(t)
         /\ program \in {"cancel", "cancel_disable"} => CancelStep(t)
         /\ program = "cancel_cleanp" => CleanpStep(t)
         /\ program = "cancel_subcontract" => SubcontractStep(t)
         /\ program = "condition" => CountStep(t)
         /\ program = "cond" => CondStep(t)
         /\ program = "sigwait" => SigwaitStep(t)
         /\ program = "sigev_thread" => ExpiryStep(t)
         /\ program = "qt" => QtStep(t)
         /\ program = "trylock" => TrylockStep(t)
         /\ program = "dotprod" => DotStep(t)
         /\ program = "accumulate" => AccumulateStep(t)
         /\ program = "once" => OnceStep(t)
         /\ program = "tsd" => TsdStep(t)
         /\ program = "semaOrder" => OrderStep(t)
         /\ program = "timer" => TimerStep(t)
         /\ program = "flock" => FlockStep(t)
         /\ program = "putchar" => PutcharStep(t)
         /\ program = "pipe" => PipeStep(t)
         /\ program = "server_bee" => BeeStep(t)
         /\ program = "socket_server" => ChatStep(t)
<1>1. AtforkStep(t) => program = "atfork" /\ program' = program BY DEF AtforkStep, Running
<1>2. CancelStep(t) => program \in {"cancel", "cancel_disable"} /\ program' = program
  BY DEF CancelStep, Running
<1>3. CleanpStep(t) => program = "cancel_cleanp" /\ program' = program BY DEF CleanpStep, Running
<1>4. SubcontractStep(t) => program = "cancel_subcontract" /\ program' = program
  BY DEF SubcontractStep, Running
<1>5. CountStep(t) => program = "condition" /\ program' = program BY DEF CountStep, Running
<1>6. CondStep(t) => program = "cond" /\ program' = program BY DEF CondStep, Running
<1>7. SigwaitStep(t) => program = "sigwait" /\ program' = program BY DEF SigwaitStep, Running
<1>8. ExpiryStep(t) => program = "sigev_thread" /\ program' = program BY DEF ExpiryStep, Running
<1>9. QtStep(t) => program = "qt" /\ program' = program BY DEF QtStep, Running
<1>10. TrylockStep(t) => program = "trylock" /\ program' = program BY DEF TrylockStep, Running
<1>11. DotStep(t) => program = "dotprod" /\ program' = program BY DEF DotStep, Running
<1>12. AccumulateStep(t) => program = "accumulate" /\ program' = program
  BY DEF AccumulateStep, Running
<1>13. OnceStep(t) => program = "once" /\ program' = program BY DEF OnceStep, Running
<1>14. TsdStep(t) => program = "tsd" /\ program' = program BY DEF TsdStep, Running
<1>15. OrderStep(t) => program = "semaOrder" /\ program' = program BY DEF OrderStep, Running
<1>16. TimerStep(t) => program = "timer" /\ program' = program BY DEF TimerStep, Running
<1>17. FlockStep(t) => program = "flock" /\ program' = program BY DEF FlockStep, Running
<1>18. PutcharStep(t) => program = "putchar" /\ program' = program BY DEF PutcharStep, Running
<1>19. PipeStep(t) => program = "pipe" /\ program' = program BY DEF PipeStep, Running
<1>20. BeeStep(t) => program = "server_bee" /\ program' = program BY DEF BeeStep, Running
<1>21. ChatStep(t) => program = "socket_server" /\ program' = program BY DEF ChatStep, Running
<1> QED
  BY <1>1, <1>2, <1>3, <1>4, <1>5, <1>6, <1>7, <1>8, <1>9, <1>10, <1>11, <1>12, <1>13, <1>14,
     <1>15, <1>16, <1>17, <1>18, <1>19, <1>20, <1>21 DEF Step

\* What happens outside the threads happens in the program it belongs to.
LEMMA ProgramOfEvent ==
  ASSUME [Next]_vars
  PROVE  /\ program' = program
         /\ Interrupt => program = "sigwait"
         /\ Minute => program = "trylock"
         /\ Tick => program = "timer"
         /\ timer_thread => program = "sigev_thread"
         /\ Answer => program = "flock"
         /\ BeeAcceptFails => program = "server_bee"
         /\ ChatAcceptFails => program = "socket_server"
<1>1. Spurious => program' = program BY DEF Spurious
<1>2. Interrupt => program = "sigwait" /\ program' = program BY DEF Interrupt, Running
<1>3. Minute => program = "trylock" /\ program' = program BY DEF Minute, Running
<1>4. Tick => program = "timer" /\ program' = program BY DEF Tick, Running
<1>5. timer_thread => program = "sigev_thread" /\ program' = program BY DEF timer_thread, Running
<1>6. ASSUME NEW t \in Threads, Step(t) PROVE program' = program BY <1>6, ProgramOfStep
<1>7. UNCHANGED vars => program' = program BY DEF vars
<1>8. Answer => program = "flock" /\ program' = program BY DEF Answer, Running
<1>9. BeeAcceptFails => program = "server_bee" /\ program' = program BY DEF BeeAcceptFails, Running
<1>10. ChatAcceptFails => program = "socket_server" /\ program' = program
  BY DEF ChatAcceptFails, Running
<1> QED BY <1>1, <1>2, <1>3, <1>4, <1>5, <1>6, <1>7, <1>8, <1>9, <1>10 DEF Next

\* What a step is, by the program that runs: a step of one of its threads, of
\* its timer or its user, or a wakeup that nobody sent.
LEMMA Dispatch ==
  ASSUME [Next]_vars
  PROVE  /\ program' = program
         /\ program = "atfork" => (\E t \in Threads : AtforkStep(t)) \/ Spurious \/ UNCHANGED vars
         /\ program \in {"cancel", "cancel_disable"} => (\E t \in Threads : CancelStep(t)) \/ Spurious \/ UNCHANGED vars
         /\ program = "cancel_cleanp" => (\E t \in Threads : CleanpStep(t)) \/ Spurious \/ UNCHANGED vars
         /\ program = "cancel_subcontract" => (\E t \in Threads : SubcontractStep(t)) \/ Spurious \/ UNCHANGED vars
         /\ program = "condition" => (\E t \in Threads : CountStep(t)) \/ Spurious \/ UNCHANGED vars
         /\ program = "cond" => (\E t \in Threads : CondStep(t)) \/ Spurious \/ UNCHANGED vars
         /\ program = "sigwait" => (\E t \in Threads : SigwaitStep(t)) \/ Interrupt \/ Spurious \/ UNCHANGED vars
         /\ program = "sigev_thread" => (\E t \in Threads : ExpiryStep(t)) \/ timer_thread \/ Spurious \/ UNCHANGED vars
         /\ program = "qt" => (\E t \in Threads : QtStep(t)) \/ UNCHANGED vars
         /\ program = "trylock" => (\E t \in Threads : TrylockStep(t)) \/ Minute \/ Spurious \/ UNCHANGED vars
         /\ program = "dotprod" => (\E t \in Threads : DotStep(t)) \/ Spurious \/ UNCHANGED vars
         /\ program = "accumulate" => (\E t \in Threads : AccumulateStep(t)) \/ Spurious \/ UNCHANGED vars
         /\ program = "once" => (\E t \in Threads : OnceStep(t)) \/ Spurious \/ UNCHANGED vars
         /\ program = "tsd" => (\E t \in Threads : TsdStep(t)) \/ Spurious \/ UNCHANGED vars
         /\ program = "semaOrder" => (\E t \in Threads : OrderStep(t)) \/ Spurious \/ UNCHANGED vars
         /\ program = "timer" => (\E t \in Threads : TimerStep(t)) \/ Tick \/ Spurious \/ UNCHANGED vars
         /\ program = "flock" => (\E t \in Threads : FlockStep(t)) \/ Answer \/ Spurious \/ UNCHANGED vars
         /\ program = "putchar" => (\E t \in Threads : PutcharStep(t)) \/ Spurious \/ UNCHANGED vars
         /\ program = "pipe" => (\E t \in Threads : PipeStep(t)) \/ Spurious \/ UNCHANGED vars
         /\ program = "server_bee" => (\E t \in Threads : BeeStep(t)) \/ BeeAcceptFails \/ Spurious \/ UNCHANGED vars
         /\ program = "socket_server" => (\E t \in Threads : ChatStep(t)) \/ ChatAcceptFails \/ Spurious \/ UNCHANGED vars
<1>1. CASE UNCHANGED vars BY <1>1, ProgramOfEvent
<1>2. CASE Spurious
  <2>1. program # "qt" BY <1>2 DEF Spurious
  <2> QED BY <1>2, <2>1, ProgramOfEvent
<1>3. CASE \E t \in Threads : Step(t)
  <2>1. PICK t \in Threads : Step(t) BY <1>3
  <2> QED BY <2>1, ProgramOfStep
<1>4. CASE Interrupt \/ Minute \/ Tick \/ timer_thread BY <1>4, ProgramOfEvent
<1>5. CASE Answer \/ BeeAcceptFails \/ ChatAcceptFails BY <1>5, ProgramOfEvent
<1> QED BY <1>1, <1>2, <1>3, <1>4, <1>5 DEF Next

\* The programs.
Programs ==
  {"atfork", "cancel", "cancel_disable", "cancel_cleanp", "cancel_subcontract", "condition",
   "cond", "sigwait", "sigev_thread", "qt", "trylock", "dotprod", "accumulate", "once", "tsd",
   "semaOrder", "timer", "flock", "putchar", "pipe", "server_bee", "socket_server"}

\* One of them starts, in its initial state.
LEMMA InitialState ==
  ASSUME Init
  PROVE  /\ program \in Programs
         /\ program = "atfork" => AtforkInit
         /\ program \in {"cancel", "cancel_disable"} => CancelInit
         /\ program = "cancel_cleanp" => CleanpInit
         /\ program = "cancel_subcontract" => SubcontractInit
         /\ program = "condition" => CountInit
         /\ program = "cond" => CondInit
         /\ program = "sigwait" => SigwaitInit
         /\ program = "sigev_thread" => ExpiryInit
         /\ program = "qt" => QtInit
         /\ program = "trylock" => TrylockInit
         /\ program = "dotprod" => DotInit
         /\ program = "accumulate" => AccumulateInit
         /\ program = "once" => OnceInit
         /\ program = "tsd" => TsdInit
         /\ program = "semaOrder" => OrderInit
         /\ program = "timer" => TimerInit
         /\ program = "flock" => FlockInit
         /\ program = "putchar" => PutcharInit
         /\ program = "pipe" => PipeInit
         /\ program = "server_bee" => BeeInit
         /\ program = "socket_server" => ChatInit
<1>1. AtforkInit => program = "atfork" BY DEF AtforkInit, Start
<1>2. CancelInit => program \in {"cancel", "cancel_disable"} BY DEF CancelInit, Start
<1>3. CleanpInit => program = "cancel_cleanp" BY DEF CleanpInit, Start
<1>4. SubcontractInit => program = "cancel_subcontract" BY DEF SubcontractInit, Start
<1>5. CountInit => program = "condition" BY DEF CountInit, Start
<1>6. CondInit => program = "cond" BY DEF CondInit, Start
<1>7. SigwaitInit => program = "sigwait" BY DEF SigwaitInit, Start
<1>8. ExpiryInit => program = "sigev_thread" BY DEF ExpiryInit, Start
<1>9. QtInit => program = "qt" BY DEF QtInit, Start
<1>10. TrylockInit => program = "trylock" BY DEF TrylockInit, Start
<1>11. DotInit => program = "dotprod" BY DEF DotInit, Start
<1>12. AccumulateInit => program = "accumulate" BY DEF AccumulateInit, Start
<1>13. OnceInit => program = "once" BY DEF OnceInit, Start
<1>14. TsdInit => program = "tsd" BY DEF TsdInit, Start
<1>15. OrderInit => program = "semaOrder" BY DEF OrderInit, Start
<1>16. TimerInit => program = "timer" BY DEF TimerInit, Start
<1>17. FlockInit => program = "flock" BY DEF FlockInit, Start
<1>18. PutcharInit => program = "putchar" BY DEF PutcharInit, Start
<1>19. PipeInit => program = "pipe" BY DEF PipeInit, Start
<1>20. BeeInit => program = "server_bee" BY DEF BeeInit, Start
<1>21. ChatInit => program = "socket_server" BY DEF ChatInit, Start
<1> QED
  BY <1>1, <1>2, <1>3, <1>4, <1>5, <1>6, <1>7, <1>8, <1>9, <1>10, <1>11, <1>12, <1>13, <1>14, <1>15, <1>16, <1>17, <1>18, <1>19, <1>20, <1>21
     DEF Init, Programs

\* The mutex is a mutex; no thread waits on the condition variable and none is
\* to be cancelled.
Unused == mutex \in Threads \cup {None} /\ waiters = {} /\ pending = {}

-----------------------------------------------------------------------------
(* Fork handlers.                                                          *)

\* atfork.c: main has the mutex until it wakes up, the child is created by the
\* fork, and only a program with handlers runs them.
AtforkIInv ==
  program = "atfork" =>
    /\ PcOK /\ Unused /\ ForkInv
    /\ g \in [flag : BOOLEAN, copy : Threads \cup {None}, self : Threads]
    /\ pc[Main] = "start" => pc[Forker] = "none"
    /\ pc[Main] = "asleep" => mutex = Main
    /\ pc[Forker] \in {"none", "begin", "fork"} => pc[Child] = "none"
    /\ pc[Child] = "none" => g.copy = None
    /\ pc[Forker] = "handler" \/ pc[Child] = "handler" => g.flag

\* Init establishes AtforkIInv.
LEMMA AtforkInitial == Init => AtforkIInv
BY InitialState, NamedThreads
   DEF AtforkInit, Start, AtforkIInv, PcOK, Unused, ForkInv, Main, Forker, Child, At

\* The program's own steps preserve AtforkIInv.
LEMMA AtforkStepKeeps ==
  ASSUME AtforkIInv, program = "atfork", NEW t \in Threads, AtforkStep(t)
  PROVE  AtforkIInv'
<1> USE NamedThreads DEF AtforkIInv, PcOK, Unused, ForkInv, Main, Forker, Child, At, Goto, NoSync,
      Local, Lock, Unlock, Join, Ended
<1>0. program' = program BY DEF AtforkStep
<1>1. CASE t = Main /\ AtforkMain BY <1>0, <1>1 DEF AtforkMain
<1>2. CASE fork_prepare BY <1>0, <1>2 DEF fork_prepare
<1>3. CASE Fork BY <1>0, <1>3 DEF Fork
<1>4. CASE fork_parent
  <2>1. pc[Forker] = "handler" /\ mutex = Forker BY <1>4 DEF fork_parent
  <2>2. /\ pc' = [pc EXCEPT ![Forker] = "back"] /\ g' = g
        /\ mutex' = None /\ waiters' = waiters /\ pending' = pending
    BY <1>4 DEF fork_parent
  <2>3. pc'[Main] = pc[Main] /\ pc'[Forker] = "back" /\ pc'[Child] = pc[Child] BY <2>2
  <2>4. pc[Main] # "asleep" BY <2>1
  <2>5. PcOK' /\ Unused' BY <2>2
  <2> QED BY <1>0, <2>1, <2>2, <2>3, <2>4, <2>5
<1>5. CASE fork_child BY <1>0, <1>5 DEF fork_child
<1>6. CASE AtforkThread BY <1>0, <1>6 DEF AtforkThread
<1> QED BY <1>1, <1>2, <1>3, <1>4, <1>5, <1>6 DEF AtforkStep

\* No step, whichever program runs, breaks AtforkIInv.
LEMMA AtforkKept == AtforkIInv /\ [Next]_vars => AtforkIInv'
<1> SUFFICES ASSUME AtforkIInv, [Next]_vars, program = "atfork" PROVE AtforkIInv'
  BY Dispatch DEF AtforkIInv
<1>1. CASE Spurious BY <1>1 DEF Spurious, AtforkIInv, Unused
<1>2. CASE UNCHANGED vars BY <1>2 DEF vars, AtforkIInv, PcOK, Unused, ForkInv, At
<1> QED BY <1>1, <1>2, AtforkStepKeeps, Dispatch

\* With the handlers of atfork.c the child never finds its copy of the mutex
\* held by a thread it does not have and it knows its pid.
THEOREM ForkCorrect == Spec => []ForkInv
<1>1. AtforkIInv => ForkInv BY DEF AtforkIInv, ForkInv
<1> QED BY <1>1, AtforkInitial, AtforkKept, PTL DEF Spec

-----------------------------------------------------------------------------
(* One-time initialisation.                                                *)

\* once.c: at most one thread is in the routine, and while it is the others
\* wait.
OnceIInv ==
  program = "once" =>
    /\ PcOK /\ Unused
    /\ g \in [once : {"never", "running", "done"}, inits : {0, 1}]
    /\ g.inits = 1 <=> g.once = "done"
    /\ \A t \in {Main, OnceThread} :
         /\ pc[t] \in {"lock", "locked", "unlock", "join", "done", "exit"} => g.once = "done"
         /\ pc[t] = "routine" => g.once = "running"
    /\ ~ (pc[Main] = "routine" /\ pc[OnceThread] = "routine")

\* Init establishes OnceIInv.
LEMMA OnceInitial == Init => OnceIInv
BY InitialState, NamedThreads DEF OnceInit, Start, OnceIInv, PcOK, Unused, Main, OnceThread

\* The program's own steps preserve OnceIInv.
LEMMA OnceStepKeeps ==
  ASSUME OnceIInv, program = "once", NEW t \in Threads, OnceStep(t)
  PROVE  OnceIInv'
<1> USE NamedThreads DEF OnceIInv, PcOK, Unused, Main, OnceThread, At, Goto, NoSync, Local, Ended
<1>0. program' = program BY DEF OnceStep
<1>1. CASE Create(Main, OnceThread, "start", "once") /\ NoSync /\ UNCHANGED g
  BY <1>0, <1>1 DEF Create
<1>2. CASE OnceFirst(Main, "once", "routine") BY <1>0, <1>2 DEF OnceFirst
<1>3. CASE OncePassed(Main, "once", "unlock") BY <1>0, <1>3 DEF OncePassed
<1>4. CASE once_init_routine(Main, "unlock")
  <2>1. g.once = "running" /\ g.inits = 0 BY <1>4 DEF once_init_routine
  <2>0. g.inits + 1 = 1 BY <2>1
  <2> g' = [g EXCEPT !.once = "done", !.inits = 1] BY <1>4, <2>0 DEF once_init_routine
  <2>2. g'.once = "done" /\ g'.inits = 1 /\ g' \in [once : {"never", "running", "done"}, inits : {0, 1}]
    OBVIOUS
  <2>3. pc' = [pc EXCEPT ![Main] = "unlock"] /\ pc[Main] = "routine" BY <1>4 DEF once_init_routine
  <2>4. pc'[Main] = "unlock" /\ pc'[OnceThread] = pc[OnceThread] /\ pc[OnceThread] # "routine" BY <2>3
  <2>5. PcOK' /\ Unused' BY <1>4, <2>3 DEF once_init_routine
  <2> QED BY <1>0, <2>2, <2>4, <2>5
<1>5. CASE Unlock(Main, "unlock", "join") /\ UNCHANGED g BY <1>0, <1>5 DEF Unlock
<1>6. CASE Join(Main, OnceThread, "join", "exit") /\ UNCHANGED g BY <1>0, <1>6 DEF Join
<1>7. CASE OnceFirst(OnceThread, "begin", "routine") BY <1>0, <1>7 DEF OnceFirst
<1>8. CASE OncePassed(OnceThread, "begin", "lock") BY <1>0, <1>8 DEF OncePassed
<1>9. CASE once_init_routine(OnceThread, "lock")
  <2>1. g.once = "running" /\ g.inits = 0 BY <1>9 DEF once_init_routine
  <2>0. g.inits + 1 = 1 BY <2>1
  <2> g' = [g EXCEPT !.once = "done", !.inits = 1] BY <1>9, <2>0 DEF once_init_routine
  <2>2. g'.once = "done" /\ g'.inits = 1 /\ g' \in [once : {"never", "running", "done"}, inits : {0, 1}]
    OBVIOUS
  <2>3. pc' = [pc EXCEPT ![OnceThread] = "lock"] /\ pc[OnceThread] = "routine" BY <1>9 DEF once_init_routine
  <2>4. pc'[OnceThread] = "lock" /\ pc'[Main] = pc[Main] /\ pc[Main] # "routine" BY <2>3
  <2>5. PcOK' /\ Unused' BY <1>9, <2>3 DEF once_init_routine
  <2> QED BY <1>0, <2>2, <2>4, <2>5
<1>10. CASE Lock(OnceThread, "lock", "locked") /\ UNCHANGED g BY <1>0, <1>10 DEF Lock
<1>11. CASE Unlock(OnceThread, "locked", "done") /\ UNCHANGED g BY <1>0, <1>11 DEF Unlock
<1> QED
  BY <1>1, <1>2, <1>3, <1>4, <1>5, <1>6, <1>7, <1>8, <1>9, <1>10, <1>11 DEF OnceStep

\* No step, whichever program runs, breaks OnceIInv.
LEMMA OnceKept == OnceIInv /\ [Next]_vars => OnceIInv'
<1> SUFFICES ASSUME OnceIInv, [Next]_vars, program = "once" PROVE OnceIInv'
  BY Dispatch DEF OnceIInv
<1>1. CASE Spurious BY <1>1 DEF Spurious, OnceIInv, Unused
<1>2. CASE UNCHANGED vars BY <1>2 DEF vars, OnceIInv, PcOK, Unused
<1> QED BY <1>1, <1>2, OnceStepKeeps, Dispatch

\* tsd_once.c: the same of the key, and how far each thread has come with its
\* value.
TsdIInv ==
  program = "tsd" =>
    /\ PcOK /\ Unused
    /\ g \in [once : {"never", "running", "done"}, keys : {0, 1},
              value : [TsdThreads -> Threads \cup {None}],
              said : [TsdThreads -> Seq(Threads \cup {None})]]
    /\ g.keys = 1 <=> g.once = "done"
    /\ pc[Main] = "start" => pc[1] = "none" /\ pc[2] = "none"
    /\ \A t \in TsdThreads :
         /\ pc[t] \in {"none", "begin", "routine", "set", "starting", "sleep", "done"}
         /\ pc[t] \in {"set", "starting", "sleep", "done"} => g.once = "done"
         /\ pc[t] = "routine" => g.once = "running"
         /\ pc[t] \in {"starting", "sleep", "done"} => g.value[t] = t
         /\ pc[t] \in {"none", "begin", "routine", "set", "starting"} => g.said[t] = <<>>
         /\ pc[t] = "sleep" => g.said[t] = <<t>>
         /\ pc[t] = "done" => g.said[t] = <<t, t>>
    /\ ~ (pc[1] = "routine" /\ pc[2] = "routine")

\* Init establishes TsdIInv.
LEMMA TsdInitial == Init => TsdIInv
BY InitialState, NamedThreads DEF TsdInit, Start, TsdIInv, PcOK, Unused, Main, TsdThreads

\* The program's own steps preserve TsdIInv.
LEMMA TsdStepKeeps ==
  ASSUME TsdIInv, program = "tsd", NEW t \in Threads, TsdStep(t)
  PROVE  TsdIInv'
<1> USE NamedThreads DEF TsdIInv, PcOK, Unused, Main, TsdThreads, At, Goto, NoSync, Local
<1>0. program' = program BY DEF TsdStep
<1>1. CASE TsdMain BY <1>0, <1>1 DEF TsdMain
<1>2. CASE t \in TsdThreads /\ OnceFirst(t, "begin", "routine") BY <1>0, <1>2 DEF OnceFirst
<1>3. CASE t \in TsdThreads /\ OncePassed(t, "begin", "set") BY <1>0, <1>3 DEF OncePassed
<1>4. CASE t \in TsdThreads /\ once_routie(t)
  <2>1. g.once = "running" /\ g.keys = 0 BY <1>4 DEF once_routie
  <2>2. g' = [g EXCEPT !.once = "done", !.keys = 1] BY <1>4, <2>1 DEF once_routie
  <2>3. g'.once = "done" /\ g'.keys = 1 /\ g'.value = g.value /\ g'.said = g.said BY <2>2
  <2>4. pc' = [pc EXCEPT ![t] = "set"] /\ pc[t] = "routine" BY <1>4 DEF once_routie
  <2>5. PcOK' /\ Unused' BY <1>4, <2>4 DEF once_routie
  <2> QED BY <1>0, <1>4, <2>2, <2>3, <2>4, <2>5
<1>5. CASE t \in TsdThreads /\ Local(t, "set", "starting") /\ g' = [g EXCEPT !.value[t] = t]
  BY <1>0, <1>5
<1>6. CASE t \in TsdThreads /\ Say(t, "starting", "sleep")
  <2>1. g.value[t] = t /\ g.said[t] = <<>> /\ g.once = "done" BY <1>6 DEF Say
  <2>2. Append(g.said[t], g.value[t]) = <<t>> BY <2>1
  <2>3. g' = [g EXCEPT !.said[t] = <<t>>] BY <1>6, <2>2 DEF Say
  <2>4. /\ g'.once = g.once /\ g'.keys = g.keys /\ g'.value = g.value
        /\ g'.said = [g.said EXCEPT ![t] = <<t>>]
    BY <2>3
  <2>5. pc' = [pc EXCEPT ![t] = "sleep"] /\ pc[t] = "starting" BY <1>6 DEF Say
  <2>6. PcOK' /\ Unused' BY <1>6, <2>5 DEF Say
  <2>7. <<t>> \in Seq(Threads \cup {None}) BY <1>6
  <2>8. g' \in [once : {"never", "running", "done"}, keys : {0, 1},
                value : [TsdThreads -> Threads \cup {None}],
                said : [TsdThreads -> Seq(Threads \cup {None})]]
    BY <2>3, <2>7
  <2>9. /\ pc'[t] = "sleep" /\ g'.said[t] = <<t>> /\ g'.value[t] = t
        /\ \A u \in TsdThreads : u # t => pc'[u] = pc[u] /\ g'.said[u] = g.said[u] /\ g'.value[u] = g.value[u]
    BY <1>6, <2>1, <2>4, <2>5
  <2>10. pc'[Main] = pc[Main] /\ g'.once = "done" BY <1>6, <2>1, <2>4, <2>5
  <2>11. \A u \in TsdThreads :
           /\ pc'[u] \in {"none", "begin", "routine", "set", "starting", "sleep", "done"}
           /\ pc'[u] # "routine"
           /\ pc'[u] \in {"starting", "sleep", "done"} => g'.value[u] = u
           /\ pc'[u] \in {"none", "begin", "routine", "set", "starting"} => g'.said[u] = <<>>
           /\ pc'[u] = "sleep" => g'.said[u] = <<u>>
           /\ pc'[u] = "done" => g'.said[u] = <<u, u>>
    BY <1>6, <2>1, <2>9
  <2> QED BY <1>0, <1>6, <2>1, <2>4, <2>5, <2>6, <2>8, <2>10, <2>11
<1>7. CASE t \in TsdThreads /\ Say(t, "sleep", "done")
  <2>1. g.value[t] = t /\ g.said[t] = <<t>> /\ g.once = "done" BY <1>7 DEF Say
  <2>2. Append(g.said[t], g.value[t]) = <<t, t>> BY <2>1
  <2>3. g' = [g EXCEPT !.said[t] = <<t, t>>] BY <1>7, <2>2 DEF Say
  <2>4. /\ g'.once = g.once /\ g'.keys = g.keys /\ g'.value = g.value
        /\ g'.said = [g.said EXCEPT ![t] = <<t, t>>]
    BY <2>3
  <2>5. pc' = [pc EXCEPT ![t] = "done"] /\ pc[t] = "sleep" BY <1>7 DEF Say
  <2>6. PcOK' /\ Unused' BY <1>7, <2>5 DEF Say
  <2>7. <<t, t>> \in Seq(Threads \cup {None}) BY <1>7
  <2>8. g' \in [once : {"never", "running", "done"}, keys : {0, 1},
                value : [TsdThreads -> Threads \cup {None}],
                said : [TsdThreads -> Seq(Threads \cup {None})]]
    BY <2>3, <2>7
  <2>9. /\ pc'[t] = "done" /\ g'.said[t] = <<t, t>> /\ g'.value[t] = t
        /\ \A u \in TsdThreads : u # t => pc'[u] = pc[u] /\ g'.said[u] = g.said[u] /\ g'.value[u] = g.value[u]
    BY <1>7, <2>1, <2>4, <2>5
  <2>10. pc'[Main] = pc[Main] /\ g'.once = "done" BY <1>7, <2>1, <2>4, <2>5
  <2>11. \A u \in TsdThreads :
           /\ pc'[u] \in {"none", "begin", "routine", "set", "starting", "sleep", "done"}
           /\ pc'[u] # "routine"
           /\ pc'[u] \in {"starting", "sleep", "done"} => g'.value[u] = u
           /\ pc'[u] \in {"none", "begin", "routine", "set", "starting"} => g'.said[u] = <<>>
           /\ pc'[u] = "sleep" => g'.said[u] = <<u>>
           /\ pc'[u] = "done" => g'.said[u] = <<u, u>>
    BY <1>7, <2>1, <2>9
  <2> QED BY <1>0, <1>7, <2>1, <2>4, <2>5, <2>6, <2>8, <2>10, <2>11
<1> QED BY <1>1, <1>2, <1>3, <1>4, <1>5, <1>6, <1>7 DEF TsdStep

\* No step, whichever program runs, breaks TsdIInv.
LEMMA TsdKept == TsdIInv /\ [Next]_vars => TsdIInv'
<1> SUFFICES ASSUME TsdIInv, [Next]_vars, program = "tsd" PROVE TsdIInv'
  BY Dispatch DEF TsdIInv
<1>1. CASE Spurious BY <1>1 DEF Spurious, TsdIInv, Unused
<1>2. CASE UNCHANGED vars BY <1>2 DEF vars, TsdIInv, PcOK, Unused
<1> QED BY <1>1, <1>2, TsdStepKeeps, Dispatch

\* The routine given to pthread_once runs once and before anyone goes on, and
\* with the key it created each thread reads back its own value.
THEOREM OnceCorrect == Spec => []OnceInv
<1>1. OnceIInv => InitialisedOnce BY DEF OnceIInv, InitialisedOnce
<1>2. TsdIInv => OwnValue BY DEF TsdIInv, OwnValue
<1> QED
  BY <1>1, <1>2, OnceInitial, OnceKept, TsdInitial, TsdKept, PTL DEF Spec, OnceInv

-----------------------------------------------------------------------------
(* Semaphores.                                                             *)

\* semaOrder.c: where the threads are determines the semaphore and the output.
OrderIInv ==
  program = "semaOrder" =>
    /\ PcOK /\ Unused
    /\ g \in [sem : {0, 1}, printed : Seq(Threads)]
    /\ \/ pc[First] \in {"none", "begin"} /\ pc[Second] = pc[First] /\ g.sem = 0 /\ g.printed = <<>>
       \/ pc[First] = "post" /\ pc[Second] = "begin" /\ g.sem = 0 /\ g.printed = <<First>>
       \/ pc[First] = "done" /\ pc[Second] = "begin" /\ g.sem = 1 /\ g.printed = <<First>>
       \/ pc[First] = "done" /\ pc[Second] = "print" /\ g.sem = 0 /\ g.printed = <<First>>
       \/ pc[First] = "done" /\ pc[Second] = "done" /\ g.sem = 0 /\ g.printed = <<First, Second>>
    /\ pc[Main] = "start" => pc[First] = "none"
    /\ pc[Main] = "exit" => pc[Second] = "done"

\* Init establishes OrderIInv.
LEMMA OrderInitial == Init => OrderIInv
<1> SUFFICES ASSUME Init, program = "semaOrder" PROVE OrderIInv BY DEF OrderIInv
<1>1. Start("semaOrder", [sem |-> 0, printed |-> <<>>]) BY InitialState DEF OrderInit
<1>2. pc[First] = "none" /\ pc[Second] = "none" /\ pc[Main] = "start" /\ PcOK /\ Unused
  BY <1>1, NamedThreads DEF Start, Main, First, Second, PcOK, Unused
<1>3. g.sem = 0 /\ g.printed = <<>> /\ g \in [sem : {0, 1}, printed : Seq(Threads)]
  BY <1>1 DEF Start
<1> QED BY <1>2, <1>3 DEF OrderIInv

\* The program's own steps preserve OrderIInv.
LEMMA OrderStepKeeps ==
  ASSUME OrderIInv, program = "semaOrder", NEW t \in Threads, OrderStep(t)
  PROVE  OrderIInv'
<1> USE NamedThreads DEF OrderIInv, PcOK, Unused, Main, First, Second, At, Goto, NoSync, Local, Ended
<1>0. program' = program BY DEF OrderStep
<1>1. CASE OrderMain BY <1>0, <1>1 DEF OrderMain
<1>2. CASE Local(First, "begin", "post") /\ g' = [g EXCEPT !.printed = Append(@, First)]
  <2>1. g.printed = <<>> /\ g.sem = 0 /\ pc[Second] = "begin" BY <1>2
  <2>2. Append(g.printed, First) = <<First>> BY <2>1
  <2>3. g' = [g EXCEPT !.printed = <<First>>] BY <1>2, <2>2
  <2>4. g'.sem = 0 /\ g'.printed = <<First>> /\ g' \in [sem : {0, 1}, printed : Seq(Threads)]
    BY <2>1, <2>3
  <2>5. pc' = [pc EXCEPT ![First] = "post"] /\ PcOK' /\ Unused' BY <1>2
  <2> QED BY <1>0, <1>2, <2>1, <2>4, <2>5
<1>3. CASE Local(First, "post", "done") /\ g' = [g EXCEPT !.sem = @ + 1]
  <2>1. g.printed = <<First>> /\ g.sem = 0 /\ pc[Second] = "begin" BY <1>3
  <2>2. g.sem + 1 = 1 BY <2>1
  <2>3. g' = [g EXCEPT !.sem = 1] BY <1>3, <2>2
  <2> QED BY <1>0, <1>3, <2>1, <2>3
<1>4. CASE g.sem > 0 /\ Local(Second, "begin", "print") /\ g' = [g EXCEPT !.sem = @ - 1]
  <2>1. g.printed = <<First>> /\ g.sem = 1 /\ pc[First] = "done" BY <1>4
  <2>2. g.sem - 1 = 0 BY <2>1
  <2>3. g' = [g EXCEPT !.sem = 0] BY <1>4, <2>2
  <2> QED BY <1>0, <1>4, <2>1, <2>3
<1>5. CASE Local(Second, "print", "done") /\ g' = [g EXCEPT !.printed = Append(@, Second)]
  <2>1. g.printed = <<First>> /\ g.sem = 0 /\ pc[First] = "done" BY <1>5
  <2>2. Append(g.printed, Second) = <<First, Second>> BY <2>1
  <2>3. g' = [g EXCEPT !.printed = <<First, Second>>] BY <1>5, <2>2
  <2>4. g'.sem = 0 /\ g'.printed = <<First, Second>> /\ g' \in [sem : {0, 1}, printed : Seq(Threads)]
    BY <2>1, <2>3
  <2>5. pc' = [pc EXCEPT ![Second] = "done"] /\ PcOK' /\ Unused' BY <1>5
  <2>6. pc'[Second] = "done" /\ pc'[First] = "done" /\ pc'[Main] = pc[Main] BY <2>1, <2>5
  <2> QED BY <1>0, <1>5, <2>1, <2>4, <2>5, <2>6
<1> QED BY <1>1, <1>2, <1>3, <1>4, <1>5 DEF OrderStep, f1, f2

\* No step, whichever program runs, breaks OrderIInv.
LEMMA OrderKept == OrderIInv /\ [Next]_vars => OrderIInv'
<1> SUFFICES ASSUME OrderIInv, [Next]_vars, program = "semaOrder" PROVE OrderIInv'
  BY Dispatch DEF OrderIInv
<1>1. CASE Spurious BY <1>1 DEF Spurious, OrderIInv, Unused
<1>2. CASE UNCHANGED vars BY <1>2 DEF vars, OrderIInv, PcOK, Unused
<1> QED BY <1>1, <1>2, OrderStepKeeps, Dispatch

\* What OrderIInv says of the program.
LEMMA OrderImplies == OrderIInv => PrintedInOrder
<1> SUFFICES ASSUME OrderIInv, program = "semaOrder" PROVE PrintedInOrder
  BY DEF PrintedInOrder
<1>1. g.printed \in {<<>>, <<First>>, <<First, Second>>} BY DEF OrderIInv
<1>2. At(Main, "exit") => g.printed = <<First, Second>> BY DEF OrderIInv, At
<1>3. /\ SubSeq(<<First, Second>>, 1, 0) = <<>>
      /\ SubSeq(<<First, Second>>, 1, 1) = <<First>>
      /\ SubSeq(<<First, Second>>, 1, 2) = <<First, Second>>
  <2> DEFINE w == <<First, Second>>
  <2>1. w \in Seq({1, 2}) /\ Len(w) = 2 /\ w[1] = First /\ w[2] = Second BY DEF First, Second
  <2> HIDE DEF w
  <2>2. SubSeq(w, 1, 0) = <<>> BY SubSeqEmpty
  <2>3. SubSeq(w, 1, 1) = <<First>>
    <3>1. 1 \in Int /\ \A i \in 1..1 : w[i] \in {1, 2} BY <2>1 DEF First
    <3>2. /\ SubSeq(w, 1, 1) \in Seq({1, 2})
          /\ Len(SubSeq(w, 1, 1)) = IF 1 <= 1 THEN 1 - 1 + 1 ELSE 0
          /\ \A i \in 1 .. 1 - 1 + 1 : SubSeq(w, 1, 1)[i] = w[1 + i - 1]
      BY <3>1, SubSeqProperties
    <3>3. Len(SubSeq(w, 1, 1)) = 1 /\ SubSeq(w, 1, 1)[1] = w[1] BY <3>2
    <3>4. <<First>> \in Seq({1, 2}) /\ Len(<<First>>) = 1 /\ <<First>>[1] = First BY DEF First
    <3>5. \A i \in 1..1 : SubSeq(w, 1, 1)[i] = <<First>>[i] BY <2>1, <3>3, <3>4
    <3> QED BY <3>2, <3>3, <3>4, <3>5, SeqEqual
  <2>4. SubSeq(w, 1, 2) = w BY <2>1, SubSeqFull
  <2> QED BY <2>2, <2>3, <2>4 DEF w
<1>4. \E n \in 0..2 : g.printed = SubSeq(<<First, Second>>, 1, n)
  <2> DEFINE w == <<First, Second>>
  <2>1. 0 \in 0..2 /\ 1 \in 0..2 /\ 2 \in 0..2 OBVIOUS
  <2>2. g.printed = SubSeq(w, 1, 0) \/ g.printed = SubSeq(w, 1, 1) \/ g.printed = SubSeq(w, 1, 2)
    BY <1>1, <1>3
  <2> HIDE DEF w
  <2>3. \E n \in 0..2 : g.printed = SubSeq(w, 1, n) BY <2>1, <2>2, Zenon
  <2> QED BY <2>3 DEF w
<1> QED BY <1>2, <1>4 DEF PrintedInOrder

\* The variables of semaphore_signal.c.
TimerVariables ==
  [sem : Nat, waited : Nat, ticks : Nat, armed : BOOLEAN, joined : {0, 1},
   stage : [{Main, Waiter} -> {"out", "first", "second", "print", "stuck"}]]

\* semaphore_signal.c.
TimerIInv == program = "timer" => PcOK /\ Unused /\ PostsAccounted /\ g \in TimerVariables

\* Init establishes TimerIInv.
LEMMA TimerInitial == Init => TimerIInv
<1> SUFFICES ASSUME Init, program = "timer" PROVE TimerIInv BY DEF TimerIInv
<1>1. TimerInit BY InitialState
<1>2. PcOK /\ Unused BY <1>1 DEF TimerInit, Start, PcOK, Unused
<1>3. g.sem = 0 /\ g.waited = 0 /\ g.ticks = 0 /\ g.stage[Main] = "out" /\ g.stage[Waiter] = "out"
  BY <1>1 DEF TimerInit, Start
<1>4. g \in TimerVariables BY <1>1 DEF TimerInit, Start, TimerVariables
<1> QED BY <1>2, <1>3, <1>4 DEF TimerIInv, PostsAccounted, Owed

\* A step of the handler in thread t.
LEMMA CatcherKeeps ==
  ASSUME TimerIInv, program = "timer", program' = program, NEW t \in {Main, Waiter},
         signal_catcher(t)
  PROVE  TimerIInv'
<1> USE DEF Main, Waiter
<1>i. /\ PcOK /\ Unused /\ g \in TimerVariables
      /\ g.sem + g.waited + Owed(Main) + Owed(Waiter) = 2 * g.ticks
  BY DEF TimerIInv, PostsAccounted
<1>1. PcOK' /\ Unused' BY <1>i DEF signal_catcher, NoSync, PcOK, Unused
<1>t. g.sem \in Nat /\ g.sem + 1 \in Nat /\ g.waited \in Nat /\ g.ticks \in Nat
  BY <1>i DEF TimerVariables
<1>2. CASE g.stage[t] = "first" /\ g' = [g EXCEPT !.stage[t] = "second", !.sem = @ + 1]
  <2>0. g' = [g EXCEPT !.stage[t] = "second", !.sem = g.sem + 1] BY <1>2
  <2>1. g' \in TimerVariables BY <1>i, <1>t, <2>0 DEF TimerVariables
  <2>2. /\ g'.sem = g.sem + 1 /\ g'.waited = g.waited /\ g'.ticks = g.ticks
        /\ g'.stage[t] = "second" /\ \A u \in {Main, Waiter} \ {t} : g'.stage[u] = g.stage[u]
    BY <1>i, <2>0 DEF TimerVariables
  <2>3. g'.sem + g'.waited + Owed(Main)' + Owed(Waiter)' = 2 * g'.ticks
    BY <1>i, <1>t, <1>2, <2>2 DEF Owed
  <2> QED BY <1>1, <2>1, <2>3 DEF TimerIInv, PostsAccounted
<1>3. CASE g.stage[t] = "second" /\ g' = [g EXCEPT !.stage[t] = "print", !.sem = @ + 1]
  <2>0. g' = [g EXCEPT !.stage[t] = "print", !.sem = g.sem + 1] BY <1>3
  <2>1. g' \in TimerVariables BY <1>i, <1>t, <2>0 DEF TimerVariables
  <2>2. /\ g'.sem = g.sem + 1 /\ g'.waited = g.waited /\ g'.ticks = g.ticks
        /\ g'.stage[t] = "print" /\ \A u \in {Main, Waiter} \ {t} : g'.stage[u] = g.stage[u]
    BY <1>i, <2>0 DEF TimerVariables
  <2>3. g'.sem + g'.waited + Owed(Main)' + Owed(Waiter)' = 2 * g'.ticks
    BY <1>i, <1>t, <1>3, <2>2 DEF Owed
  <2> QED BY <1>1, <2>1, <2>3 DEF TimerIInv, PostsAccounted
<1>4. ASSUME NEW l \in {"out", "stuck"}, g.stage[t] = "print", g' = [g EXCEPT !.stage[t] = l]
      PROVE  TimerIInv'
  <2>1. g' \in TimerVariables BY <1>i, <1>4 DEF TimerVariables
  <2>2. /\ g'.sem = g.sem /\ g'.waited = g.waited /\ g'.ticks = g.ticks
        /\ g'.stage[t] = l /\ \A u \in {Main, Waiter} \ {t} : g'.stage[u] = g.stage[u]
    BY <1>i, <1>4 DEF TimerVariables
  <2>3. g'.sem + g'.waited + Owed(Main)' + Owed(Waiter)' = 2 * g'.ticks
    BY <1>i, <1>t, <1>4, <2>2 DEF Owed
  <2> QED BY <1>1, <2>1, <2>3 DEF TimerIInv, PostsAccounted
<1> QED BY <1>2, <1>3, <1>4 DEF signal_catcher

\* The timer expires.
LEMMA TickKeeps ==
  ASSUME TimerIInv, program = "timer", Tick
  PROVE  TimerIInv'
<1> USE DEF Main, Waiter
<1>i. /\ PcOK /\ Unused /\ g \in TimerVariables
      /\ g.sem + g.waited + Owed(Main) + Owed(Waiter) = 2 * g.ticks
  BY DEF TimerIInv, PostsAccounted
<1>1. program' = program /\ PcOK' /\ Unused'
  BY <1>i, NamedThreads DEF Tick, NoSync, Goto, PcOK, Unused
<1>t. g.sem \in Nat /\ g.waited \in Nat /\ g.ticks \in Nat /\ g.ticks + 1 \in Nat
  BY <1>i DEF TimerVariables
<1>2. PICK t \in {Main, Waiter} :
        g.stage[t] = "out" /\ g' = [g EXCEPT !.stage[t] = "first", !.ticks = @ + 1]
  BY DEF Tick
<1>0. g' = [g EXCEPT !.stage[t] = "first", !.ticks = g.ticks + 1] BY <1>2
<1>3. g' \in TimerVariables BY <1>i, <1>t, <1>0 DEF TimerVariables
<1>4. /\ g'.sem = g.sem /\ g'.waited = g.waited /\ g'.ticks = g.ticks + 1
      /\ g'.stage[t] = "first" /\ \A u \in {Main, Waiter} \ {t} : g'.stage[u] = g.stage[u]
  BY <1>i, <1>0 DEF TimerVariables
<1>5. g'.sem + g'.waited + Owed(Main)' + Owed(Waiter)' = 2 * g'.ticks
  BY <1>i, <1>t, <1>2, <1>4 DEF Owed
<1> QED BY <1>1, <1>3, <1>5 DEF TimerIInv, PostsAccounted

\* The program's own steps preserve TimerIInv.
LEMMA TimerStepKeeps ==
  ASSUME TimerIInv, program = "timer", NEW t \in Threads, TimerStep(t)
  PROVE  TimerIInv'
<1> USE NamedThreads DEF Main, Waiter, At, Goto, NoSync, Local, Ended
<1>0. program' = program BY DEF TimerStep
<1>i. /\ PcOK /\ Unused /\ g \in TimerVariables
      /\ g.sem + g.waited + Owed(Main) + Owed(Waiter) = 2 * g.ticks
  BY DEF TimerIInv, PostsAccounted
<1>t. g.sem \in Nat /\ g.waited \in Nat /\ g.ticks \in Nat BY <1>i DEF TimerVariables
\* A step outside the handler.
<1>3. ASSUME PcOK', Unused', g' \in TimerVariables, g'.sem + g'.waited = g.sem + g.waited,
             g'.ticks = g.ticks, g'.stage = g.stage
      PROVE  TimerIInv'
  <2>1. Owed(Main)' = Owed(Main) /\ Owed(Waiter)' = Owed(Waiter) BY <1>3 DEF Owed
  <2>2. g'.sem + g'.waited + Owed(Main)' + Owed(Waiter)' = 2 * g'.ticks BY <1>i, <1>3, <2>1
  <2> QED BY <1>0, <1>3, <2>2 DEF TimerIInv, PostsAccounted
<1>1. CASE TimerMain
  <2>1. PcOK' /\ Unused' BY <1>i, <1>1 DEF TimerMain, Create, Join, PcOK, Unused
  <2>2. g' \in TimerVariables BY <1>i, <1>1 DEF TimerMain, Join, TimerVariables
  <2>3. g'.sem = g.sem /\ g'.waited = g.waited /\ g'.ticks = g.ticks /\ g'.stage = g.stage
    BY <1>i, <1>1 DEF TimerMain, Join, TimerVariables
  <2> QED BY <1>3, <2>1, <2>2, <2>3
<1>2. CASE sem_waiter
  <2>1. PcOK' /\ Unused' BY <1>i, <1>2 DEF sem_waiter, PcOK, Unused
  <2>2. g' = g \/ (g.sem > 0 /\ g' = [g EXCEPT !.sem = @ - 1, !.waited = @ + 1])
    BY <1>2 DEF sem_waiter
  <2>3. CASE g' = g BY <1>i, <1>3, <2>1, <2>3
  <2>4. CASE g.sem > 0 /\ g' = [g EXCEPT !.sem = @ - 1, !.waited = @ + 1]
    <3>1. g' = [g EXCEPT !.sem = g.sem - 1, !.waited = g.waited + 1] BY <2>4
    <3>2. g.sem - 1 \in Nat /\ g.waited + 1 \in Nat BY <1>t, <2>4
    <3>3. g' \in TimerVariables BY <1>i, <3>1, <3>2 DEF TimerVariables
    <3>4. /\ g'.sem = g.sem - 1 /\ g'.waited = g.waited + 1 /\ g'.ticks = g.ticks
          /\ g'.stage = g.stage
      BY <1>i, <3>1 DEF TimerVariables
    <3>5. g'.sem + g'.waited = g.sem + g.waited BY <1>t, <3>4
    <3> QED BY <1>3, <2>1, <3>3, <3>4, <3>5
  <2> QED BY <2>2, <2>3, <2>4
<1>4. CASE t \in {Main, Waiter} /\ signal_catcher(t) BY <1>0, <1>4, CatcherKeeps
<1> QED BY <1>1, <1>2, <1>4 DEF TimerStep

\* No step, whichever program runs, breaks TimerIInv.
LEMMA TimerKept == TimerIInv /\ [Next]_vars => TimerIInv'
<1> SUFFICES ASSUME TimerIInv, [Next]_vars, program = "timer" PROVE TimerIInv'
  BY Dispatch DEF TimerIInv
<1>1. CASE Spurious BY <1>1 DEF Spurious, TimerIInv, Unused
<1>2. CASE UNCHANGED vars BY <1>2 DEF vars, TimerIInv, PcOK, Unused, PostsAccounted, Owed
<1>3. CASE Tick BY <1>3, TickKeeps
<1> QED BY <1>1, <1>2, <1>3, TimerStepKeeps, Dispatch

\* The second thread of semaOrder.c prints after the first, and of the posts
\* that the handler of semaphore_signal.c makes none is lost or used twice,
\* whatever the number of waits and however the signals interrupt them.
THEOREM SemaphoreCorrect == Spec => []SemaphoreInv
<1>1. TimerIInv => PostsAccounted BY DEF TimerIInv, PostsAccounted
<1> QED
  BY <1>1, OrderImplies, OrderInitial, OrderKept, TimerInitial, TimerKept, PTL
     DEF Spec, SemaphoreInv

-----------------------------------------------------------------------------
(* Streams.                                                                *)

\* flock.c: a thread has stdout locked from before its prompt until after the
\* answer.
FlockIInv ==
  program = "flock" =>
    /\ PcOK /\ Unused /\ AnswersOwnPrompt
    /\ g \in [stdin : Threads \cup {None}, shown : Threads \cup {None}, joined : Nat,
              answer : [Writers -> Threads \cup {None}]]
    /\ \A t \in Writers : pc[t] \in {"prompt", "fgets", "funlock"} => mutex = t

\* The writers are threads, and main is not one of them.
LEMMA WritersAreThreads == Writers \subseteq Threads /\ Main \notin Writers
BY NamedThreads DEF Writers, Main, Threads

\* Init establishes FlockIInv.
LEMMA FlockInitial == Init => FlockIInv
<1> SUFFICES ASSUME Init, program = "flock" PROVE FlockIInv BY DEF FlockIInv
<1>1. FlockInit BY InitialState
<1>2. PcOK /\ Unused BY <1>1 DEF FlockInit, Start, PcOK, Unused
<1>3. \A t \in Writers : pc[t] = "none" BY <1>1, WritersAreThreads DEF FlockInit, Start
<1>4. g = [stdin |-> None, shown |-> None, joined |-> 0, answer |-> [t \in Writers |-> None]]
  BY <1>1 DEF FlockInit, Start
<1>5. \A t \in Writers : g.answer[t] = None BY <1>4
<1>6. g \in [stdin : Threads \cup {None}, shown : Threads \cup {None}, joined : Nat,
             answer : [Writers -> Threads \cup {None}]]
  BY <1>4
<1> QED BY <1>2, <1>3, <1>5, <1>6 DEF FlockIInv, AnswersOwnPrompt, At

\* The program's own steps preserve FlockIInv.
LEMMA FlockStepKeeps ==
  ASSUME FlockIInv, program = "flock", NEW t \in Threads, FlockStep(t) \/ Answer
  PROVE  FlockIInv'
<1> USE NamedThreads, WritersAreThreads
    DEF FlockIInv, PcOK, Unused, AnswersOwnPrompt, At, Goto, NoSync, Local, Join, Printf, Lock, Unlock
<1> Main \in Threads BY DEF Main
<1>0. program' = program BY DEF FlockStep, Answer
<1>1. CASE FlockMain
  <2>1. CASE At(Main, "start") /\ NoSync /\ UNCHANGED g
             /\ pc' = [u \in Threads |->
                         IF u = Main THEN "say" ELSE IF u \in Writers THEN "begin" ELSE pc[u]]
    <3>1. \A u \in Writers : pc'[u] = "begin" BY <2>1
    <3>2. PcOK' BY <2>1
    <3> QED BY <1>0, <2>1, <3>1, <3>2
  <2>2. CASE g.joined < 3 /\ Printf(Main, "say", "join") /\ g' = [g EXCEPT !.shown = Main]
    <3>1. \A u \in Writers : pc'[u] = pc[u] BY <2>2
    <3>2. \A u \in Writers : pc[u] # "fgets" BY <2>2
    <3>3. /\ g'.answer = g.answer
          /\ g' \in [stdin : Threads \cup {None}, shown : Threads \cup {None}, joined : Nat,
                     answer : [Writers -> Threads \cup {None}]]
      BY <2>2
    <3>4. PcOK' /\ Unused' /\ mutex' = mutex BY <2>2
    <3> QED BY <1>0, <3>1, <3>2, <3>3, <3>4
  <2>3. CASE Join(Main, JoinOrder[g.joined + 1], "join", "tell") /\ UNCHANGED g
    <3>1. \A u \in Writers : pc'[u] = pc[u] BY <2>3
    <3> QED BY <1>0, <2>3, <3>1
  <2>4. CASE Printf(Main, "tell", "say") /\ g' = [g EXCEPT !.shown = Main, !.joined = @ + 1]
    <3>1. \A u \in Writers : pc'[u] = pc[u] BY <2>4
    <3>2. \A u \in Writers : pc[u] # "fgets" BY <2>4
    <3>5. g.joined + 1 \in Nat OBVIOUS
    <3>3. /\ g'.answer = g.answer
          /\ g' \in [stdin : Threads \cup {None}, shown : Threads \cup {None}, joined : Nat,
                     answer : [Writers -> Threads \cup {None}]]
      BY <2>4, <3>5
    <3>4. PcOK' /\ Unused' /\ mutex' = mutex BY <2>4
    <3> QED BY <1>0, <3>1, <3>2, <3>3, <3>4
  <2>5. CASE Local(Main, "say", "exit") /\ UNCHANGED g
    <3>1. \A u \in Writers : pc'[u] = pc[u] BY <2>5
    <3> QED BY <1>0, <2>5, <3>1
  <2> QED BY <1>1, <2>1, <2>2, <2>3, <2>4, <2>5 DEF FlockMain
<1>2. CASE t \in Writers /\ prompt_routine(t)
  <2> \A u \in Writers : u # None OBVIOUS
  <2>1. CASE g.stdin = None /\ Local(t, "begin", "stdout") /\ g' = [g EXCEPT !.stdin = t]
    BY <1>0, <1>2, <2>1
  <2>2. CASE Lock(t, "stdout", "prompt") /\ UNCHANGED g BY <1>0, <1>2, <2>2
  <2>3. CASE Local(t, "prompt", "fgets") /\ g' = [g EXCEPT !.shown = t]
    <3>1. \A u \in Writers \ {t} : pc'[u] = pc[u] /\ pc[u] # "fgets" BY <1>2, <2>3
    <3>2. pc'[t] = "fgets" /\ pc[t] = "prompt" BY <2>3
    <3>3. /\ g'.answer = g.answer /\ g'.shown = t
          /\ g' \in [stdin : Threads \cup {None}, shown : Threads \cup {None}, joined : Nat,
                     answer : [Writers -> Threads \cup {None}]]
      BY <2>3
    <3>4. PcOK' /\ Unused' /\ mutex' = mutex BY <2>3
    <3> QED BY <1>0, <1>2, <3>1, <3>2, <3>3, <3>4
  <2>5. CASE Unlock(t, "funlock", "stdin") /\ UNCHANGED g BY <1>0, <1>2, <2>5
  <2>6. CASE Local(t, "stdin", "return") /\ g' = [g EXCEPT !.stdin = None] BY <1>0, <1>2, <2>6
  <2>7. CASE Printf(t, "return", "done") /\ g' = [g EXCEPT !.shown = t]
    <3>1. \A u \in Writers : pc'[u] = pc[u] \/ pc'[u] = "done" BY <1>2, <2>7
    <3>2. \A u \in Writers : pc[u] # "fgets" BY <2>7
    <3>3. /\ g'.answer = g.answer
          /\ g' \in [stdin : Threads \cup {None}, shown : Threads \cup {None}, joined : Nat,
                     answer : [Writers -> Threads \cup {None}]]
      BY <2>7
    <3>4. PcOK' /\ Unused' /\ mutex' = mutex BY <2>7
    <3> QED BY <1>0, <3>1, <3>2, <3>3, <3>4
  <2> QED BY <1>2, <2>1, <2>2, <2>3, <2>5, <2>6, <2>7 DEF prompt_routine
<1>3. CASE Answer
  <2>1. PICK u \in Writers :
          Local(u, "fgets", "funlock") /\ g' = [g EXCEPT !.answer[u] = g.shown]
    BY <1>3 DEF Answer
  <2> QED BY <1>0, <2>1
<1> QED BY <1>1, <1>2, <1>3 DEF FlockStep

\* No step, whichever program runs, breaks FlockIInv.
LEMMA FlockKept == FlockIInv /\ [Next]_vars => FlockIInv'
<1> SUFFICES ASSUME FlockIInv, [Next]_vars, program = "flock" PROVE FlockIInv'
  BY Dispatch DEF FlockIInv
<1>1. CASE Spurious BY <1>1 DEF Spurious, FlockIInv, Unused
<1>2. CASE UNCHANGED vars BY <1>2 DEF vars, FlockIInv, PcOK, Unused, AnswersOwnPrompt, At
<1> QED BY <1>1, <1>2, FlockStepKeeps, Dispatch, NamedThreads

\* putchar.c with the lock: who has written and is not done has it, and whoever
\* writes has written everything since its first character.
PutcharIInv ==
  program = "putchar" =>
    /\ PcOK /\ Unused /\ LinesWhole
    /\ g \in [flag : BOOLEAN, out : Seq(Writers), n : [Writers -> Nat]]
    /\ pc[Main] = "start" => g.out = <<>> /\ \A t \in Writers : pc[t] = "none"
    /\ g.flag =>
         /\ \A i \in 1..Len(g.out) : pc[g.out[i]] \in {"put", "done"}
         /\ \A t \in Writers :
              pc[t] = "put" =>
                /\ mutex = t
                /\ \A i, j \in 1..Len(g.out) : i < j /\ g.out[i] = t => g.out[j] = t

\* Init establishes PutcharIInv.
LEMMA PutcharInitial == Init => PutcharIInv
<1> SUFFICES ASSUME Init, program = "putchar" PROVE PutcharIInv BY DEF PutcharIInv
<1>1. PutcharInit BY InitialState
<1>2. PcOK /\ Unused BY <1>1 DEF PutcharInit, Start, PcOK, Unused
<1>3. \A t \in Writers : pc[t] = "none" BY <1>1, WritersAreThreads DEF PutcharInit, Start
<1>4. PICK f \in BOOLEAN : g = [flag |-> f, out |-> <<>>, n |-> [t \in Writers |-> 0]]
  BY <1>1 DEF PutcharInit, Start
<1>5. g.out = <<>> /\ Len(g.out) = 0 BY <1>4
<1>6. g \in [flag : BOOLEAN, out : Seq(Writers), n : [Writers -> Nat]] BY <1>4
<1>7. 1..Len(g.out) = {} BY <1>5
<1> QED BY <1>2, <1>3, <1>5, <1>6, <1>7 DEF PutcharIInv, LinesWhole

\* Appending a character of a thread that has written everything since its
\* first one breaks up no line.
LEMMA PutKeepsLines ==
  ASSUME NEW out \in Seq(Writers), NEW t \in Writers,
         \A i, j, k \in 1..Len(out) : i < j /\ j < k /\ out[i] = out[k] => out[j] = out[i],
         \A i, j \in 1..Len(out) : i < j /\ out[i] = t => out[j] = t
  PROVE  LET new == Append(out, t)
         IN  /\ \A i, j, k \in 1..Len(new) : i < j /\ j < k /\ new[i] = new[k] => new[j] = new[i]
             /\ \A i, j \in 1..Len(new) : i < j /\ new[i] = t => new[j] = t
<1> DEFINE new == Append(out, t)
<1>1. /\ Len(new) = Len(out) + 1 /\ new[Len(out) + 1] = t
      /\ \A i \in 1..Len(out) : new[i] = out[i]
  BY AppendProperties
<1>2. Len(out) \in Nat OBVIOUS
<1> HIDE DEF new
<1>3. ASSUME NEW i \in 1..Len(new), NEW j \in 1..Len(new), i < j, new[i] = t PROVE new[j] = t
  <2>1. i \in 1..Len(out) BY <1>1, <1>2, <1>3
  <2>2. j = Len(out) + 1 \/ j \in 1..Len(out) BY <1>1, <1>2
  <2> QED BY <1>1, <1>3, <2>1, <2>2
<1>4. ASSUME NEW i \in 1..Len(new), NEW j \in 1..Len(new), NEW k \in 1..Len(new),
             i < j, j < k, new[i] = new[k]
      PROVE  new[j] = new[i]
  <2>1. i \in 1..Len(out) /\ j \in 1..Len(out) BY <1>1, <1>2, <1>4
  <2>2. k = Len(out) + 1 \/ k \in 1..Len(out) BY <1>1, <1>2
  <2> QED BY <1>1, <1>4, <2>1, <2>2
<1> QED BY <1>3, <1>4 DEF new

\* The program's own steps preserve PutcharIInv.
LEMMA PutcharStepKeeps ==
  ASSUME PutcharIInv, program = "putchar", NEW t \in Threads, PutcharStep(t)
  PROVE  PutcharIInv'
<1> USE NamedThreads, WritersAreThreads
    DEF PutcharIInv, PcOK, Unused, At, Goto, NoSync, Local, Printf, Lock, Unlock
<1> Main \in Threads BY DEF Main
<1>0. program' = program BY DEF PutcharStep
<1>w. \A i \in 1..Len(g.out) : g.out[i] \in Writers BY ElementOfSeq
<1>1. CASE PutcharMain
  <2>1. \A u \in Writers : pc'[u] = "begin" BY <1>1 DEF PutcharMain
  <2>2. PcOK' /\ Unused' /\ g' = g /\ g.out = <<>> /\ pc'[Main] = "done" BY <1>1 DEF PutcharMain
  <2>3. 1..Len(g'.out) = {} BY <2>2
  <2>4. LinesWhole' BY <2>3 DEF LinesWhole
  <2> QED BY <1>0, <2>1, <2>2, <2>3, <2>4
\* A step that writes nothing.
<1>2. ASSUME t \in Writers, g' = g, Unused', NEW l, pc' = [pc EXCEPT ![t] = l], pc[t] # "none",
             pc[t] \in {"put", "done"} => l \in {"put", "done"},
             l = "put" => mutex' = t /\ pc[t] = "flock",
             \A u \in Writers \ {t} : pc[u] = "put" => mutex' = mutex
      PROVE  PutcharIInv'
  <2>1. PcOK' /\ pc'[t] = l /\ \A u \in Threads \ {t} : pc'[u] = pc[u] BY <1>2
  <2>2. LinesWhole' BY <1>0, <1>2 DEF LinesWhole
  <2>3. pc'[Main] # "start" BY <1>2, <2>1
  <2>4. ASSUME g.flag PROVE \A i \in 1..Len(g.out) : pc'[g.out[i]] \in {"put", "done"}
    <3> TAKE i \in 1..Len(g.out)
    <3>1. g.out[i] \in Writers /\ pc[g.out[i]] \in {"put", "done"} BY <1>w, <2>4
    <3>2. CASE g.out[i] = t BY <1>2, <2>1, <3>1, <3>2
    <3>3. CASE g.out[i] # t BY <2>1, <3>1, <3>3
    <3> QED BY <3>2, <3>3
  <2>5. ASSUME g.flag, NEW u \in Writers, pc'[u] = "put"
        PROVE  /\ mutex' = u
               /\ \A i, j \in 1..Len(g.out) : i < j /\ g.out[i] = u => g.out[j] = u
    <3>1. CASE u # t
      <4>1. pc[u] = "put" BY <2>1, <2>5, <3>1
      <4>2. mutex' = mutex BY <1>2, <3>1, <4>1
      <4> QED BY <2>5, <4>1, <4>2
    <3>2. CASE u = t
      <4>1. mutex' = t /\ pc[t] = "flock" BY <1>2, <2>1, <2>5, <3>2
      <4>2. \A i \in 1..Len(g.out) : g.out[i] # t BY <2>5, <4>1
      <4> QED BY <3>2, <4>1, <4>2
    <3> QED BY <3>1, <3>2
  <2> QED BY <1>0, <1>2, <2>1, <2>2, <2>3, <2>4, <2>5
<1>3. CASE t \in Writers /\ g.flag /\ lock_routine(t)
  <2>1. CASE Printf(t, "begin", "flock") /\ UNCHANGED g BY <1>2, <1>3, <2>1
  <2>2. CASE Lock(t, "flock", "put") /\ UNCHANGED g
    <3>1. \A u \in Writers : pc[u] # "put" BY <1>3, <2>2
    <3> QED BY <1>2, <1>3, <2>2, <3>1
  <2>3. CASE Unlock(t, "put", "done") /\ UNCHANGED g
    <3>1. mutex = t BY <1>3, <2>3
    <3>2. \A u \in Writers \ {t} : pc[u] # "put" BY <1>3, <3>1
    <3> QED BY <1>2, <1>3, <2>3, <3>2
  <2>4. CASE Local(t, "put", "put") /\ Put(t)
    <3> DEFINE new == Append(g.out, t)
    <3>1. g' = [g EXCEPT !.out = Append(@, t), !.n[t] = @ + 1] BY <2>4 DEF Put
    <3>2. g'.out = new /\ g'.flag = g.flag BY <3>1
    <3>3. new \in Seq(Writers) /\ g.n[t] + 1 \in Nat BY <1>3, AppendProperties
    <3>4. g' \in [flag : BOOLEAN, out : Seq(Writers), n : [Writers -> Nat]] BY <1>3, <3>1, <3>3
    <3>5. mutex = t /\ \A i, j \in 1..Len(g.out) : i < j /\ g.out[i] = t => g.out[j] = t
      BY <1>3, <2>4
    <3>6. /\ \A i, j, k \in 1..Len(new) : i < j /\ j < k /\ new[i] = new[k] => new[j] = new[i]
          /\ \A i, j \in 1..Len(new) : i < j /\ new[i] = t => new[j] = t
      <4>1. \A i, j, k \in 1..Len(g.out) :
              i < j /\ j < k /\ g.out[i] = g.out[k] => g.out[j] = g.out[i]
        BY <1>3 DEF LinesWhole
      <4> QED BY <1>3, <3>5, <4>1, PutKeepsLines
    <3>7. /\ Len(new) = Len(g.out) + 1 /\ new[Len(g.out) + 1] = t
          /\ \A i \in 1..Len(g.out) : new[i] = g.out[i]
      BY <1>3, AppendProperties
    <3> HIDE DEF new
    <3>8. \A u \in Threads : pc'[u] = pc[u] BY <2>4
    <3>9. \A i \in 1..Len(new) : pc[new[i]] \in {"put", "done"}
      <4> TAKE i \in 1..Len(new)
      <4>1. i \in 1..Len(g.out) \/ i = Len(g.out) + 1 BY <3>7
      <4> QED BY <1>3, <2>4, <3>7, <4>1
    <3>10. \A u \in Writers \ {t} : pc[u] # "put" BY <1>3, <3>5
    <3>11. PcOK' /\ Unused' /\ mutex' = mutex BY <2>4
    <3>12. LinesWhole'
      <4> HIDE DEF PutcharIInv
      <4> QED BY <3>2, <3>6 DEF LinesWhole
    <3>13. \A i \in 1..Len(g'.out) : pc'[g'.out[i]] \in {"put", "done"}
      <4> HIDE DEF PutcharIInv
      <4>1. \A i \in 1..Len(new) : new[i] \in Threads BY <3>3, ElementOfSeq
      <4>2. \A i \in 1..Len(new) : pc'[new[i]] \in {"put", "done"} BY <3>8, <3>9, <4>1
      <4> QED BY <3>2, <4>2
    <3>15. \A u \in Writers :
             pc'[u] = "put" =>
               /\ mutex' = u
               /\ \A i, j \in 1..Len(g'.out) : i < j /\ g'.out[i] = u => g'.out[j] = u
      <4> HIDE DEF PutcharIInv
      <4> TAKE u \in Writers
      <4> HAVE pc'[u] = "put"
      <4>1. u = t BY <3>8, <3>10
      <4> QED BY <3>2, <3>5, <3>6, <3>11, <4>1
    <3>14. pc'[Main] # "start"
      <4>1. pc[t] # "none" BY <2>4
      <4> QED BY <1>3, <3>8, <4>1
    <3>16. ASSUME PcOK', Unused', LinesWhole',
                  g' \in [flag : BOOLEAN, out : Seq(Writers), n : [Writers -> Nat]],
                  pc'[Main] # "start",
                  \A i \in 1..Len(g'.out) : pc'[g'.out[i]] \in {"put", "done"},
                  \A u \in Writers :
                    pc'[u] = "put" =>
                      /\ mutex' = u
                      /\ \A i, j \in 1..Len(g'.out) : i < j /\ g'.out[i] = u => g'.out[j] = u
           PROVE  PutcharIInv'
      <4> HIDE DEF PcOK, Unused
      <4> QED BY <3>16
    <3> HIDE DEF PutcharIInv
    <3> QED BY <3>4, <3>11, <3>12, <3>13, <3>14, <3>15, <3>16
  <2> QED BY <1>3, <2>1, <2>2, <2>3, <2>4 DEF lock_routine
<1>4. CASE t \in Writers /\ ~ g.flag /\ unlock_routine(t)
  <2>1. g' = g \/ g' = [g EXCEPT !.out = Append(@, t), !.n[t] = @ + 1]
    BY <1>4 DEF unlock_routine, Put
  <2>2. g.n[t] + 1 \in Nat /\ Append(g.out, t) \in Seq(Writers) BY <1>4, AppendProperties
  <2>3. g' \in [flag : BOOLEAN, out : Seq(Writers), n : [Writers -> Nat]] /\ ~ g'.flag
    <3>1. CASE g' = g BY <1>4, <3>1
    <3>2. CASE g' = [g EXCEPT !.out = Append(@, t), !.n[t] = @ + 1] BY <1>4, <2>2, <3>2
    <3> QED BY <2>1, <3>1, <3>2
  <2>4. PcOK' /\ Unused' /\ pc'[Main] = pc[Main] /\ pc[t] # "none" BY <1>4 DEF unlock_routine
  <2>5. pc'[Main] # "start" BY <1>4, <2>4
  <2> QED BY <1>0, <2>3, <2>4, <2>5 DEF LinesWhole
<1> QED BY <1>1, <1>3, <1>4 DEF PutcharStep

\* No step, whichever program runs, breaks PutcharIInv.
LEMMA PutcharKept == PutcharIInv /\ [Next]_vars => PutcharIInv'
<1> SUFFICES ASSUME PutcharIInv, [Next]_vars, program = "putchar" PROVE PutcharIInv'
  BY Dispatch DEF PutcharIInv
<1>1. CASE Spurious BY <1>1 DEF Spurious, PutcharIInv, Unused
<1>2. CASE UNCHANGED vars BY <1>2 DEF vars, PutcharIInv, PcOK, Unused, LinesWhole
<1> QED BY <1>1, <1>2, PutcharStepKeeps, Dispatch

\* In flock.c nothing comes between a prompt and the answer to it, and in
\* putchar.c no locked line is broken up, whatever the length of the lines.
THEOREM StreamCorrect == Spec => []StreamInv
<1>1. FlockIInv => AnswersOwnPrompt BY DEF FlockIInv, AnswersOwnPrompt
<1>2. PutcharIInv => LinesWhole BY DEF PutcharIInv, LinesWhole
<1> QED
  BY <1>1, <1>2, FlockInitial, FlockKept, PutcharInitial, PutcharKept, PTL DEF Spec, StreamInv

-----------------------------------------------------------------------------
(* Processes.                                                              *)

\* The variables of pipe.c.
PipeVariables ==
  [write : SUBSET Threads, read : SUBSET Threads, buffer : Nat, left : Nat, printed : Nat]

\* pipe.c: every message is still to be written, in the pipe, or printed; and
\* who has which end open.
PipeIInv ==
  program = "pipe" =>
    /\ PcOK /\ Unused
    /\ g \in PipeVariables
    /\ g.left + g.buffer + g.printed = Messages
    /\ pc[Main] \in {"start", "parent", "writer", "done", "killed"}
    /\ pc[Main] \notin {"done", "killed"} => Main \in g.write
    /\ pc[Main] = "done" => g.left = 0
    /\ pc[Main] \in {"start", "killed"} => pc[Reader] = "none"
    /\ pc[Reader] \in {"none", "begin", "reader", "done"}
    /\ pc[Reader] \in {"begin", "reader"} => Reader \in g.read
    /\ pc[Reader] = "done" => g.write = {} /\ g.buffer = 0

\* Init establishes PipeIInv.
LEMMA PipeInitial == Init => PipeIInv
<1> SUFFICES ASSUME Init, program = "pipe" PROVE PipeIInv BY DEF PipeIInv
<1>1. PipeInit BY InitialState
<1>2. PcOK /\ Unused /\ pc[Main] = "start" /\ pc[Reader] = "none"
  BY <1>1, NamedThreads DEF PipeInit, Start, PcOK, Unused, Main, Reader
<1>3. g.left = Messages /\ g.buffer = 0 /\ g.printed = 0 /\ g.write = {Main} /\ g \in PipeVariables
  BY <1>1, ProcessAssumption, NamedThreads DEF PipeInit, Start, PipeVariables, Main
<1>4. g.left + g.buffer + g.printed = Messages BY <1>3, ProcessAssumption
<1> QED BY <1>2, <1>3, <1>4 DEF PipeIInv

\* The program's own steps preserve PipeIInv.
LEMMA PipeStepKeeps ==
  ASSUME PipeIInv, program = "pipe", NEW t \in Threads, PipeStep(t)
  PROVE  PipeIInv'
<1> USE NamedThreads, ProcessAssumption DEF Main, Reader, At, Goto, NoSync, Local
<1>0. program' = program BY DEF PipeStep
<1>i. /\ PcOK /\ Unused /\ g \in PipeVariables
      /\ g.left + g.buffer + g.printed = Messages
      /\ pc[Main] \in {"start", "parent", "writer", "done", "killed"}
      /\ pc[Main] \notin {"done", "killed"} => Main \in g.write
      /\ pc[Main] = "done" => g.left = 0
      /\ pc[Main] \in {"start", "killed"} => pc[Reader] = "none"
      /\ pc[Reader] \in {"none", "begin", "reader", "done"}
      /\ pc[Reader] \in {"begin", "reader"} => Reader \in g.read
      /\ pc[Reader] = "done" => g.write = {} /\ g.buffer = 0
  BY DEF PipeIInv
<1>t. /\ g.left \in Nat /\ g.buffer \in Nat /\ g.printed \in Nat
      /\ g.write \in SUBSET Threads /\ g.read \in SUBSET Threads
  BY <1>i DEF PipeVariables
<1>s. g.left + g.buffer + g.printed = Messages BY <1>i
<1>1. CASE Create(Main, Reader, "start", "parent") /\ NoSync
           /\ g' = [g EXCEPT !.write = {Main, Reader}, !.read = {Main, Reader}]
  <2>1. g' = [g EXCEPT !.write = {Main, Reader}, !.read = {Main, Reader}] BY <1>1
  <2>2. g' \in PipeVariables BY <1>i, <2>1 DEF PipeVariables
  <2>3. /\ g'.write = {Main, Reader} /\ g'.read = {Main, Reader}
        /\ g'.left = g.left /\ g'.buffer = g.buffer /\ g'.printed = g.printed
    BY <1>i, <2>1 DEF PipeVariables
  <2>4. PcOK' /\ Unused' /\ pc'[Main] = "parent" /\ pc'[Reader] = "begin"
    BY <1>i, <1>1 DEF Create, PcOK, Unused
  <2> QED BY <1>0, <1>i, <2>2, <2>3, <2>4 DEF PipeIInv
<1>2. CASE Local(Main, "parent", "writer") /\ g' = [g EXCEPT !.read = @ \ {Main}]
  <2>1. g' \in PipeVariables BY <1>i, <1>2 DEF PipeVariables
  <2>2. /\ g'.write = g.write /\ g'.read = g.read \ {Main}
        /\ g'.left = g.left /\ g'.buffer = g.buffer /\ g'.printed = g.printed
    BY <1>i, <1>2 DEF PipeVariables
  <2>3. PcOK' /\ Unused' /\ pc[Main] = "parent" /\ pc'[Main] = "writer" /\ pc'[Reader] = pc[Reader]
    BY <1>i, <1>2 DEF PcOK, Unused
  <2> QED BY <1>0, <1>i, <2>1, <2>2, <2>3 DEF PipeIInv
<1>3. CASE g.left > 0 /\ Local(Main, "writer", "writer")
           /\ g' = [g EXCEPT !.left = @ - 1, !.buffer = @ + 1]
  <2>0. g.left - 1 \in Nat /\ g.buffer + 1 \in Nat BY <1>t, <1>3
  <2>1. g' \in PipeVariables BY <1>i, <1>3, <2>0 DEF PipeVariables
  <2>2. /\ g'.write = g.write /\ g'.read = g.read
        /\ g'.left = g.left - 1 /\ g'.buffer = g.buffer + 1 /\ g'.printed = g.printed
    BY <1>i, <1>3 DEF PipeVariables
  <2>3. PcOK' /\ Unused' /\ pc[Main] = "writer" /\ pc'[Main] = pc[Main] /\ pc'[Reader] = pc[Reader]
    BY <1>i, <1>3 DEF PcOK, Unused
  <2>4. g'.left + g'.buffer + g'.printed = Messages BY <1>s, <1>t, <2>2
  <2>5. pc[Reader] # "done" BY <1>i, <2>3
  <2> QED BY <1>0, <1>i, <2>1, <2>2, <2>3, <2>4, <2>5 DEF PipeIInv
<1>4. CASE g.left = 0 /\ Local(Main, "writer", "done") /\ g' = [g EXCEPT !.write = @ \ {Main}]
  <2>1. g' \in PipeVariables BY <1>i, <1>4 DEF PipeVariables
  <2>2. /\ g'.write = g.write \ {Main} /\ g'.read = g.read
        /\ g'.left = g.left /\ g'.buffer = g.buffer /\ g'.printed = g.printed
    BY <1>i, <1>4 DEF PipeVariables
  <2>3. PcOK' /\ Unused' /\ pc[Main] = "writer" /\ pc'[Main] = "done" /\ pc'[Reader] = pc[Reader]
    BY <1>i, <1>4 DEF PcOK, Unused
  <2> QED BY <1>0, <1>i, <1>4, <2>1, <2>2, <2>3 DEF PipeIInv
<1>5. CASE Local(Reader, "begin", "reader") /\ g' = [g EXCEPT !.write = @ \ {Reader}]
  <2>1. g' \in PipeVariables BY <1>i, <1>5 DEF PipeVariables
  <2>2. /\ g'.write = g.write \ {Reader} /\ g'.read = g.read
        /\ g'.left = g.left /\ g'.buffer = g.buffer /\ g'.printed = g.printed
    BY <1>i, <1>5 DEF PipeVariables
  <2>3. PcOK' /\ Unused' /\ pc[Reader] = "begin" /\ pc'[Reader] = "reader" /\ pc'[Main] = pc[Main]
    BY <1>i, <1>5 DEF PcOK, Unused
  <2> QED BY <1>0, <1>i, <2>1, <2>2, <2>3 DEF PipeIInv
<1>6. CASE g.buffer > 0 /\ Local(Reader, "reader", "reader")
           /\ g' = [g EXCEPT !.buffer = @ - 1, !.printed = @ + 1]
  <2>0. g.buffer - 1 \in Nat /\ g.printed + 1 \in Nat BY <1>t, <1>6
  <2>1. g' \in PipeVariables BY <1>i, <1>6, <2>0 DEF PipeVariables
  <2>2. /\ g'.write = g.write /\ g'.read = g.read
        /\ g'.left = g.left /\ g'.buffer = g.buffer - 1 /\ g'.printed = g.printed + 1
    BY <1>i, <1>6 DEF PipeVariables
  <2>3. PcOK' /\ Unused' /\ pc[Reader] = "reader" /\ pc'[Main] = pc[Main] /\ pc'[Reader] = pc[Reader]
    BY <1>i, <1>6 DEF PcOK, Unused
  <2>4. g'.left + g'.buffer + g'.printed = Messages BY <1>s, <1>t, <2>2
  <2> QED BY <1>0, <1>i, <2>1, <2>2, <2>3, <2>4 DEF PipeIInv
<1>7. CASE g.buffer = 0 /\ g.write = {} /\ Local(Reader, "reader", "done")
           /\ g' = [g EXCEPT !.read = @ \ {Reader}]
  <2>1. g' \in PipeVariables BY <1>i, <1>7 DEF PipeVariables
  <2>2. /\ g'.write = g.write /\ g'.read = g.read \ {Reader}
        /\ g'.left = g.left /\ g'.buffer = g.buffer /\ g'.printed = g.printed
    BY <1>i, <1>7 DEF PipeVariables
  <2>3. PcOK' /\ Unused' /\ pc[Reader] = "reader" /\ pc'[Reader] = "done" /\ pc'[Main] = pc[Main]
    BY <1>i, <1>7 DEF PcOK, Unused
  <2> QED BY <1>0, <1>i, <1>7, <2>1, <2>2, <2>3 DEF PipeIInv
<1>8. CASE Local(Main, "start", "parent") /\ UNCHANGED g
  <2>1. PcOK' /\ Unused' /\ pc[Main] = "start" /\ pc'[Main] = "parent" /\ pc'[Reader] = pc[Reader]
    BY <1>i, <1>8 DEF PcOK, Unused
  <2> QED BY <1>0, <1>i, <1>8, <2>1 DEF PipeIInv
<1>9. CASE g.left > 0 /\ g.read = {} /\ Local(Main, "writer", "killed")
           /\ g' = [g EXCEPT !.write = @ \ {Main}]
  <2>1. g' \in PipeVariables BY <1>i, <1>9 DEF PipeVariables
  <2>2. /\ g'.write = g.write \ {Main} /\ g'.read = g.read
        /\ g'.left = g.left /\ g'.buffer = g.buffer /\ g'.printed = g.printed
    BY <1>i, <1>9 DEF PipeVariables
  <2>3. PcOK' /\ Unused' /\ pc[Main] = "writer" /\ pc'[Main] = "killed" /\ pc'[Reader] = pc[Reader]
    BY <1>i, <1>9 DEF PcOK, Unused
  <2>4. pc[Reader] = "none" BY <1>i, <1>9, <2>3
  <2> QED BY <1>0, <1>i, <2>1, <2>2, <2>3, <2>4 DEF PipeIInv
<1> QED
  BY <1>1, <1>2, <1>3, <1>4, <1>5, <1>6, <1>7, <1>8, <1>9 DEF PipeStep, PipeFork, PipeParent, PipeChild

\* No step, whichever program runs, breaks PipeIInv.
LEMMA PipeKept == PipeIInv /\ [Next]_vars => PipeIInv'
<1> SUFFICES ASSUME PipeIInv, [Next]_vars, program = "pipe" PROVE PipeIInv'
  BY Dispatch DEF PipeIInv
<1>1. CASE Spurious BY <1>1 DEF Spurious, PipeIInv, Unused
<1>2. CASE UNCHANGED vars BY <1>2 DEF vars, PipeIInv, PcOK, Unused
<1> QED BY <1>1, <1>2, PipeStepKeeps, Dispatch

\* What PipeIInv says of the program.
LEMMA PipeImplies == PipeIInv => PipeWhole
<1> SUFFICES ASSUME PipeIInv, program = "pipe" PROVE PipeWhole BY DEF PipeWhole
<1> USE DEF PipeIInv
<1>1. g.left \in Nat /\ g.buffer \in Nat /\ g.printed \in Nat BY DEF PipeVariables
<1>2. pc[Reader] = "done" => pc[Main] = "done" /\ g.left = 0 OBVIOUS
<1>3. pc[Main] = "writer" /\ g.left > 0 => Reader \in g.read \/ pc[Reader] = "none" BY <1>1, <1>2
<1>4. pc[Reader] = "done" => g.printed = Messages BY <1>1, <1>2, ProcessAssumption
<1> QED BY <1>3, <1>4 DEF PipeWhole, At

\* Where the parent of server-bee.c is in its loop.
LoopPlaces == {"accept", "continue", "fork", "close"}

\* The variables of server-bee.c.
BeeVariables ==
  [client : [Conns -> {"idle", "connected", "failed", "sent", "received", "empty"}],
   tries : [Conns -> Nat], queue : Seq(Conns), open : [Conns -> SUBSET Threads],
   sigchld : BOOLEAN, back : LoopPlaces, new : Conns \cup {None}, failed : SUBSET Conns]

\* Where the parent is, or goes on after the handler.
BeePlace == IF pc[Main] = "handler" THEN g.back ELSE pc[Main]

\* What a connected client waits for: to be accepted, forked for, or sent to; or a
\* fork or a send for it has failed.
BeeAwaits(c) ==
  \/ \E i \in 1..Len(g.queue) : g.queue[i] = c
  \/ c \in g.failed
  \/ BeePlace = "fork" /\ c = g.new /\ Main \in g.open[c]
  \/ pc[c] = "begin" /\ c \in g.open[c]

\* What holds for the connection c.
BeeConnection(c) ==
  /\ pc[c] = "zombie" => g.sigchld \/ pc[Main] = "handler"
  /\ Main \in g.open[c] => c = g.new /\ BeePlace \in {"fork", "close"}
  /\ g.client[c] = "connected" => BeeAwaits(c)
  /\ g.client[c] = "empty" => c \in g.failed

\* server-bee.c: a zombie is still to be reaped, the parent has no connection open
\* but the new one, and none but before its close, and every client is waiting for
\* what is still to come.
BeeIInv ==
  program = "server_bee" =>
    /\ PcOK /\ Unused
    /\ g \in BeeVariables
    /\ pc[Main] \in {"start", "handler"} \cup LoopPlaces
    /\ BeePlace \in {"fork", "close"} => g.new \in Conns
    /\ \A c \in Conns : BeeConnection(c)

\* The connections' processes are threads other than main.
LEMMA ConnsAreThreads == Conns \subseteq Threads /\ Main \notin Conns /\ Main \in Threads
BY PthreadsAssumption, ProcessAssumption DEF Conns, Threads, Main

\* Init establishes BeeIInv.
LEMMA BeeInitial == Init => BeeIInv
<1> SUFFICES ASSUME Init, program = "server_bee" PROVE BeeIInv BY DEF BeeIInv
<1>1. BeeInit BY InitialState
<1>2. PcOK /\ Unused /\ pc[Main] = "start" BY <1>1, ConnsAreThreads DEF BeeInit, Start, PcOK, Unused
<1>3. \A c \in Conns : pc[c] = "none" BY <1>1, ConnsAreThreads DEF BeeInit, Start
<1>4. g = [client |-> [c \in Conns |-> "idle"], tries |-> [c \in Conns |-> 0], queue |-> <<>>,
           open |-> [c \in Conns |-> {}], sigchld |-> FALSE, back |-> "accept", new |-> None,
           failed |-> {}]
  BY <1>1 DEF BeeInit, Start
<1>5. g \in BeeVariables BY <1>4 DEF BeeVariables, LoopPlaces
<1>6. \A c \in Conns : g.open[c] = {} /\ g.client[c] = "idle" BY <1>4
<1>7. BeePlace = "start" BY <1>2 DEF BeePlace
<1> QED BY <1>2, <1>3, <1>5, <1>6, <1>7 DEF BeeIInv, BeeConnection

\* What a step of server-bee.c has to leave true when it neither takes a
\* connection from the queue nor forks or closes one.
LEMMA BeeFrame ==
  ASSUME BeeIInv, program = "server_bee", program' = program, PcOK', Unused',
         g' \in BeeVariables, g'.queue = g.queue, g'.new = g.new, g.failed \subseteq g'.failed,
         pc'[Main] \in {"start", "handler"} \cup LoopPlaces,
         \/ BeePlace' = BeePlace
         \/ BeePlace \notin {"fork", "close"} /\ BeePlace' \notin {"fork", "close"},
         \A c \in Conns :
           /\ Main \in g'.open[c] <=> Main \in g.open[c]
           /\ pc'[c] = "zombie" => g'.sigchld \/ pc'[Main] = "handler"
           /\ g'.client[c] = "connected" => g.client[c] = "connected"
           /\ g'.client[c] = "connected" /\ c \notin g'.failed /\ pc[c] = "begin" /\ c \in g.open[c]
                => pc'[c] = "begin" /\ c \in g'.open[c]
           /\ g'.client[c] = "empty" => g.client[c] = "empty" \/ c \in g'.failed
  PROVE  BeeIInv'
<1>1. BeePlace' \in {"fork", "close"} => g'.new \in Conns BY DEF BeeIInv
<1>2. ASSUME NEW c \in Conns PROVE BeeConnection(c)'
  <2>1. BeeConnection(c) BY DEF BeeIInv
  <2>2. Main \in g'.open[c] => c = g'.new /\ BeePlace' \in {"fork", "close"}
    BY <2>1 DEF BeeConnection
  <2>3. ASSUME g'.client[c] = "connected" PROVE BeeAwaits(c)'
    <3>1. BeeAwaits(c) BY <2>1, <2>3 DEF BeeConnection
    <3>2. CASE \E i \in 1..Len(g.queue) : g.queue[i] = c BY <3>2 DEF BeeAwaits
    <3>3. CASE c \in g.failed BY <3>3 DEF BeeAwaits
    <3>4. CASE BeePlace = "fork" /\ c = g.new /\ Main \in g.open[c] BY <3>4 DEF BeeAwaits
    <3>5. CASE pc[c] = "begin" /\ c \in g.open[c]
      <4>1. CASE c \in g'.failed BY <4>1 DEF BeeAwaits
      <4>2. CASE c \notin g'.failed
        <5>1. pc'[c] = "begin" /\ c \in g'.open[c] BY <2>3, <3>5, <4>2
        <5> QED BY <5>1 DEF BeeAwaits
      <4> QED BY <4>1, <4>2
    <3> QED BY <3>1, <3>2, <3>3, <3>4, <3>5 DEF BeeAwaits
  <2>4. g'.client[c] = "empty" => c \in g'.failed BY <2>1 DEF BeeConnection
  <2> QED BY <2>2, <2>3, <2>4 DEF BeeConnection
<1> QED BY <1>1, <1>2 DEF BeeIInv

\* The parent accepts a connection.
LEMMA BeeAcceptKeeps ==
  ASSUME BeeIInv, program = "server_bee", program' = program,
         g.queue # <<>>, Local(Main, "accept", "fork"),
         g' = [g EXCEPT !.queue = Tail(@), !.new = Head(g.queue), !.open[Head(g.queue)] = {Main}]
  PROVE  BeeIInv'
<1> USE ConnsAreThreads DEF At, Goto, NoSync, Local
<1>i. PcOK /\ Unused /\ g \in BeeVariables /\ \A c \in Conns : BeeConnection(c) BY DEF BeeIInv
<1>1. g.queue \in Seq(Conns) BY <1>i DEF BeeVariables
<1> DEFINE h == Head(g.queue)
           q == Tail(g.queue)
<1>2. /\ h \in Conns /\ q \in Seq(Conns) /\ Len(q) = Len(g.queue) - 1
      /\ \A i \in 1..Len(q) : q[i] = g.queue[i + 1]
  BY <1>1, HeadTailProperties
<1>3. h = g.queue[1] /\ Len(g.queue) \in Nat \ {0} BY <1>1
<1>4. g' = [g EXCEPT !.queue = q, !.new = h, !.open = [g.open EXCEPT ![h] = {Main}]] OBVIOUS
<1> HIDE DEF h, q
<1>5. [g.open EXCEPT ![h] = {Main}] \in [Conns -> SUBSET Threads] BY <1>i, <1>2 DEF BeeVariables
<1>6. g' \in BeeVariables BY <1>i, <1>2, <1>4, <1>5 DEF BeeVariables
<1>f. /\ g'.queue = q /\ g'.new = h /\ g'.sigchld = g.sigchld /\ g'.client = g.client
      /\ g'.failed = g.failed /\ g'.open = [g.open EXCEPT ![h] = {Main}]
  BY <1>i, <1>4 DEF BeeVariables
<1>7. /\ g'.queue = q /\ g'.new = h /\ g'.sigchld = g.sigchld /\ g'.client = g.client
      /\ g'.failed = g.failed
      /\ g'.open[h] = {Main} /\ \A c \in Conns : c # h => g'.open[c] = g.open[c]
  BY <1>i, <1>2, <1>f DEF BeeVariables
<1>8. PcOK' /\ Unused' /\ pc[Main] = "accept" /\ pc'[Main] = "fork" /\ \A c \in Conns : pc'[c] = pc[c]
  BY <1>i DEF PcOK, Unused
<1>9. BeePlace = "accept" /\ BeePlace' = "fork" BY <1>8 DEF BeePlace
<1>10. ASSUME NEW c \in Conns PROVE BeeConnection(c)'
  <2>1. BeeConnection(c) BY <1>i
  <2>2. Main \in g'.open[c] => c = h BY <1>7, <1>9, <2>1 DEF BeeConnection
  <2>3. ASSUME g'.client[c] = "connected" PROVE BeeAwaits(c)'
    <3>1. CASE c = h BY <1>7, <1>9, <3>1 DEF BeeAwaits
    <3>2. CASE c # h
      <4>1. BeeAwaits(c) BY <1>7, <2>1, <2>3 DEF BeeConnection
      <4>2. CASE \E i \in 1..Len(g.queue) : g.queue[i] = c
        <5>1. PICK i \in 1..Len(g.queue) : g.queue[i] = c BY <4>2
        <5>2. i # 1 BY <1>3, <3>2, <5>1
        <5>3. i - 1 \in 1..Len(q) /\ (i - 1) + 1 = i BY <1>2, <1>3, <5>2
        <5>4. q[i - 1] = c BY <1>2, <5>1, <5>3
        <5>5. \E j \in 1..Len(g'.queue) : g'.queue[j] = c BY <1>7, <5>3, <5>4
        <5> QED BY <5>5 DEF BeeAwaits
      <4>3. CASE c \in g.failed BY <1>7, <4>3 DEF BeeAwaits
      <4>4. CASE pc[c] = "begin" /\ c \in g.open[c] BY <1>7, <1>8, <3>2, <4>4 DEF BeeAwaits
      <4> QED BY <1>9, <4>1, <4>2, <4>3, <4>4 DEF BeeAwaits
    <3> QED BY <3>1, <3>2
  <2> QED BY <1>7, <1>8, <1>9, <2>1, <2>2, <2>3 DEF BeeConnection
<1> QED BY <1>2, <1>6, <1>7, <1>8, <1>10 DEF BeeIInv, LoopPlaces

\* The parent forks, or fails to, and closes its copy of the connection.
LEMMA BeeForkKeeps ==
  ASSUME BeeIInv, program = "server_bee", program' = program, BeeFork
  PROVE  BeeIInv'
<1> USE ConnsAreThreads DEF At, Goto, NoSync, Local
<1> DEFINE n == g.new
<1>i. /\ PcOK /\ Unused /\ g \in BeeVariables /\ \A c \in Conns : BeeConnection(c)
      /\ BeePlace \in {"fork", "close"} => n \in Conns
  BY DEF BeeIInv
<1>p. pc[Main] \in {"fork", "close"} BY DEF BeeFork, Create
<1>0. BeePlace = pc[Main] /\ n \in Conns BY <1>i, <1>p DEF BeePlace
<1>o. g.open[n] \subseteq Threads /\ g.failed \subseteq Conns BY <1>i, <1>0 DEF BeeVariables
<1> HIDE DEF n
<1>1. CASE /\ Create(Main, n, "fork", "close") /\ NoSync
           /\ g' = [g EXCEPT !.open[n] = @ \cup {n}]
  <2>1. /\ PcOK' /\ Unused' /\ pc[Main] = "fork" /\ pc'[Main] = "close" /\ pc'[n] = "begin"
        /\ \A c \in Conns : c # n => pc'[c] = pc[c]
    BY <1>i, <1>0, <1>1 DEF PcOK, Unused, Create
  <2>2. g' = [g EXCEPT !.open = [g.open EXCEPT ![n] = g.open[n] \cup {n}]] BY <1>i, <1>1 DEF BeeVariables
  <2>3. [g.open EXCEPT ![n] = g.open[n] \cup {n}] \in [Conns -> SUBSET Threads]
    BY <1>i, <1>0, <1>o DEF BeeVariables
  <2>4. g' \in BeeVariables BY <1>i, <2>2, <2>3 DEF BeeVariables
  <2>5. /\ g'.queue = g.queue /\ g'.new = n /\ g.new = n /\ g'.sigchld = g.sigchld
        /\ g'.client = g.client /\ g'.failed = g.failed
        /\ g'.open[n] = g.open[n] \cup {n} /\ \A c \in Conns : c # n => g'.open[c] = g.open[c]
    BY <1>i, <1>0, <2>2 DEF BeeVariables, n
  <2>6. BeePlace = "fork" /\ BeePlace' = "close" BY <2>1 DEF BeePlace
  <2>7. ASSUME NEW c \in Conns PROVE BeeConnection(c)'
    <3>1. BeeConnection(c) BY <1>i
    <3>2. Main \in g'.open[c] => c = n BY <2>5, <3>1 DEF BeeConnection
    <3>3. ASSUME g'.client[c] = "connected" PROVE BeeAwaits(c)'
      <4>1. CASE c = n BY <2>1, <2>5, <4>1 DEF BeeAwaits
      <4>2. CASE c # n
        <5>1. BeeAwaits(c) BY <2>5, <3>1, <3>3 DEF BeeConnection
        <5> QED BY <2>1, <2>5, <4>2, <5>1 DEF BeeAwaits
      <4> QED BY <4>1, <4>2
    <3> QED BY <2>1, <2>5, <2>6, <3>1, <3>2, <3>3 DEF BeeConnection
  <2> QED BY <1>0, <2>1, <2>4, <2>5, <2>7 DEF BeeIInv, LoopPlaces
<1>2. CASE Local(Main, "fork", "close") /\ g' = [g EXCEPT !.failed = @ \cup {n}]
  <2>1. PcOK' /\ Unused' /\ pc[Main] = "fork" /\ pc'[Main] = "close" /\ \A c \in Conns : pc'[c] = pc[c]
    BY <1>i, <1>2 DEF PcOK, Unused
  <2>2. g' = [g EXCEPT !.failed = g.failed \cup {n}] BY <1>2
  <2>3. g' \in BeeVariables BY <1>i, <1>0, <1>o, <2>2 DEF BeeVariables
  <2>5. /\ g'.queue = g.queue /\ g'.new = n /\ g.new = n /\ g'.sigchld = g.sigchld
        /\ g'.client = g.client /\ g'.failed = g.failed \cup {n} /\ g'.open = g.open
    BY <1>i, <2>2 DEF BeeVariables, n
  <2>6. BeePlace = "fork" /\ BeePlace' = "close" BY <2>1 DEF BeePlace
  <2>7. ASSUME NEW c \in Conns PROVE BeeConnection(c)'
    <3>1. BeeConnection(c) BY <1>i
    <3>3. ASSUME g'.client[c] = "connected" PROVE BeeAwaits(c)'
      <4>1. CASE c = n BY <2>5, <4>1 DEF BeeAwaits
      <4>2. CASE c # n
        <5>1. BeeAwaits(c) BY <2>5, <3>1, <3>3 DEF BeeConnection
        <5> QED BY <2>1, <2>5, <4>2, <5>1 DEF BeeAwaits
      <4> QED BY <4>1, <4>2
    <3> QED BY <2>1, <2>5, <2>6, <3>1, <3>3 DEF BeeConnection
  <2> QED BY <1>0, <2>1, <2>3, <2>5, <2>7 DEF BeeIInv, LoopPlaces
<1>3. CASE Local(Main, "close", "accept") /\ g' = [g EXCEPT !.open[n] = @ \ {Main}]
  <2>1. PcOK' /\ Unused' /\ pc[Main] = "close" /\ pc'[Main] = "accept" /\ \A c \in Conns : pc'[c] = pc[c]
    BY <1>i, <1>3 DEF PcOK, Unused
  <2>2. g' = [g EXCEPT !.open = [g.open EXCEPT ![n] = g.open[n] \ {Main}]] BY <1>i, <1>3 DEF BeeVariables
  <2>3. [g.open EXCEPT ![n] = g.open[n] \ {Main}] \in [Conns -> SUBSET Threads]
    BY <1>i, <1>0, <1>o DEF BeeVariables
  <2>4. g' \in BeeVariables BY <1>i, <2>2, <2>3 DEF BeeVariables
  <2>5. /\ g'.queue = g.queue /\ g'.new = n /\ g.new = n /\ g'.sigchld = g.sigchld
        /\ g'.client = g.client /\ g'.failed = g.failed
        /\ g'.open[n] = g.open[n] \ {Main} /\ \A c \in Conns : c # n => g'.open[c] = g.open[c]
    BY <1>i, <1>0, <2>2 DEF BeeVariables, n
  <2>6. BeePlace = "close" /\ BeePlace' = "accept" BY <2>1 DEF BeePlace
  <2>7. ASSUME NEW c \in Conns PROVE BeeConnection(c)'
    <3>1. BeeConnection(c) BY <1>i
    <3>2. Main \notin g'.open[c] BY <2>5, <3>1 DEF BeeConnection
    <3>3. ASSUME g'.client[c] = "connected" PROVE BeeAwaits(c)'
      <4>1. BeeAwaits(c) BY <2>5, <3>1, <3>3 DEF BeeConnection
      <4>2. c \in g.open[c] => c \in g'.open[c] BY <2>5
      <4> QED BY <2>1, <2>5, <2>6, <4>1, <4>2 DEF BeeAwaits
    <3> QED BY <2>1, <2>5, <2>6, <3>1, <3>2, <3>3 DEF BeeConnection
  <2> QED BY <1>0, <2>1, <2>4, <2>5, <2>7 DEF BeeIInv, LoopPlaces
<1> QED BY <1>1, <1>2, <1>3 DEF BeeFork, n

\* A step of a client.
LEMMA BeeClientKeeps ==
  ASSUME BeeIInv, program = "server_bee", program' = program, NEW t \in Conns,
         BeeConnect(t) \/ BeeReceive(t), NoSync
  PROVE  BeeIInv'
<1> USE ConnsAreThreads
<1>i. /\ PcOK /\ Unused /\ g \in BeeVariables /\ \A c \in Conns : BeeConnection(c)
      /\ pc[Main] \in {"start", "handler"} \cup LoopPlaces
      /\ BeePlace \in {"fork", "close"} => g.new \in Conns
  BY DEF BeeIInv
<1>1. PcOK' /\ Unused' /\ pc' = pc BY <1>i DEF BeeConnect, BeeReceive, NoSync, PcOK, Unused
<1>q. /\ g.queue \in Seq(Conns) /\ Len(g.queue) \in Nat
      /\ g.tries[t] \in Nat /\ g.tries[t] + 1 \in Nat
  BY <1>i DEF BeeVariables
<1>2. ASSUME g' \in BeeVariables, g'.queue = g.queue, g'.new = g.new, g'.failed = g.failed,
             g'.open = g.open, g'.sigchld = g.sigchld, g'.back = g.back,
             \A c \in Conns :
               /\ g'.client[c] = "connected" => g.client[c] = "connected"
               /\ g'.client[c] = "empty" => g.client[c] = "empty" \/ c \in g.failed
      PROVE  BeeIInv'
  <2>1. BeePlace' = BeePlace BY <1>1, <1>2 DEF BeePlace
  <2>2. \A c \in Conns : pc'[c] = "zombie" => g'.sigchld \/ pc'[Main] = "handler"
    BY <1>i, <1>1, <1>2 DEF BeeConnection
  <2> QED BY <1>i, <1>1, <1>2, <2>1, <2>2, BeeFrame
<1>3. CASE g' = [g EXCEPT !.client[t] = "connected", !.queue = Append(@, t)]
  <2> DEFINE q == Append(g.queue, t)
  <2>1. /\ q \in Seq(Conns) /\ Len(q) = Len(g.queue) + 1 /\ q[Len(g.queue) + 1] = t
        /\ \A i \in 1..Len(g.queue) : q[i] = g.queue[i]
    BY <1>q, AppendProperties
  <2>2. g' = [g EXCEPT !.client[t] = "connected", !.queue = q] BY <1>3
  <2> HIDE DEF q
  <2>3. g' \in BeeVariables BY <1>i, <2>1, <2>2 DEF BeeVariables
  <2>4. /\ g'.queue = q /\ g'.new = g.new /\ g'.failed = g.failed /\ g'.open = g.open
        /\ g'.sigchld = g.sigchld /\ g'.back = g.back
        /\ g'.client[t] = "connected" /\ \A c \in Conns : c # t => g'.client[c] = g.client[c]
    BY <1>i, <2>2 DEF BeeVariables
  <2>5. BeePlace' = BeePlace BY <1>1, <2>4 DEF BeePlace
  <2>6. Len(g.queue) + 1 \in 1..Len(q) /\ 1..Len(g.queue) \subseteq 1..Len(q) BY <1>q, <2>1
  <2>7. ASSUME NEW c \in Conns PROVE BeeConnection(c)'
    <3>1. BeeConnection(c) BY <1>i
    <3>2. ASSUME g'.client[c] = "connected" PROVE BeeAwaits(c)'
      <4>1. CASE c = t
        <5>1. \E i \in 1..Len(g'.queue) : g'.queue[i] = c BY <2>1, <2>4, <2>6, <4>1
        <5> QED BY <5>1 DEF BeeAwaits
      <4>2. CASE c # t
        <5>1. BeeAwaits(c) BY <2>4, <3>1, <3>2, <4>2 DEF BeeConnection
        <5>2. CASE \E i \in 1..Len(g.queue) : g.queue[i] = c
          <6>1. \E i \in 1..Len(g'.queue) : g'.queue[i] = c BY <2>1, <2>4, <2>6, <5>2
          <6> QED BY <6>1 DEF BeeAwaits
        <5>3. CASE ~ \E i \in 1..Len(g.queue) : g.queue[i] = c
          BY <1>1, <2>4, <2>5, <5>1, <5>3 DEF BeeAwaits
        <5> QED BY <5>2, <5>3
      <4> QED BY <4>1, <4>2
    <3>3. g'.client[c] = "empty" => c \in g'.failed BY <2>4, <3>1 DEF BeeConnection
    <3> QED BY <1>1, <2>4, <2>5, <3>1, <3>2, <3>3 DEF BeeConnection
  <2> QED BY <1>i, <1>1, <2>3, <2>4, <2>5, <2>7 DEF BeeIInv
<1>4. CASE g' = [g EXCEPT !.tries[t] = @ + 1]
  <2>0. g' = [g EXCEPT !.tries[t] = g.tries[t] + 1] BY <1>4
  <2>1. g' \in BeeVariables BY <1>i, <1>q, <2>0 DEF BeeVariables
  <2>2. /\ g'.queue = g.queue /\ g'.new = g.new /\ g'.failed = g.failed /\ g'.open = g.open
        /\ g'.sigchld = g.sigchld /\ g'.back = g.back /\ g'.client = g.client
    BY <1>i, <2>0 DEF BeeVariables
  <2> QED BY <1>2, <2>1, <2>2
<1>5. ASSUME NEW l \in {"failed", "received", "empty"}, g' = [g EXCEPT !.client[t] = l],
             l = "empty" => t \in g.failed
      PROVE  BeeIInv'
  <2>1. g' \in BeeVariables BY <1>i, <1>5 DEF BeeVariables
  <2>2. /\ g'.queue = g.queue /\ g'.new = g.new /\ g'.failed = g.failed /\ g'.open = g.open
        /\ g'.sigchld = g.sigchld /\ g'.back = g.back
        /\ g'.client[t] = l /\ \A c \in Conns : c # t => g'.client[c] = g.client[c]
    BY <1>i, <1>5 DEF BeeVariables
  <2>3. \A c \in Conns :
          /\ g'.client[c] = "connected" => g.client[c] = "connected"
          /\ g'.client[c] = "empty" => g.client[c] = "empty" \/ c \in g.failed
    BY <1>5, <2>2
  <2> QED BY <1>2, <2>1, <2>2, <2>3
<1>6. CASE BeeConnect(t) BY <1>3, <1>4, <1>5, <1>6 DEF BeeConnect
<1>7. CASE BeeReceive(t)
  <2>1. CASE g' = [g EXCEPT !.client[t] = "received"] BY <1>5, <2>1
  <2>2. CASE /\ g.client[t] = "connected" /\ g.open[t] = {}
             /\ \A i \in 1..Len(g.queue) : g.queue[i] # t
             /\ g' = [g EXCEPT !.client[t] = "empty"]
    <3>1. BeeAwaits(t) BY <1>i, <2>2 DEF BeeConnection
    <3>2. t \in g.failed BY <2>2, <3>1 DEF BeeAwaits
    <3> QED BY <1>5, <2>2, <3>2
  <2> QED BY <1>7, <2>1, <2>2 DEF BeeReceive
<1> QED BY <1>6, <1>7

\* A step of the process of connection t.
LEMMA BeeChildKeeps ==
  ASSUME BeeIInv, program = "server_bee", program' = program, NEW t \in Conns, BeeChild(t)
  PROVE  BeeIInv'
<1> USE ConnsAreThreads DEF At, Goto, NoSync, Local
<1>i. /\ PcOK /\ Unused /\ g \in BeeVariables /\ \A c \in Conns : BeeConnection(c)
      /\ pc[Main] \in {"start", "handler"} \cup LoopPlaces
  BY DEF BeeIInv
<1>1. /\ PcOK' /\ Unused' /\ pc'[Main] = pc[Main]
      /\ \A c \in Conns : c # t => pc'[c] = pc[c]
  BY <1>i DEF BeeChild, PcOK, Unused
<1>z. \A c \in Conns : pc[c] = "zombie" => g.sigchld \/ pc[Main] = "handler"
  BY <1>i DEF BeeConnection
<1>2. CASE Local(t, "begin", "sent") /\ g' = [g EXCEPT !.client[t] = "sent"]
  <2>1. pc'[t] = "sent" BY <1>i, <1>2 DEF PcOK
  <2>2. g' \in BeeVariables BY <1>i, <1>2 DEF BeeVariables
  <2>3. /\ g'.queue = g.queue /\ g'.new = g.new /\ g'.failed = g.failed /\ g'.open = g.open
        /\ g'.sigchld = g.sigchld /\ g'.back = g.back
        /\ g'.client[t] = "sent" /\ \A c \in Conns : c # t => g'.client[c] = g.client[c]
    BY <1>i, <1>2 DEF BeeVariables
  <2>4. BeePlace' = BeePlace BY <1>1, <2>3 DEF BeePlace
  <2>5. \A c \in Conns :
          /\ Main \in g'.open[c] <=> Main \in g.open[c]
          /\ pc'[c] = "zombie" => g'.sigchld \/ pc'[Main] = "handler"
          /\ g'.client[c] = "connected" => g.client[c] = "connected"
          /\ g'.client[c] = "connected" /\ c \notin g'.failed /\ pc[c] = "begin" /\ c \in g.open[c]
                => pc'[c] = "begin" /\ c \in g'.open[c]
          /\ g'.client[c] = "empty" => g.client[c] = "empty" \/ c \in g'.failed
    BY <1>z, <1>1, <2>1, <2>3
  <2> QED BY <1>i, <1>1, <2>2, <2>3, <2>4, <2>5, BeeFrame
<1>3. CASE Local(t, "begin", "sent") /\ g' = [g EXCEPT !.failed = @ \cup {t}]
  <2>0. g' = [g EXCEPT !.failed = g.failed \cup {t}] BY <1>3
  <2>1. pc'[t] = "sent" BY <1>i, <1>3 DEF PcOK
  <2>2. g' \in BeeVariables BY <1>i, <2>0 DEF BeeVariables
  <2>3. /\ g'.queue = g.queue /\ g'.new = g.new /\ g'.failed = g.failed \cup {t}
        /\ g'.open = g.open /\ g'.sigchld = g.sigchld /\ g'.back = g.back /\ g'.client = g.client
    BY <1>i, <2>0 DEF BeeVariables
  <2>4. BeePlace' = BeePlace BY <1>1, <2>3 DEF BeePlace
  <2>5. \A c \in Conns :
          /\ Main \in g'.open[c] <=> Main \in g.open[c]
          /\ pc'[c] = "zombie" => g'.sigchld \/ pc'[Main] = "handler"
          /\ g'.client[c] = "connected" => g.client[c] = "connected"
          /\ g'.client[c] = "connected" /\ c \notin g'.failed /\ pc[c] = "begin" /\ c \in g.open[c]
                => pc'[c] = "begin" /\ c \in g'.open[c]
          /\ g'.client[c] = "empty" => g.client[c] = "empty" \/ c \in g'.failed
    BY <1>z, <1>1, <2>1, <2>3
  <2> QED BY <1>i, <1>1, <2>2, <2>3, <2>4, <2>5, BeeFrame
<1>4. CASE Local(t, "sent", "zombie") /\ g' = [g EXCEPT !.open[t] = @ \ {t}, !.sigchld = TRUE]
  <2>1. pc[t] = "sent" BY <1>4
  <2>0. g' = [g EXCEPT !.open = [g.open EXCEPT ![t] = g.open[t] \ {t}], !.sigchld = TRUE]
    BY <1>i, <1>4 DEF BeeVariables
  <2>a. [g.open EXCEPT ![t] = g.open[t] \ {t}] \in [Conns -> SUBSET Threads]
    BY <1>i DEF BeeVariables
  <2>2. g' \in BeeVariables BY <1>i, <2>0, <2>a DEF BeeVariables
  <2>3. /\ g'.queue = g.queue /\ g'.new = g.new /\ g'.failed = g.failed /\ g'.sigchld
        /\ g'.back = g.back /\ g'.client = g.client
        /\ g'.open[t] = g.open[t] \ {t} /\ \A c \in Conns : c # t => g'.open[c] = g.open[c]
    BY <1>i, <2>0 DEF BeeVariables
  <2>4. BeePlace' = BeePlace BY <1>1, <2>3 DEF BeePlace
  <2>5. \A c \in Conns :
          /\ Main \in g'.open[c] <=> Main \in g.open[c]
          /\ pc'[c] = "zombie" => g'.sigchld \/ pc'[Main] = "handler"
          /\ g'.client[c] = "connected" => g.client[c] = "connected"
          /\ g'.client[c] = "connected" /\ c \notin g'.failed /\ pc[c] = "begin" /\ c \in g.open[c]
                => pc'[c] = "begin" /\ c \in g'.open[c]
          /\ g'.client[c] = "empty" => g.client[c] = "empty" \/ c \in g'.failed
    BY <1>1, <2>1, <2>3
  <2> QED BY <1>i, <1>1, <2>2, <2>3, <2>4, <2>5, BeeFrame
<1> QED BY <1>2, <1>3, <1>4 DEF BeeChild

\* The parent's steps that leave the connections alone: its loop, a SIGCHLD and
\* the handler.
LEMMA BeeLoopKeeps ==
  ASSUME BeeIInv, program = "server_bee", program' = program,
         \/ Local(Main, "start", "accept") /\ UNCHANGED g
         \/ Local(Main, "continue", "accept") /\ UNCHANGED g
         \/ Local(Main, "accept", "continue") /\ UNCHANGED g
         \/ BeeSignal \/ sigchld_handler
  PROVE  BeeIInv'
<1> USE ConnsAreThreads DEF At, Goto, NoSync, Local
<1>i. /\ PcOK /\ Unused /\ g \in BeeVariables /\ \A c \in Conns : BeeConnection(c)
      /\ pc[Main] \in {"start", "handler"} \cup LoopPlaces
  BY DEF BeeIInv
<1>z. \A c \in Conns : pc[c] = "zombie" => g.sigchld \/ pc[Main] = "handler"
  BY <1>i DEF BeeConnection
<1>b. g.back \in LoopPlaces BY <1>i DEF BeeVariables
<1>1. ASSUME NEW l \in {"start", "continue", "accept"}, NEW m \in {"continue", "accept"},
             Local(Main, l, m), g' = g
      PROVE  BeeIInv'
  <2>1. PcOK' /\ Unused' /\ pc[Main] = l /\ pc'[Main] = m /\ \A c \in Conns : pc'[c] = pc[c]
    BY <1>i, <1>1 DEF PcOK, Unused
  <2>2. BeePlace = l /\ BeePlace' = m BY <1>1, <2>1 DEF BeePlace
  <2>3. \A c \in Conns : pc'[c] = "zombie" => g'.sigchld BY <1>z, <1>1, <2>1
  <2>4. BeePlace \notin {"fork", "close"} /\ BeePlace' \notin {"fork", "close"} BY <1>1, <2>2
  <2>5. pc'[Main] \in {"start", "handler"} \cup LoopPlaces BY <2>1 DEF LoopPlaces
  <2> QED BY <1>i, <1>1, <2>1, <2>3, <2>4, <2>5, BeeFrame
<1>2. CASE BeeSignal
  <2>1. pc[Main] \in LoopPlaces BY <1>2 DEF BeeSignal, LoopPlaces
  <2>2. PcOK' /\ Unused' /\ pc'[Main] = "handler" /\ \A c \in Conns : pc'[c] = pc[c]
    BY <1>i, <1>2 DEF BeeSignal, PcOK, Unused
  <2>3. g' = [g EXCEPT !.sigchld = FALSE, !.back = pc[Main]] BY <1>2 DEF BeeSignal
  <2>4. g' \in BeeVariables BY <1>i, <2>1, <2>3 DEF BeeVariables
  <2>5. /\ g'.queue = g.queue /\ g'.new = g.new /\ g'.failed = g.failed /\ g'.open = g.open
        /\ g'.back = pc[Main] /\ g'.client = g.client
    BY <1>i, <2>3 DEF BeeVariables
  <2>6. BeePlace' = BeePlace BY <2>1, <2>2, <2>5 DEF BeePlace, LoopPlaces
  <2> QED BY <1>i, <2>2, <2>4, <2>5, <2>6, BeeFrame
<1>3. CASE sigchld_handler
  <2>1. g' = g /\ Unused' /\ pc[Main] = "handler" BY <1>i, <1>3 DEF sigchld_handler, Unused
  <2>2. CASE \E c \in Conns : At(c, "zombie") /\ Goto(c, "done")
    <3>1. PICK d \in Conns : pc[d] = "zombie" /\ pc' = [pc EXCEPT ![d] = "done"] BY <2>2
    <3>2. PcOK' /\ pc'[Main] = "handler" /\ \A c \in Conns : pc[c] = "begin" => pc'[c] = "begin"
      BY <1>i, <2>1, <3>1 DEF PcOK
    <3>3. BeePlace' = BeePlace BY <2>1, <3>2 DEF BeePlace
    <3> QED BY <1>i, <2>1, <3>2, <3>3, BeeFrame
  <2>3. CASE (\A c \in Conns : ~ At(c, "zombie")) /\ Goto(Main, g.back)
    <3>2. PcOK' /\ pc'[Main] = g.back /\ \A c \in Conns : pc'[c] = pc[c] BY <1>i, <2>3 DEF PcOK
    <3>3. \A c \in Conns : pc'[c] # "zombie" BY <2>3, <3>2
    <3>4. BeePlace' = BeePlace BY <1>b, <2>1, <3>2 DEF BeePlace, LoopPlaces
    <3> QED BY <1>i, <1>b, <2>1, <3>2, <3>3, <3>4, BeeFrame
  <2> QED BY <1>3, <2>2, <2>3 DEF sigchld_handler
<1>4. CASE Local(Main, "start", "accept") /\ UNCHANGED g BY <1>1, <1>4
<1>5. CASE Local(Main, "continue", "accept") /\ UNCHANGED g BY <1>1, <1>5
<1>6. CASE Local(Main, "accept", "continue") /\ UNCHANGED g BY <1>1, <1>6
<1> QED BY <1>2, <1>3, <1>4, <1>5, <1>6

\* No step, whichever program runs, breaks BeeIInv.
LEMMA BeeKept == BeeIInv /\ [Next]_vars => BeeIInv'
<1> SUFFICES ASSUME BeeIInv, [Next]_vars, program = "server_bee" PROVE BeeIInv'
  BY Dispatch DEF BeeIInv
<1>0. program' = program BY Dispatch
<1>1. CASE Spurious BY <1>1 DEF Spurious, BeeIInv, Unused
<1>2. CASE UNCHANGED vars
  BY <1>2 DEF vars, BeeIInv, PcOK, Unused, BeePlace, BeeConnection, BeeAwaits
<1>3. CASE BeeAcceptFails BY <1>0, <1>3, BeeLoopKeeps DEF BeeAcceptFails
<1>4. ASSUME NEW t \in Threads, BeeStep(t) PROVE BeeIInv'
  <2>1. CASE BeeAccept BY <1>0, <2>1, BeeLoopKeeps, BeeAcceptKeeps DEF BeeAccept
  <2>2. CASE BeeFork BY <1>0, <2>2, BeeForkKeeps
  <2>3. CASE BeeSignal \/ sigchld_handler BY <1>0, <2>3, BeeLoopKeeps
  <2>4. CASE t \in Conns /\ BeeChild(t) BY <1>0, <2>4, BeeChildKeeps
  <2>5. CASE t \in Conns /\ (BeeConnect(t) \/ BeeReceive(t)) /\ NoSync BY <1>0, <2>5, BeeClientKeeps
  <2> QED BY <1>4, <2>1, <2>2, <2>3, <2>4, <2>5 DEF BeeStep
<1> QED BY <1>1, <1>2, <1>3, <1>4, Dispatch

\* What BeeIInv says of the program.
LEMMA BeeImplies == BeeIInv => NoZombieForgotten
<1> SUFFICES ASSUME BeeIInv, program = "server_bee" PROVE NoZombieForgotten
  BY DEF NoZombieForgotten
<1>1. \A c \in Conns : BeeConnection(c) BY DEF BeeIInv
<1> QED BY <1>1 DEF BeeConnection, BeePlace, NoZombieForgotten, At

\* The variables of socket-server.c and its clients.
ChatVariables ==
  [quit : [Conns -> BOOLEAN], queue : Seq(Conns), serving : Conns \cup {None}, said : BOOLEAN,
   guessed : BOOLEAN, length : SUBSET Conns, text : SUBSET Conns, printed : Seq(Conns)]

\* Where the server is in the service of a client, or of none: accept has failed.
Serving == {"server", "read", "freed", "close"}

\* What has been sent and not read, by where the clients are, and whom the
\* server serves.
ChatPlaces ==
  /\ pc[Main] \in {"start", "accept", "exit", "fault"} \cup Serving
  /\ pc[Main] \in {"start", "accept"} => g.serving = None
  /\ pc[Main] \in Serving /\ g.serving # None => pc[g.serving] # "none"
  /\ pc[Main] = "read" /\ g.serving # None =>
       g.serving \notin g.length /\ pc[g.serving] \in {"sleep", "close", "done"}
  /\ \A c \in g.length : pc[c] \in {"sleep", "close", "done"}
  /\ \A c \in g.text : pc[c] \in {"close", "done"}

\* The clients in the queue have come, once each, and are not being served.
ChatQueue ==
  \A i \in 1..Len(g.queue) :
    /\ pc[g.queue[i]] # "none"
    /\ pc[Main] \in Serving => g.queue[i] # g.serving
    /\ \A j \in 1..Len(g.queue) : i # j => g.queue[i] # g.queue[j]

\* The clients whose messages are printed have sent all, and none of it is
\* left; they are not in the queue, and none but the last said quit.
ChatPrinted ==
  \A i \in 1..Len(g.printed) :
    /\ pc[g.printed[i]] \in {"close", "done"}
    /\ g.printed[i] \notin g.length \cup g.text
    /\ i < Len(g.printed) => ~ g.quit[g.printed[i]]
    /\ pc[Main] = "read" => g.printed[i] # g.serving
    /\ \A j \in 1..Len(g.printed) : i # j => g.printed[i] # g.printed[j]
    /\ \A j \in 1..Len(g.queue) : g.queue[j] # g.printed[i]

\* The server knows whether the last message said quit, or guesses, and then ends.
ChatSaid ==
  /\ g.said <=> g.guessed \/ (Len(g.printed) > 0 /\ g.quit[g.printed[Len(g.printed)]])
  /\ g.said => pc[Main] \in {"close", "exit"}
  /\ pc[Main] = "exit" => g.said

\* socket-server.c.
ChatIInv ==
  program = "socket_server" =>
    /\ PcOK /\ Unused /\ g \in ChatVariables
    /\ ChatPlaces /\ ChatQueue /\ ChatPrinted /\ ChatSaid

\* Init establishes ChatIInv.
LEMMA ChatInitial == Init => ChatIInv
<1> SUFFICES ASSUME Init, program = "socket_server" PROVE ChatIInv BY DEF ChatIInv
<1>1. ChatInit BY InitialState
<1>2. PcOK /\ Unused /\ pc[Main] = "start" BY <1>1, ConnsAreThreads DEF ChatInit, Start, PcOK, Unused
<1>3. PICK q \in [Conns -> BOOLEAN] :
        g = [quit |-> q, queue |-> <<>>, serving |-> None, said |-> FALSE,
             guessed |-> FALSE, length |-> {}, text |-> {}, printed |-> <<>>]
  BY <1>1 DEF ChatInit, Start
<1>4. g \in ChatVariables BY <1>3 DEF ChatVariables
<1>5. /\ g.length = {} /\ g.text = {} /\ ~ g.said /\ ~ g.guessed /\ g.serving = None
      /\ g.queue = <<>> /\ Len(g.queue) = 0 /\ g.printed = <<>> /\ Len(g.printed) = 0
  BY <1>3
<1>6. 1..Len(g.queue) = {} /\ 1..Len(g.printed) = {} BY <1>5
<1>7. ChatPlaces /\ ChatSaid BY <1>2, <1>5 DEF ChatPlaces, ChatSaid, Serving
<1>8. ChatQueue /\ ChatPrinted BY <1>6 DEF ChatQueue, ChatPrinted
<1> QED BY <1>2, <1>4, <1>7, <1>8 DEF ChatIInv

\* A client's step.
LEMMA ChatClientKeeps ==
  ASSUME ChatIInv, program = "socket_server", program' = program, pc[Main] # "exit",
         NEW c \in Conns, ChatClient(c)
  PROVE  ChatIInv'
<1> USE ConnsAreThreads DEF At, Goto, NoSync, Local
<1>n. None \notin Conns BY NamedThreads
<1>i. /\ PcOK /\ Unused /\ g \in ChatVariables
      /\ ChatPlaces /\ ChatQueue /\ ChatPrinted /\ ChatSaid
  BY DEF ChatIInv
<1>t. /\ g.queue \in Seq(Conns) /\ g.printed \in Seq(Conns)
      /\ g.length \subseteq Conns /\ g.text \subseteq Conns
  BY <1>i DEF ChatVariables
<1>e. /\ \A i \in 1..Len(g.queue) : g.queue[i] \in Conns
      /\ \A i \in 1..Len(g.printed) : g.printed[i] \in Conns
  BY <1>t, ElementOfSeq
<1>1. PcOK' /\ Unused' BY <1>i DEF ChatClient, PcOK, Unused
<1>2. pc'[Main] = pc[Main] /\ \A d \in Conns \ {c} : pc'[d] = pc[d]
  BY <1>i DEF ChatClient, PcOK
<1>v. g.serving \in Conns \cup {None} BY <1>i DEF ChatVariables
<1>s. g.serving # None => pc'[g.serving] # "none" \/ pc[g.serving] = "none"
  BY <1>i, <1>v, <1>2 DEF ChatClient, PcOK
<1>3. CASE /\ ~ At(Main, "start") /\ Local(c, "none", "begin")
           /\ g' = [g EXCEPT !.queue = Append(@, c)]
  <2> DEFINE q == Append(g.queue, c)
  <2>1. /\ q \in Seq(Conns) /\ Len(q) = Len(g.queue) + 1 /\ q[Len(g.queue) + 1] = c
        /\ \A i \in 1..Len(g.queue) : q[i] = g.queue[i]
    BY <1>t, AppendProperties
  <2>0. g' = [g EXCEPT !.queue = q] BY <1>3
  <2> HIDE DEF q
  <2>2. g' \in ChatVariables BY <1>i, <2>0, <2>1 DEF ChatVariables
  <2>3. /\ g'.queue = q /\ g'.quit = g.quit /\ g'.serving = g.serving /\ g'.said = g.said /\ g'.guessed = g.guessed
        /\ g'.length = g.length /\ g'.text = g.text /\ g'.printed = g.printed
    BY <1>i, <2>0 DEF ChatVariables
  <2>4. pc[c] = "none" /\ pc'[c] = "begin" BY <1>i, <1>3 DEF PcOK
  <2>5. /\ \A i \in 1..Len(g.queue) : g.queue[i] # c
        /\ \A i \in 1..Len(g.printed) : g.printed[i] # c
        /\ c \notin g.length /\ c \notin g.text
        /\ pc[Main] \in Serving => g.serving # c
    BY <1>i, <1>n, <2>4 DEF ChatQueue, ChatPrinted, ChatPlaces
  <2>6. ChatPlaces' BY <1>i, <1>t, <1>v, <1>s, <1>2, <2>3, <2>5 DEF ChatPlaces
  <2>7. ChatQueue'
    <3>1. Len(g.queue) \in Nat BY <1>t
    <3>2. \A i \in 1..Len(q) : i = Len(g.queue) + 1 \/ i \in 1..Len(g.queue) BY <2>1, <3>1
    <3>3. \A i \in 1..Len(q) : pc'[q[i]] # "none"
      BY <1>i, <1>e, <1>2, <2>1, <2>4, <3>2 DEF ChatQueue
    <3>4. pc[Main] \in Serving => \A i \in 1..Len(q) : q[i] # g.serving
      BY <1>i, <2>1, <2>5, <3>2 DEF ChatQueue
    <3>5. \A i, j \in 1..Len(q) : i # j => q[i] # q[j]
      <4> TAKE i, j \in 1..Len(q)
      <4> HAVE i # j
      <4>1. CASE i = Len(g.queue) + 1 BY <2>1, <2>5, <3>2, <4>1
      <4>2. CASE j = Len(g.queue) + 1 BY <2>1, <2>5, <3>2, <4>2
      <4>3. CASE i \in 1..Len(g.queue) /\ j \in 1..Len(g.queue)
        BY <1>i, <2>1, <4>3 DEF ChatQueue
      <4> QED BY <3>2, <4>1, <4>2, <4>3
    <3> QED BY <1>2, <2>3, <3>3, <3>4, <3>5 DEF ChatQueue
  <2>8. ChatPrinted'
    <3>1. Len(g.queue) \in Nat BY <1>t
    <3>2. \A i \in 1..Len(q) : i = Len(g.queue) + 1 \/ i \in 1..Len(g.queue) BY <2>1, <3>1
    <3>3. \A i \in 1..Len(g.printed) : \A j \in 1..Len(q) : q[j] # g.printed[i]
      BY <1>i, <2>1, <2>5, <3>2 DEF ChatPrinted
    <3>4. \A i \in 1..Len(g.printed) : pc'[g.printed[i]] = pc[g.printed[i]]
      BY <1>e, <1>2, <2>5
    <3> QED BY <1>i, <1>2, <2>3, <3>3, <3>4 DEF ChatPrinted
  <2>9. ChatSaid' BY <1>i, <1>2, <2>3 DEF ChatSaid
  <2> QED BY <1>1, <2>2, <2>6, <2>7, <2>8, <2>9 DEF ChatIInv
\* The other steps leave the queue and what is printed alone.
<1>4. ASSUME g' \in ChatVariables, g'.queue = g.queue, g'.quit = g.quit, g'.serving = g.serving,
             g'.said = g.said, g'.guessed = g.guessed, g'.printed = g.printed, pc'[c] # "none",
             g.length \subseteq g'.length, g'.length \subseteq g.length \cup {c},
             g.text \subseteq g'.text, g'.text \subseteq g.text \cup {c},
             g'.length # g.length => pc[c] = "begin", g'.text # g.text => pc[c] = "sleep",
             pc[c] \in {"sleep", "close", "done"} => pc'[c] \in {"sleep", "close", "done"},
             pc[c] \in {"close", "done"} => pc'[c] \in {"close", "done"},
             c \in g'.length => pc'[c] \in {"sleep", "close", "done"},
             c \in g'.text => pc'[c] \in {"close", "done"}
      PROVE  ChatIInv'
  <2>1. ChatPlaces' BY <1>i, <1>t, <1>v, <1>2, <1>4, <1>s DEF ChatPlaces
  <2>2. ChatQueue'
    <3>1. \A i \in 1..Len(g.queue) : pc'[g.queue[i]] # "none" BY <1>i, <1>e, <1>2, <1>4 DEF ChatQueue
    <3> QED BY <1>i, <1>2, <1>4, <3>1 DEF ChatQueue
  <2>3. ChatPrinted'
    <3>1. \A i \in 1..Len(g.printed) : pc'[g.printed[i]] \in {"close", "done"}
      BY <1>i, <1>e, <1>2, <1>4 DEF ChatPrinted
    <3>2. \A i \in 1..Len(g.printed) : g.printed[i] \notin g'.length \cup g'.text
      <4> TAKE i \in 1..Len(g.printed)
      <4>1. g.printed[i] \notin g.length \cup g.text /\ pc[g.printed[i]] \in {"close", "done"}
        BY <1>i DEF ChatPrinted
      <4>2. CASE g.printed[i] = c
        <5>1. g'.length = g.length /\ g'.text = g.text BY <1>4, <4>1, <4>2
        <5> QED BY <4>1, <5>1
      <4>3. CASE g.printed[i] # c BY <1>4, <4>1, <4>3
      <4> QED BY <4>2, <4>3
    <3> QED BY <1>i, <1>2, <1>4, <3>1, <3>2 DEF ChatPrinted
  <2>4. ChatSaid' BY <1>i, <1>2, <1>4 DEF ChatSaid
  <2> QED BY <1>1, <1>4, <2>1, <2>2, <2>3, <2>4 DEF ChatIInv
<1>5. CASE Local(c, "begin", "sleep") /\ g' = [g EXCEPT !.length = @ \cup {c}]
  <2>1. g' \in ChatVariables BY <1>i, <1>5 DEF ChatVariables
  <2>2. /\ g'.queue = g.queue /\ g'.quit = g.quit /\ g'.serving = g.serving /\ g'.said = g.said /\ g'.guessed = g.guessed
        /\ g'.length = g.length \cup {c} /\ g'.text = g.text /\ g'.printed = g.printed
    BY <1>i, <1>5 DEF ChatVariables
  <2>3. pc[c] = "begin" /\ pc'[c] = "sleep" BY <1>i, <1>5 DEF PcOK
  <2>4. c \notin g.text BY <1>i, <2>3 DEF ChatPlaces
  <2> QED BY <1>4, <2>1, <2>2, <2>3, <2>4
<1>6. CASE Local(c, "sleep", "close") /\ g' = [g EXCEPT !.text = @ \cup {c}]
  <2>1. g' \in ChatVariables BY <1>i, <1>6 DEF ChatVariables
  <2>2. /\ g'.queue = g.queue /\ g'.quit = g.quit /\ g'.serving = g.serving /\ g'.said = g.said /\ g'.guessed = g.guessed
        /\ g'.length = g.length /\ g'.text = g.text \cup {c} /\ g'.printed = g.printed
    BY <1>i, <1>6 DEF ChatVariables
  <2>3. pc[c] = "sleep" /\ pc'[c] = "close" BY <1>i, <1>6 DEF PcOK
  <2> QED BY <1>4, <2>1, <2>2, <2>3
<1>7. CASE Local(c, "close", "done") /\ UNCHANGED g
  <2>1. pc[c] = "close" /\ pc'[c] = "done" BY <1>i, <1>7 DEF PcOK
  <2>2. g' = g BY <1>7
  <2> QED BY <1>i, <1>4, <2>1, <2>2
<1> QED BY <1>3, <1>5, <1>6, <1>7 DEF ChatClient

\* A step of the server.
LEMMA ChatMainKeeps ==
  ASSUME ChatIInv, program = "socket_server", program' = program, pc[Main] # "exit",
         ChatMain \/ server \/ (Local(Main, "accept", "server") /\ UNCHANGED g)
  PROVE  ChatIInv'
<1> USE ConnsAreThreads DEF At, Goto, NoSync, Local
<1>n. None \notin Conns BY NamedThreads
<1>i. /\ PcOK /\ Unused /\ g \in ChatVariables
      /\ ChatPlaces /\ ChatQueue /\ ChatPrinted /\ ChatSaid
  BY DEF ChatIInv
<1>t. /\ g.queue \in Seq(Conns) /\ g.printed \in Seq(Conns)
      /\ g.length \subseteq Conns /\ g.text \subseteq Conns
  BY <1>i DEF ChatVariables
<1>e. /\ \A i \in 1..Len(g.queue) : g.queue[i] \in Conns
      /\ \A i \in 1..Len(g.printed) : g.printed[i] \in Conns
  BY <1>t, ElementOfSeq
<1>v. g.serving \in Conns \cup {None} BY <1>i DEF ChatVariables
<1>1. PcOK' /\ Unused' BY <1>i DEF ChatMain, server, Compare, PcOK, Unused
<1>2. \A d \in Conns : pc'[d] = pc[d] BY <1>i DEF ChatMain, server, Compare, PcOK
\* A step that neither takes a client from the queue nor prints.
<1>3. ASSUME g' \in ChatVariables, g'.queue = g.queue, g'.quit = g.quit, g'.said = g.said,
             g'.guessed = g.guessed,
             g'.printed = g.printed, g'.length \subseteq g.length, g'.text \subseteq g.text,
             pc'[Main] \in {"start", "accept", "exit", "fault"} \cup Serving,
             pc'[Main] \in {"start", "accept"} => g'.serving = None,
             pc'[Main] \in Serving =>
               g'.serving = g.serving /\ (pc[Main] \in Serving \/ g.serving = None),
             pc'[Main] = "read" /\ g.serving # None =>
               /\ g.serving \notin g'.length /\ pc[g.serving] \in {"sleep", "close", "done"}
               /\ \A i \in 1..Len(g.printed) : g.printed[i] # g.serving,
             g.said => pc'[Main] \in {"close", "exit"},
             pc'[Main] = "exit" => g.said
      PROVE  ChatIInv'
  <2>0. "read" \in Serving BY DEF Serving
  <2>1. ChatPlaces'
    <3>1. pc'[Main] \in Serving /\ g'.serving # None => pc'[g'.serving] # "none"
      BY <1>i, <1>v, <1>2, <1>3 DEF ChatPlaces
    <3>2. pc'[Main] = "read" /\ g'.serving # None =>
            g'.serving \notin g'.length /\ pc'[g'.serving] \in {"sleep", "close", "done"}
      BY <1>v, <1>2, <1>3, <2>0
    <3>3. (\A c \in g'.length : pc'[c] \in {"sleep", "close", "done"})
          /\ (\A c \in g'.text : pc'[c] \in {"close", "done"})
      BY <1>i, <1>t, <1>2, <1>3 DEF ChatPlaces
    <3> QED BY <1>3, <3>1, <3>2, <3>3 DEF ChatPlaces
  <2>2. ChatQueue'
    <3>1. pc'[Main] \in Serving => \A i \in 1..Len(g.queue) : g.queue[i] # g'.serving
      BY <1>i, <1>e, <1>n, <1>3 DEF ChatQueue
    <3> QED BY <1>i, <1>e, <1>2, <1>3, <3>1 DEF ChatQueue
  <2>3. ChatPrinted'
    <3>1. pc'[Main] = "read" => \A i \in 1..Len(g.printed) : g.printed[i] # g'.serving
      BY <1>e, <1>n, <1>3, <2>0
    <3> QED BY <1>i, <1>e, <1>2, <1>3, <3>1 DEF ChatPrinted
  <2>4. ChatSaid' BY <1>i, <1>3 DEF ChatSaid
  <2> QED BY <1>1, <1>3, <2>1, <2>2, <2>3, <2>4 DEF ChatIInv
<1>4. CASE Local(Main, "start", "accept") /\ UNCHANGED g
  <2>1. pc[Main] = "start" /\ pc'[Main] = "accept" /\ g' = g BY <1>i, <1>4 DEF PcOK
  <2>2. ~ g.said BY <1>i, <2>1 DEF ChatSaid
  <2>3. g.serving = None BY <1>i, <2>1 DEF ChatPlaces
  <2> QED BY <1>i, <1>3, <2>1, <2>2, <2>3 DEF Serving
<1>5. CASE /\ g.queue # <<>> /\ Local(Main, "accept", "server")
           /\ g' = [g EXCEPT !.queue = Tail(@), !.serving = Head(g.queue)]
  <2> DEFINE q == Tail(g.queue)
             h == Head(g.queue)
  <2>1. /\ h \in Conns /\ q \in Seq(Conns) /\ Len(q) = Len(g.queue) - 1
        /\ \A i \in 1..Len(q) : q[i] = g.queue[i + 1]
    BY <1>t, <1>5, HeadTailProperties
  <2>0. g' = [g EXCEPT !.queue = q, !.serving = h] BY <1>5
  <2>2. h = g.queue[1] /\ Len(g.queue) \in Nat \ {0} BY <1>t, <1>5
  <2> HIDE DEF q, h
  <2>3. g' \in ChatVariables BY <1>i, <2>0, <2>1 DEF ChatVariables
  <2>4. /\ g'.queue = q /\ g'.quit = g.quit /\ g'.serving = h /\ g'.said = g.said /\ g'.guessed = g.guessed
        /\ g'.length = g.length /\ g'.text = g.text /\ g'.printed = g.printed
    BY <1>i, <2>0 DEF ChatVariables
  <2>5. pc[Main] = "accept" /\ pc'[Main] = "server" BY <1>i, <1>5 DEF PcOK
  <2>6. 1 \in 1..Len(g.queue) /\ \A i \in 1..Len(q) : i + 1 \in 1..Len(g.queue) /\ i + 1 # 1
    BY <2>1, <2>2
  <2>7. ChatPlaces' BY <1>i, <1>t, <1>2, <2>1, <2>2, <2>4, <2>5, <2>6 DEF ChatPlaces, ChatQueue, Serving
  <2>8. ChatQueue'
    <3>1. \A i \in 1..Len(q) : pc'[q[i]] # "none" /\ q[i] # h
      BY <1>i, <1>e, <1>2, <2>1, <2>2, <2>6 DEF ChatQueue
    <3>2. \A i, j \in 1..Len(q) : i # j => q[i] # q[j]
      <4> TAKE i, j \in 1..Len(q)
      <4> HAVE i # j
      <4>1. i + 1 \in 1..Len(g.queue) /\ j + 1 \in 1..Len(g.queue) /\ i + 1 # j + 1
        BY <2>6
      <4>2. g.queue[i + 1] # g.queue[j + 1] BY <1>i, <4>1 DEF ChatQueue
      <4> QED BY <2>1, <4>2
    <3> QED BY <2>4, <3>1, <3>2 DEF ChatQueue
  <2>9. ChatPrinted'
    <3>1. \A i \in 1..Len(g.printed) : \A j \in 1..Len(q) : q[j] # g.printed[i]
      BY <1>i, <2>1, <2>6 DEF ChatPrinted
    <3>2. pc'[Main] # "read" BY <2>5
    <3> QED BY <1>i, <1>e, <1>2, <2>4, <3>1, <3>2 DEF ChatPrinted
  <2>10. ChatSaid' BY <1>i, <2>4, <2>5 DEF ChatSaid
  <2> QED BY <1>1, <2>3, <2>7, <2>8, <2>9, <2>10 DEF ChatIInv
<1>6. CASE /\ Local(Main, "close", IF g.said THEN "exit" ELSE "accept")
           /\ g' = [g EXCEPT !.serving = None]
  <2>1. g' \in ChatVariables BY <1>i, <1>6 DEF ChatVariables
  <2>2. /\ g'.queue = g.queue /\ g'.quit = g.quit /\ g'.said = g.said /\ g'.guessed = g.guessed
        /\ g'.length = g.length /\ g'.text = g.text /\ g'.printed = g.printed
    BY <1>i, <1>6 DEF ChatVariables
  <2>3. pc[Main] = "close" /\ pc'[Main] = IF g.said THEN "exit" ELSE "accept" BY <1>i, <1>6 DEF PcOK
  <2>6. g'.serving = None BY <1>i, <1>6 DEF ChatVariables
  <2>4. CASE g.said BY <1>3, <2>1, <2>2, <2>3, <2>4 DEF Serving
  <2>5. CASE ~ g.said BY <1>3, <2>1, <2>2, <2>3, <2>5, <2>6 DEF Serving
  <2> QED BY <2>4, <2>5
<1>7. CASE /\ g.serving \in g.length /\ Local(Main, "server", "read")
           /\ g' = [g EXCEPT !.length = @ \ {g.serving}]
  <2>1. g' \in ChatVariables BY <1>i, <1>7 DEF ChatVariables
  <2>2. /\ g'.queue = g.queue /\ g'.quit = g.quit /\ g'.said = g.said /\ g'.guessed = g.guessed /\ g'.serving = g.serving
        /\ g'.length = g.length \ {g.serving} /\ g'.text = g.text /\ g'.printed = g.printed
    BY <1>i, <1>7 DEF ChatVariables
  <2>3. pc[Main] = "server" /\ pc'[Main] = "read" BY <1>i, <1>7 DEF PcOK
  <2>4. \A i \in 1..Len(g.printed) : g.printed[i] # g.serving BY <1>i, <1>7 DEF ChatPrinted
  <2>5. ~ g.said BY <1>i, <2>3 DEF ChatSaid
  <2>6. pc[g.serving] \in {"sleep", "close", "done"} BY <1>i, <1>7 DEF ChatPlaces
  <2> QED BY <1>3, <2>1, <2>2, <2>3, <2>4, <2>5, <2>6 DEF Serving
<1>8. CASE Local(Main, "server", "close") /\ UNCHANGED g
  <2>1. pc[Main] = "server" /\ pc'[Main] = "close" /\ g' = g BY <1>i, <1>8 DEF PcOK
  <2> QED BY <1>i, <1>3, <2>1 DEF Serving, ChatSaid
<1>9. CASE /\ g.serving \in g.text
           /\ Local(Main, "read", IF g.quit[g.serving] THEN "close" ELSE "freed")
           /\ g' = [g EXCEPT !.text = @ \ {g.serving}, !.printed = Append(@, g.serving),
                             !.said = g.quit[g.serving]]
  <2> DEFINE c == g.serving
             p == Append(g.printed, c)
             n == Len(g.printed)
             b == g.quit[c]
  <2>0. c \in Conns /\ b \in BOOLEAN BY <1>i, <1>t, <1>9 DEF ChatVariables
  <2>1. /\ p \in Seq(Conns) /\ Len(p) = n + 1 /\ p[n + 1] = c
        /\ \A i \in 1..n : p[i] = g.printed[i]
    BY <1>t, <2>0, AppendProperties
  <2>2. n \in Nat BY <1>t
  <2>3. g' = [g EXCEPT !.text = g.text \ {c}, !.printed = p, !.said = b] BY <1>9
  <2>4. pc[Main] = "read" /\ pc'[Main] = IF b THEN "close" ELSE "freed" BY <1>i, <1>9 DEF PcOK
  <2>5. \A i \in 1..n : g.printed[i] # c BY <1>i, <2>4 DEF ChatPrinted
  <2>6. c \in g.text /\ pc[c] \in {"close", "done"} BY <1>i, <1>9 DEF ChatPlaces
  <2>7. \A i \in 1..Len(g.queue) : g.queue[i] # c BY <1>i, <2>4 DEF ChatQueue, Serving
  <2>s. ~ g.said /\ ~ g.guessed BY <1>i, <2>4 DEF ChatSaid
  <2>q. n > 0 => ~ g.quit[g.printed[n]] BY <1>i, <2>s DEF ChatSaid
  <2>l. c \notin g.length => c \notin g.length \cup (g.text \ {c}) OBVIOUS
  <2> HIDE DEF p, b
  <2>8. g' \in ChatVariables BY <1>i, <2>0, <2>1, <2>3 DEF ChatVariables
  <2>9. /\ g'.queue = g.queue /\ g'.quit = g.quit /\ g'.said = b /\ g'.guessed = g.guessed /\ g'.serving = g.serving
        /\ g'.length = g.length /\ g'.text = g.text \ {c} /\ g'.printed = p
    BY <1>i, <2>0, <2>3 DEF ChatVariables
  <2>10. ChatPlaces' BY <1>i, <1>t, <1>v, <1>2, <2>4, <2>6, <2>9 DEF ChatPlaces, Serving
  <2>11. ChatQueue' BY <1>i, <1>e, <1>2, <2>4, <2>9 DEF ChatQueue, Serving
  <2>12. \A i \in 1..Len(p) : i = n + 1 \/ i \in 1..n BY <2>1, <2>2
  <2>13. ChatPrinted'
    <3>1. c \notin g.length BY <1>i, <1>n, <2>0, <2>4 DEF ChatPlaces
    <3>2. \A i \in 1..Len(p) : pc'[p[i]] \in {"close", "done"} /\ p[i] \notin g.length \cup (g.text \ {c})
      BY <1>i, <1>e, <1>2, <2>0, <2>1, <2>6, <2>12, <3>1 DEF ChatPrinted
    <3>3. \A i \in 1..Len(p) : i < Len(p) => ~ g.quit[p[i]]
      <4> TAKE i \in 1..Len(p)
      <4> HAVE i < Len(p)
      <4>1. i \in 1..n /\ (i < n \/ i = n) BY <2>1, <2>2
      <4>2. ~ g.quit[g.printed[i]] BY <1>i, <2>q, <2>2, <4>1 DEF ChatPrinted
      <4> QED BY <2>1, <4>1, <4>2
    <3>4. pc'[Main] # "read" BY <2>4
    <3>5. \A i, j \in 1..Len(p) : i # j => p[i] # p[j]
      <4> TAKE i, j \in 1..Len(p)
      <4> HAVE i # j
      <4>1. CASE i = n + 1 BY <2>1, <2>5, <2>12, <4>1
      <4>2. CASE j = n + 1 BY <2>1, <2>5, <2>12, <4>2
      <4>3. CASE i \in 1..n /\ j \in 1..n BY <1>i, <2>1, <4>3 DEF ChatPrinted
      <4> QED BY <2>12, <4>1, <4>2, <4>3
    <3>6. \A i \in 1..Len(p) : \A j \in 1..Len(g.queue) : g.queue[j] # p[i]
      BY <1>i, <2>1, <2>7, <2>12 DEF ChatPrinted
    <3> QED BY <2>9, <3>2, <3>3, <3>4, <3>5, <3>6 DEF ChatPrinted
  <2>14. ChatSaid'
    <3>1. Len(p) > 0 /\ p[Len(p)] = c BY <2>1, <2>2
    <3>2. b = g.quit[c] BY DEF b
    <3>3. g'.said <=> g'.guessed \/ (Len(g'.printed) > 0 /\ g'.quit[g'.printed[Len(g'.printed)]])
      BY <2>s, <2>9, <3>1, <3>2
    <3> QED BY <2>4, <2>9, <3>3 DEF ChatSaid
  <2> QED BY <1>1, <2>8, <2>10, <2>11, <2>13, <2>14 DEF ChatIInv
\* The server reads nothing, and goes on, ends or faults.
<1>10. ASSUME NEW l \in {"accept", "server", "read", "freed"}, NEW m \in {"server", "read", "freed", "fault"},
              Local(Main, l, m), g' = g, g.serving = None \/ (l = "freed" /\ m # "read")
       PROVE  ChatIInv'
  <2>1. pc[Main] = l /\ pc'[Main] = m BY <1>i, <1>10 DEF PcOK
  <2>2. ~ g.said BY <1>i, <2>1 DEF ChatSaid
  <2>3. pc[Main] \in Serving \/ g.serving = None BY <1>10, <2>1 DEF Serving
  <2> QED BY <1>i, <1>3, <1>10, <2>1, <2>2, <2>3 DEF Serving
<1>11. ASSUME NEW l \in {"read", "freed"}, Local(Main, l, "close"),
              g' = [g EXCEPT !.said = TRUE, !.guessed = TRUE]
       PROVE  ChatIInv'
  <2>1. pc[Main] = l /\ pc'[Main] = "close" BY <1>i, <1>11 DEF PcOK
  <2>2. g' \in ChatVariables BY <1>i, <1>11 DEF ChatVariables
  <2>3. /\ g'.queue = g.queue /\ g'.quit = g.quit /\ g'.said /\ g'.guessed
        /\ g'.serving = g.serving /\ g'.length = g.length /\ g'.text = g.text
        /\ g'.printed = g.printed
    BY <1>i, <1>11 DEF ChatVariables
  <2>4. ChatPlaces' BY <1>i, <1>t, <1>v, <1>2, <2>1, <2>3 DEF ChatPlaces, Serving
  <2>5. ChatQueue' BY <1>i, <1>e, <1>2, <2>1, <2>3 DEF ChatQueue, Serving
  <2>6. ChatPrinted' BY <1>i, <1>e, <1>2, <2>1, <2>3 DEF ChatPrinted
  <2>7. ChatSaid' BY <2>1, <2>3 DEF ChatSaid
  <2> QED BY <1>1, <2>2, <2>4, <2>5, <2>6, <2>7 DEF ChatIInv
<1>12. CASE g.serving = None /\ Local(Main, "server", "read") /\ UNCHANGED g BY <1>10, <1>12
<1>13. CASE g.serving = None /\ Compare("read", "freed") BY <1>10, <1>11, <1>13 DEF Compare
<1>14. CASE Compare("freed", "server") BY <1>10, <1>11, <1>14 DEF Compare
<1>15. CASE Local(Main, "accept", "server") /\ UNCHANGED g
  <2>1. g.serving = None BY <1>i, <1>15 DEF ChatPlaces
  <2> QED BY <1>10, <1>15, <2>1
<1> QED BY <1>4, <1>5, <1>6, <1>7, <1>8, <1>9, <1>12, <1>13, <1>14, <1>15 DEF ChatMain, server

\* No step, whichever program runs, breaks ChatIInv.
LEMMA ChatKept == ChatIInv /\ [Next]_vars => ChatIInv'
<1> SUFFICES ASSUME ChatIInv, [Next]_vars, program = "socket_server" PROVE ChatIInv'
  BY Dispatch DEF ChatIInv
<1>1. CASE Spurious BY <1>1 DEF Spurious, ChatIInv, Unused
<1>2. CASE UNCHANGED vars
  BY <1>2 DEF vars, ChatIInv, PcOK, Unused, ChatPlaces, ChatQueue, ChatPrinted, ChatSaid
<1>3. ASSUME NEW t \in Threads, ChatStep(t) PROVE ChatIInv'
  <2>1. program' = program /\ pc[Main] # "exit" BY <1>3 DEF ChatStep, Running
  <2> QED BY <1>3, <2>1, ChatClientKeeps, ChatMainKeeps DEF ChatStep
<1>4. CASE ChatAcceptFails
  <2>1. program' = program /\ pc[Main] # "exit" BY <1>4 DEF ChatAcceptFails, Running
  <2> QED BY <1>4, <2>1, ChatMainKeeps DEF ChatAcceptFails
<1> QED BY <1>1, <1>2, <1>3, <1>4, Dispatch

\* What ChatIInv says of the program.
LEMMA ChatImplies == ChatIInv => ServedInTurn
<1> SUFFICES ASSUME ChatIInv, program = "socket_server" PROVE ServedInTurn BY DEF ServedInTurn
<1>1. g \in ChatVariables /\ ChatQueue /\ ChatPrinted /\ ChatSaid BY DEF ChatIInv
<1>2. Len(g.printed) \in Nat BY <1>1 DEF ChatVariables
<1>3. \A i \in 1 .. Len(g.printed) - 1 : i \in 1..Len(g.printed) /\ i < Len(g.printed) BY <1>2
<1> QED BY <1>1, <1>3 DEF ChatPrinted, ChatSaid, ServedInTurn, At

\* Every message of pipe.c gets through; no process of server-bee.c stays a zombie
\* that nobody will reap, and no client of its is left without an answer but where
\* a fork or a send failed; and socket-server.c prints the clients it serves once
\* each, in turn, until one says quit or it takes memory that it has freed or
\* never written for that word: for every number of messages and clients.
THEOREM ProcessCorrect == Spec => []ProcessInv
BY PipeInitial, PipeKept, PipeImplies, BeeInitial, BeeKept, BeeImplies, ChatInitial, ChatKept,
   ChatImplies, PTL DEF Spec, ProcessInv

-----------------------------------------------------------------------------
(* Condition variables.                                                    *)

\* A program with a condition variable and without cancellation.
NotCancelled == mutex \in Threads \cup {None} /\ pending = {}

\* The variables of condition.c.
CountVariables == [count : Nat, i : [Counters -> Nat], added : BOOLEAN]

\* condition.c: the watcher adds once, on its way out, and is the only one that
\* ever waits.
CountIInv ==
  program = "condition" =>
    /\ PcOK /\ NotCancelled /\ CountExact /\ g \in CountVariables
    /\ pc[Watcher] \in {"none", "begin", "wait", "done"}
    /\ pc[Watcher] # "done" => ~ g.added
    /\ pc[Main] = "start" => pc[Watcher] = "none"
    /\ waiters \subseteq {Watcher}
    /\ Watcher \in waiters => pc[Watcher] = "wait" /\ g.count < COUNT_LIMIT

\* Init establishes CountIInv.
LEMMA CountInitial == Init => CountIInv
<1> SUFFICES ASSUME Init, program = "condition" PROVE CountIInv BY DEF CountIInv
<1>1. CountInit BY InitialState
<1>2. PcOK /\ NotCancelled /\ waiters = {} /\ pc[Watcher] = "none"
  BY <1>1, NamedThreads DEF CountInit, Start, PcOK, NotCancelled, Watcher, Main
<1>3. g = [count |-> 0, i |-> [t \in Counters |-> 0], added |-> FALSE] BY <1>1 DEF CountInit, Start
<1>4. g \in CountVariables BY <1>3 DEF CountVariables
<1>5. g.count = 0 /\ g.i[2] = 0 /\ g.i[3] = 0 /\ ~ g.added BY <1>3 DEF Counters
<1>6. CountExact BY <1>5 DEF CountExact
<1> QED BY <1>2, <1>4, <1>5, <1>6 DEF CountIInv

\* The program's own steps preserve CountIInv.
LEMMA CountStepKeeps ==
  ASSUME CountIInv, program = "condition", NEW t \in Threads, CountStep(t)
  PROVE  CountIInv'
<1> USE NamedThreads, ConditionAssumption DEF Main, Watcher, Counters, At, Goto, NoSync, Local
<1>0. program' = program BY DEF CountStep
<1>i. /\ PcOK /\ NotCancelled /\ CountExact /\ g \in CountVariables
      /\ pc[Watcher] \in {"none", "begin", "wait", "done"}
      /\ pc[Watcher] # "done" => ~ g.added
      /\ pc[Main] = "start" => pc[Watcher] = "none"
      /\ waiters \subseteq {Watcher}
      /\ Watcher \in waiters => pc[Watcher] = "wait" /\ g.count < COUNT_LIMIT
  BY DEF CountIInv
<1>t. g.count \in Nat /\ g.i[2] \in Nat /\ g.i[3] \in Nat /\ g.added \in BOOLEAN
  BY <1>i DEF CountVariables
<1>1. CASE CountMain
  <2>1. PcOK' /\ NotCancelled' /\ g' = g /\ waiters' = waiters
    BY <1>i, <1>1 DEF CountMain, PcOK, NotCancelled
  <2>2. \/ pc[Main] = "start" /\ pc'[Main] = "join" /\ pc'[Watcher] = "begin"
        \/ pc[Main] = "join" /\ pc'[Main] = "exit" /\ pc'[Watcher] = pc[Watcher]
    BY <1>i, <1>1 DEF CountMain, PcOK
  <2>3. CountExact' BY <1>0, <1>i, <2>1 DEF CountExact
  <2> QED BY <1>0, <1>i, <2>1, <2>2, <2>3 DEF CountIInv
<1>2. CASE WatchCount
  <2> DEFINE new == IF At(Watcher, "begin") THEN g.count ELSE g.count + Increase
  <2>1. /\ At(Watcher, "begin") \/ Woken(Watcher, "wait")
        /\ IF new < COUNT_LIMIT THEN Wait(Watcher, "wait") ELSE Goto(Watcher, "done") /\ NoSync
        /\ g' = [g EXCEPT !.count = new, !.added = At(Watcher, "wait")]
    BY <1>2 DEF WatchCount
  <2>2. new \in Nat BY <1>t
  <2>3. PcOK' /\ NotCancelled' /\ pc'[Main] = pc[Main]
    BY <1>i, <2>1 DEF Wait, PcOK, NotCancelled
  <2>4. CASE At(Watcher, "begin")
    <3>1. new = g.count BY <2>4
    <3>2. g' = [g EXCEPT !.count = g.count, !.added = FALSE] BY <2>1, <2>4, <3>1
    <3>3. g' \in CountVariables /\ g'.count = g.count /\ g'.i = g.i /\ ~ g'.added
      BY <1>i, <3>2 DEF CountVariables
    <3>4. \/ g.count < COUNT_LIMIT /\ pc'[Watcher] = "wait" /\ waiters' = waiters \cup {Watcher}
          \/ pc'[Watcher] = "done" /\ waiters' = waiters
      BY <1>i, <2>1, <3>1 DEF Wait, PcOK
    <3>5. CountExact' BY <1>0, <1>i, <2>4, <3>3 DEF CountExact
    <3>6. pc[Main] # "start" /\ Watcher \notin waiters BY <1>i, <2>4
    <3> QED BY <1>0, <1>i, <2>3, <3>3, <3>4, <3>5, <3>6 DEF CountIInv
  <2>5. CASE Woken(Watcher, "wait")
    <3>0. pc[Watcher] = "wait" /\ Watcher \notin waiters BY <2>5 DEF Woken
    <3>1. new = g.count + Increase BY <3>0
    <3>2. g' = [g EXCEPT !.count = g.count + Increase, !.added = TRUE] BY <2>1, <3>0, <3>1
    <3>3. g.count + Increase \in Nat BY <1>t
    <3>4. g' \in CountVariables /\ g'.count = g.count + Increase /\ g'.i = g.i /\ g'.added
      BY <1>i, <3>2, <3>3 DEF CountVariables
    <3>5. ~ (new < COUNT_LIMIT) BY <1>t, <3>1
    <3>6. pc'[Watcher] = "done" /\ waiters' = waiters BY <1>i, <2>1, <3>5 DEF PcOK
    <3>7. CountExact'
      <4>1. g.count = g.i[2] + g.i[3] BY <1>i, <1>t, <3>0 DEF CountExact
      <4>2. g'.count = g'.i[2] + g'.i[3] + Increase BY <1>t, <3>4, <4>1
      <4> QED BY <3>4, <4>2 DEF CountExact
    <3>8. pc[Main] # "start" BY <1>i, <3>0
    <3> QED BY <1>0, <1>i, <2>3, <3>0, <3>4, <3>6, <3>7, <3>8 DEF CountIInv
  <2> QED BY <2>1, <2>4, <2>5
<1>3. CASE t \in Counters /\ IncCount(t)
  <2>1. /\ g' = [g EXCEPT !.count = g.count + 1, !.i[t] = g.i[t] + 1]
        /\ IF g'.count = COUNT_LIMIT THEN Signal ELSE UNCHANGED waiters
        /\ pc' = pc /\ PcOK' /\ NotCancelled'
    BY <1>i, <1>3 DEF IncCount, PcOK, NotCancelled
  <2>2. g.count + 1 \in Nat /\ g.i[t] + 1 \in Nat BY <1>3, <1>t
  <2>3. g' \in CountVariables BY <1>i, <1>3, <2>1, <2>2 DEF CountVariables
  <2>4. /\ g'.count = g.count + 1 /\ g'.added = g.added
        /\ g'.i[t] = g.i[t] + 1 /\ \A u \in Counters : u # t => g'.i[u] = g.i[u]
    BY <1>i, <1>3, <2>1 DEF CountVariables
  <2>5. CountExact'
    <3>1. g'.i[2] + g'.i[3] = g.i[2] + g.i[3] + 1 BY <1>3, <1>t, <2>4
    <3>2. CASE g.added
      <4>1. g.count = g.i[2] + g.i[3] + Increase BY <1>i, <3>2 DEF CountExact
      <4>2. g'.count = g'.i[2] + g'.i[3] + Increase
        <5>1. g'.i[2] \in Nat /\ g'.i[3] \in Nat BY <2>3 DEF CountVariables
        <5> QED BY <1>t, <2>4, <3>1, <4>1, <5>1
      <4> QED BY <2>4, <3>2, <4>2 DEF CountExact
    <3>3. CASE ~ g.added
      <4>1. g.count = g.i[2] + g.i[3] + 0 BY <1>i, <3>3 DEF CountExact
      <4>2. g'.count = g'.i[2] + g'.i[3] + 0
        <5>1. g'.i[2] \in Nat /\ g'.i[3] \in Nat BY <2>3 DEF CountVariables
        <5> QED BY <1>t, <2>4, <3>1, <4>1, <5>1
      <4> QED BY <2>4, <3>3, <4>2 DEF CountExact
    <3> QED BY <3>2, <3>3
  <2>6. waiters' \subseteq {Watcher} /\ (Watcher \in waiters' => Watcher \in waiters)
    BY <1>i, <2>1 DEF Signal
  <2>7. Watcher \in waiters' => g'.count < COUNT_LIMIT
    <3>1. CASE g'.count = COUNT_LIMIT
      <4>1. waiters' = {} BY <1>i, <2>1, <3>1 DEF Signal
      <4> QED BY <4>1
    <3>2. CASE g'.count # COUNT_LIMIT BY <1>i, <1>t, <2>4, <2>6, <3>2
    <3> QED BY <3>1, <3>2
  <2> QED BY <1>0, <1>i, <2>1, <2>3, <2>4, <2>5, <2>6, <2>7 DEF CountIInv
<1>4. CASE t \in Counters /\ IncEnd(t)
  <2>1. g' = g /\ waiters' = waiters /\ PcOK' /\ NotCancelled'
        /\ pc'[Main] = pc[Main] /\ pc'[Watcher] = pc[Watcher]
    BY <1>i, <1>4 DEF IncEnd, PcOK, NotCancelled
  <2>2. CountExact' BY <1>0, <1>i, <2>1 DEF CountExact
  <2> QED BY <1>0, <1>i, <2>1, <2>2 DEF CountIInv
<1> QED BY <1>1, <1>2, <1>3, <1>4 DEF CountStep

\* No step, whichever program runs, breaks CountIInv.
LEMMA CountKept == CountIInv /\ [Next]_vars => CountIInv'
<1> SUFFICES ASSUME CountIInv, [Next]_vars, program = "condition" PROVE CountIInv'
  BY Dispatch DEF CountIInv
<1>1. CASE Spurious BY <1>1 DEF Spurious, CountIInv, PcOK, NotCancelled, CountExact
<1>2. CASE UNCHANGED vars BY <1>2 DEF vars, CountIInv, PcOK, NotCancelled, CountExact
<1> QED BY <1>1, <1>2, CountStepKeeps, Dispatch

\* The variables of cond.c.
CondVariables == [value : {0, 1}, printed : SUBSET {"timed_out", "signaled", "wait_failed"}]

\* cond.c: main is the only one that waits, and reports how it went when it ends.
CondIInv ==
  program = "cond" =>
    /\ PcOK /\ NotCancelled /\ CondReports /\ g \in CondVariables
    /\ waiters \subseteq {Main}
    /\ Main \in waiters => pc[Main] = "wait"
    /\ pc[Main] # "exit" => g.printed \subseteq {"wait_failed"}

\* Init establishes CondIInv.
LEMMA CondInitial == Init => CondIInv
<1> SUFFICES ASSUME Init, program = "cond" PROVE CondIInv BY DEF CondIInv
<1>1. CondInit BY InitialState
<1>2. PcOK /\ NotCancelled /\ waiters = {} /\ pc[Main] = "start"
  BY <1>1, NamedThreads DEF CondInit, Start, PcOK, NotCancelled, Main
<1>3. g \in CondVariables /\ g.printed = {} BY <1>1 DEF CondInit, Start, CondVariables
<1> QED BY <1>2, <1>3 DEF CondIInv, CondReports, At

\* The program's own steps preserve CondIInv.
LEMMA CondStepKeeps ==
  ASSUME CondIInv, program = "cond", NEW t \in Threads, CondStep(t)
  PROVE  CondIInv'
<1> USE NamedThreads, ConditionAssumption DEF Main, Waker, At, Goto, NoSync, Local
<1>0. program' = program /\ pc[Main] # "exit" BY DEF CondStep, Running
<1>i. /\ PcOK /\ NotCancelled /\ g \in CondVariables
      /\ waiters \subseteq {Main}
      /\ Main \in waiters => pc[Main] = "wait" /\ g.value = 0
      /\ pc[Main] \in {"failed", "again"} => mutex = Main /\ g.value = 0
      /\ g.printed \subseteq {"wait_failed"}
  BY <1>0 DEF CondIInv, CondReports
<1>t. g.value \in {0, 1} /\ "signaled" \notin g.printed BY <1>i DEF CondVariables
<1>1. CASE (Create(Main, Waker, "start", "loop") /\ NoSync /\ UNCHANGED g)
           \/ (Local(Main, "start", "loop") /\ UNCHANGED g)
  <2>1. /\ PcOK' /\ NotCancelled' /\ pc[Main] = "start" /\ pc'[Main] = "loop"
        /\ waiters' = waiters /\ g' = g
    BY <1>i, <1>1 DEF Create, PcOK, NotCancelled
  <2>2. Main \notin waiters BY <1>i, <2>1
  <2> QED BY <1>0, <1>i, <2>1, <2>2 DEF CondIInv, CondReports
<1>2. CASE CondTest
  <2>1. waiters = {} BY <1>i, <1>2 DEF CondTest, Woken
  <2>2. PcOK' /\ NotCancelled' BY <1>i, <1>2 DEF CondTest, PcOK, NotCancelled
  <2>3. CASE g.value = 0
    <3>1. /\ g' = g
          /\ \/ pc'[Main] = "wait" /\ waiters' = {Main}
             \/ pc'[Main] = "failed" /\ waiters' = {} /\ mutex' = Main
      BY <1>i, <1>2, <2>1, <2>3 DEF CondTest, PcOK
    <3> QED BY <1>0, <1>i, <2>2, <2>3, <3>1 DEF CondIInv, CondReports
  <2>4. CASE g.value # 0
    <3>1. /\ g' = [g EXCEPT !.printed = g.printed \cup {"signaled"}]
          /\ pc'[Main] = "exit" /\ waiters' = {}
      BY <1>i, <1>2, <2>1, <2>4 DEF CondTest, PcOK
    <3>2. g' \in CondVariables /\ "signaled" \in g'.printed /\ g'.value = 1
      BY <1>i, <1>t, <2>4, <3>1 DEF CondVariables
    <3>4. CondReports' BY <3>1, <3>2 DEF CondReports
    <3> QED BY <1>0, <2>2, <3>1, <3>2, <3>4 DEF CondIInv
  <2> QED BY <2>3, <2>4
<1>6. CASE CondFailed
  <2>1. /\ PcOK' /\ NotCancelled' /\ pc[Main] = "failed" /\ pc'[Main] = "again"
        /\ waiters' = waiters /\ mutex' = mutex
        /\ g' = [g EXCEPT !.printed = g.printed \cup {"wait_failed"}]
    BY <1>i, <1>6 DEF CondFailed, PcOK, NotCancelled
  <2>2. /\ g' \in CondVariables /\ g'.value = g.value
        /\ g'.printed \subseteq {"wait_failed"}
    BY <1>i, <2>1 DEF CondVariables
  <2>3. waiters = {} BY <1>i, <2>1
  <2> QED BY <1>0, <1>i, <2>1, <2>2, <2>3 DEF CondIInv, CondReports
<1>3. CASE CondTimeout
  <2>1. PcOK' /\ NotCancelled' /\ pc'[Main] = "expired" /\ waiters' = {} /\ g' = g
    BY <1>i, <1>3 DEF CondTimeout, PcOK, NotCancelled
  <2> QED BY <1>0, <1>i, <2>1 DEF CondIInv, CondReports
<1>4. CASE CondExpired
  <2>1. PcOK' /\ NotCancelled' /\ pc[Main] = "expired" /\ pc'[Main] = "exit" /\ waiters' = waiters
    BY <1>i, <1>4 DEF CondExpired, PcOK, NotCancelled
  <2>2. waiters' = {} BY <1>i, <2>1
  <2>3. CASE g.value # 0
    <3>2. g' = [g EXCEPT !.printed = g.printed \cup {"timed_out"} \cup {"signaled"}]
      BY <1>4, <2>3 DEF CondExpired
    <3>3. g' \in CondVariables /\ "signaled" \in g'.printed /\ g'.value = 1
      BY <1>i, <1>t, <2>3, <3>2 DEF CondVariables
    <3>5. CondReports' BY <2>1, <2>2, <3>3 DEF CondReports
    <3> QED BY <1>0, <2>1, <2>2, <3>3, <3>5 DEF CondIInv
  <2>4. CASE g.value = 0
    <3>2. g' = [g EXCEPT !.printed = g.printed \cup {"timed_out"} \cup {}]
      BY <1>4, <2>4 DEF CondExpired
    <3>3. /\ g' \in CondVariables /\ "timed_out" \in g'.printed /\ "signaled" \notin g'.printed
          /\ g'.value = 0
      BY <1>i, <1>t, <2>4, <3>2 DEF CondVariables
    <3>5. CondReports' BY <2>1, <2>2, <3>3 DEF CondReports
    <3> QED BY <1>0, <2>1, <2>2, <3>3, <3>5 DEF CondIInv
  <2> QED BY <2>3, <2>4
<1>5. CASE wait_thread
  <2>1. /\ PcOK' /\ NotCancelled' /\ pc'[Main] = pc[Main] /\ mutex = None
        /\ g' = [g EXCEPT !.value = 1]
    BY <1>i, <1>5 DEF wait_thread, PcOK, NotCancelled
  <2>2. waiters' = {} BY <1>i, <1>5 DEF wait_thread, Signal
  <2>3. g' \in CondVariables /\ g'.printed = g.printed BY <1>i, <2>1 DEF CondVariables
  <2>4. pc[Main] \notin {"failed", "again"} BY <1>i, <2>1
  <2> QED BY <1>0, <1>i, <2>1, <2>2, <2>3, <2>4 DEF CondIInv, CondReports
<1> QED BY <1>1, <1>2, <1>3, <1>4, <1>5, <1>6 DEF CondStep

\* No step, whichever program runs, breaks CondIInv.
LEMMA CondKept == CondIInv /\ [Next]_vars => CondIInv'
<1> SUFFICES ASSUME CondIInv, [Next]_vars, program = "cond" PROVE CondIInv'
  BY Dispatch DEF CondIInv
<1>1. CASE Spurious BY <1>1 DEF Spurious, CondIInv, PcOK, NotCancelled, CondReports, At
<1>2. CASE UNCHANGED vars BY <1>2 DEF vars, CondIInv, PcOK, NotCancelled, CondReports, At
<1> QED BY <1>1, <1>2, CondStepKeeps, Dispatch

\* The variables of sigwait.c.
SigwaitVariables == [pending : BOOLEAN, taken : Nat, interrupted : BOOLEAN]

\* sigwait.c: where the thread is by the signals it has taken, and that main is
\* told at the end.
SigwaitIInv ==
  program = "sigwait" =>
    /\ PcOK /\ NotCancelled /\ g \in SigwaitVariables
    /\ waiters \subseteq {Main}
    /\ Main \in waiters => pc[Main] = "wait" /\ ~ g.interrupted
    /\ pc[Taker] \in {"none", "begin", "notify", "done"}
    /\ pc[Main] = "start" => pc[Taker] = "none"
    /\ pc[Taker] \in {"none", "begin"} => g.taken < Interrupts
    /\ pc[Taker] \in {"notify", "done"} => g.taken = Interrupts
    /\ g.interrupted => pc[Taker] = "done"
    /\ pc[Main] = "exit" => g.interrupted

\* Init establishes SigwaitIInv.
LEMMA SigwaitInitial == Init => SigwaitIInv
<1> SUFFICES ASSUME Init, program = "sigwait" PROVE SigwaitIInv BY DEF SigwaitIInv
<1>1. SigwaitInit BY InitialState
<1>2. PcOK /\ NotCancelled /\ waiters = {} /\ pc[Main] = "start" /\ pc[Taker] = "none"
  BY <1>1, NamedThreads DEF SigwaitInit, Start, PcOK, NotCancelled, Main, Taker
<1>3. g \in SigwaitVariables /\ g.taken = 0 /\ ~ g.interrupted
  BY <1>1 DEF SigwaitInit, Start, SigwaitVariables
<1>4. g.taken < Interrupts BY <1>3, ConditionAssumption
<1> QED BY <1>2, <1>3, <1>4 DEF SigwaitIInv

\* The program's own steps preserve SigwaitIInv.
LEMMA SigwaitStepKeeps ==
  ASSUME SigwaitIInv, program = "sigwait", NEW t \in Threads, SigwaitStep(t) \/ Interrupt
  PROVE  SigwaitIInv'
<1> USE NamedThreads, ConditionAssumption DEF Main, Taker, At, Goto, NoSync, Local
<1>0. program' = program /\ pc[Main] # "exit" BY DEF SigwaitStep, Interrupt, Running
<1>i. /\ PcOK /\ NotCancelled /\ g \in SigwaitVariables
      /\ waiters \subseteq {Main}
      /\ Main \in waiters => pc[Main] = "wait" /\ ~ g.interrupted
      /\ pc[Taker] \in {"none", "begin", "notify", "done"}
      /\ pc[Main] = "start" => pc[Taker] = "none"
      /\ pc[Taker] \in {"none", "begin"} => g.taken < Interrupts
      /\ pc[Taker] \in {"notify", "done"} => g.taken = Interrupts
      /\ g.interrupted => pc[Taker] = "done"
  BY DEF SigwaitIInv
<1>t. g.taken \in Nat BY <1>i DEF SigwaitVariables
<1>1. CASE Create(Main, Taker, "start", "loop") /\ NoSync /\ UNCHANGED g
  <2>1. PcOK' /\ NotCancelled' /\ pc[Main] = "start" /\ pc'[Main] = "loop" /\ pc'[Taker] = "begin"
        /\ waiters' = waiters /\ g' = g
    BY <1>i, <1>1 DEF Create, PcOK, NotCancelled
  <2> QED BY <1>0, <1>i, <2>1 DEF SigwaitIInv
<1>2. CASE /\ At(Main, "loop") \/ Woken(Main, "wait")
           /\ IF g.interrupted THEN Goto(Main, "exit") /\ NoSync ELSE Wait(Main, "wait")
           /\ UNCHANGED g
  <2>1. g' = g /\ PcOK' /\ NotCancelled' /\ pc'[Taker] = pc[Taker] /\ pc[Main] # "start"
    BY <1>i, <1>2 DEF Wait, Woken, PcOK, NotCancelled
  <2>2. \/ g.interrupted /\ pc'[Main] = "exit" /\ waiters' = waiters
        \/ ~ g.interrupted /\ pc'[Main] = "wait" /\ waiters' = waiters \cup {Main}
    BY <1>i, <1>2 DEF Wait, PcOK
  <2> QED BY <1>0, <1>i, <2>1, <2>2 DEF SigwaitIInv
<1>3. CASE /\ g.pending
           /\ Local(Taker, "begin", IF g.taken + 1 >= Interrupts THEN "notify" ELSE "begin")
           /\ g' = [g EXCEPT !.pending = FALSE, !.taken = @ + 1]
  <2>1. g.taken + 1 \in Nat BY <1>t
  <2>2. g' \in SigwaitVariables /\ g'.taken = g.taken + 1 /\ g'.interrupted = g.interrupted
    BY <1>i, <1>3, <2>1 DEF SigwaitVariables
  <2>3. PcOK' /\ NotCancelled' /\ pc'[Main] = pc[Main] /\ waiters' = waiters /\ pc[Taker] = "begin"
        /\ pc'[Taker] = IF g.taken + 1 >= Interrupts THEN "notify" ELSE "begin"
    BY <1>i, <1>3 DEF PcOK, NotCancelled
  <2>4. \/ pc'[Taker] = "notify" /\ g'.taken = Interrupts
        \/ pc'[Taker] = "begin" /\ g'.taken < Interrupts
    BY <1>i, <1>t, <2>2, <2>3
  <2> QED BY <1>0, <1>i, <2>2, <2>3, <2>4 DEF SigwaitIInv
<1>4. CASE /\ At(Taker, "notify") /\ Goto(Taker, "done")
           /\ g' = [g EXCEPT !.interrupted = TRUE]
           /\ Signal /\ UNCHANGED <<mutex, pending>>
  <2>1. g' \in SigwaitVariables /\ g'.taken = g.taken /\ g'.interrupted
    BY <1>i, <1>4 DEF SigwaitVariables
  <2>2. PcOK' /\ NotCancelled' /\ pc'[Main] = pc[Main] /\ pc[Taker] = "notify" /\ pc'[Taker] = "done"
    BY <1>i, <1>4 DEF PcOK, NotCancelled
  <2>3. waiters' = {} BY <1>i, <1>4 DEF Signal
  <2> QED BY <1>0, <1>i, <2>1, <2>2, <2>3 DEF SigwaitIInv
<1>5. CASE Interrupt
  <2>1. g' = [g EXCEPT !.pending = TRUE] /\ pc' = pc /\ waiters' = waiters /\ PcOK' /\ NotCancelled'
    BY <1>i, <1>5 DEF Interrupt, PcOK, NotCancelled
  <2>2. g' \in SigwaitVariables /\ g'.taken = g.taken /\ g'.interrupted = g.interrupted
    BY <1>i, <2>1 DEF SigwaitVariables
  <2> QED BY <1>0, <1>i, <2>1, <2>2 DEF SigwaitIInv
<1> QED BY <1>1, <1>2, <1>3, <1>4, <1>5 DEF SigwaitStep, SigwaitMain, signal_waiter

\* No step, whichever program runs, breaks SigwaitIInv.
LEMMA SigwaitKept == SigwaitIInv /\ [Next]_vars => SigwaitIInv'
<1> SUFFICES ASSUME SigwaitIInv, [Next]_vars, program = "sigwait" PROVE SigwaitIInv'
  BY Dispatch DEF SigwaitIInv
<1>1. CASE Spurious BY <1>1 DEF Spurious, SigwaitIInv, PcOK, NotCancelled
<1>2. CASE UNCHANGED vars BY <1>2 DEF vars, SigwaitIInv, PcOK, NotCancelled
<1>3. CASE Interrupt BY <1>3, SigwaitStepKeeps, NamedThreads
<1> QED BY <1>1, <1>2, <1>3, SigwaitStepKeeps, Dispatch

\* sigev_thread.c: main waits only while the timer has not expired often enough.
ExpiryIInv ==
  program = "sigev_thread" =>
    /\ PcOK /\ NotCancelled /\ g \in [counter : Nat, armed : BOOLEAN]
    /\ waiters \subseteq {Main}
    /\ Main \in waiters => pc[Main] = "wait" /\ g.counter < Interrupts
    /\ pc[Main] = "exit" => g.counter >= Interrupts

\* Init establishes ExpiryIInv.
LEMMA ExpiryInitial == Init => ExpiryIInv
<1> SUFFICES ASSUME Init, program = "sigev_thread" PROVE ExpiryIInv BY DEF ExpiryIInv
<1>1. ExpiryInit BY InitialState
<1>2. PcOK /\ NotCancelled /\ waiters = {} /\ pc[Main] = "start"
  BY <1>1, NamedThreads DEF ExpiryInit, Start, PcOK, NotCancelled, Main
<1>3. g \in [counter : Nat, armed : BOOLEAN] BY <1>1 DEF ExpiryInit, Start
<1> QED BY <1>2, <1>3 DEF ExpiryIInv

\* The program's own steps preserve ExpiryIInv.
LEMMA ExpiryStepKeeps ==
  ASSUME ExpiryIInv, program = "sigev_thread", NEW t \in Threads, ExpiryStep(t) \/ timer_thread
  PROVE  ExpiryIInv'
<1> USE NamedThreads, ConditionAssumption DEF Main, At, Goto, NoSync, Local
<1>0. program' = program /\ pc[Main] # "exit" BY DEF ExpiryStep, timer_thread, Running
<1>i. /\ PcOK /\ NotCancelled /\ g \in [counter : Nat, armed : BOOLEAN]
      /\ waiters \subseteq {Main}
      /\ Main \in waiters => pc[Main] = "wait" /\ g.counter < Interrupts
  BY DEF ExpiryIInv
<1>1. CASE Local(Main, "start", "loop") /\ g' = [g EXCEPT !.armed = TRUE]
  <2>1. PcOK' /\ NotCancelled' /\ waiters' = {} /\ pc'[Main] = "loop"
    BY <1>i, <1>1 DEF PcOK, NotCancelled
  <2>2. g' \in [counter : Nat, armed : BOOLEAN] BY <1>i, <1>1
  <2> QED BY <1>0, <2>1, <2>2 DEF ExpiryIInv
<1>2. CASE /\ At(Main, "loop") \/ Woken(Main, "wait")
           /\ IF g.counter < Interrupts THEN Wait(Main, "wait") ELSE Goto(Main, "exit") /\ NoSync
           /\ UNCHANGED g
  <2>1. PcOK' /\ NotCancelled' /\ g' = g BY <1>i, <1>2 DEF Wait, PcOK, NotCancelled
  <2>2. \/ g.counter < Interrupts /\ pc'[Main] = "wait" /\ waiters' = waiters \cup {Main}
        \/ ~ (g.counter < Interrupts) /\ pc'[Main] = "exit" /\ waiters' = waiters
    BY <1>i, <1>2 DEF Wait, PcOK
  <2>3. Main \notin waiters BY <1>i, <1>2 DEF Woken
  <2>4. ~ (g.counter < Interrupts) => g.counter >= Interrupts BY <1>i
  <2> QED BY <1>0, <1>i, <2>1, <2>2, <2>3, <2>4 DEF ExpiryIInv
<1>3. CASE timer_thread
  <2>1. /\ g' = [g EXCEPT !.counter = g.counter + 1]
        /\ IF g'.counter >= Interrupts THEN Signal ELSE UNCHANGED waiters
        /\ pc' = pc /\ PcOK' /\ NotCancelled'
    BY <1>i, <1>3 DEF timer_thread, PcOK, NotCancelled
  <2>2. g.counter + 1 \in Nat BY <1>i
  <2>3. g' \in [counter : Nat, armed : BOOLEAN] /\ g'.counter = g.counter + 1 BY <1>i, <2>1, <2>2
  <2>4. waiters' \subseteq waiters /\ (g'.counter >= Interrupts => waiters' = {})
    BY <1>i, <2>1 DEF Signal
  <2>5. ~ (g'.counter >= Interrupts) => g'.counter < Interrupts BY <2>3
  <2> QED BY <1>0, <1>i, <2>1, <2>3, <2>4, <2>5 DEF ExpiryIInv
<1> QED BY <1>1, <1>2, <1>3 DEF ExpiryStep, ExpiryMain

\* No step, whichever program runs, breaks ExpiryIInv.
LEMMA ExpiryKept == ExpiryIInv /\ [Next]_vars => ExpiryIInv'
<1> SUFFICES ASSUME ExpiryIInv, [Next]_vars, program = "sigev_thread" PROVE ExpiryIInv'
  BY Dispatch DEF ExpiryIInv
<1>1. CASE Spurious BY <1>1 DEF Spurious, ExpiryIInv, PcOK, NotCancelled
<1>2. CASE UNCHANGED vars BY <1>2 DEF vars, ExpiryIInv, PcOK, NotCancelled
<1>3. CASE timer_thread BY <1>3, ExpiryStepKeeps, NamedThreads
<1> QED BY <1>1, <1>2, <1>3, ExpiryStepKeeps, Dispatch

\* A number is a multiple of n and its remainder.
LEMMA Division ==
  ASSUME NEW n \in Nat, n > 0, NEW k \in Nat
  PROVE  k % n \in 0 .. n - 1 /\ \E q \in Nat : k = q * n + (k % n)
<1>1. k % n \in 0 .. n - 1 /\ k \div n \in Nat BY Z3
<1>2. k - (k \div n) * n = k % n BY Z3
<1>3. \A r \in 0 .. n - 1, d \in Nat : k - d * n = r => \E q \in Nat : k = q * n + r
  <2> TAKE r \in 0 .. n - 1, d \in Nat
  <2> HAVE k - d * n = r
  <2>1. k = d * n + r OBVIOUS
  <2> QED BY <2>1, Zenon
<1>4. \E q \in Nat : k = q * n + (k % n) BY <1>1, <1>2, <1>3, Zenon
<1> QED BY <1>1, <1>4, Zenon

\* Two numbers less than n apart have different remainders.
LEMMA DifferentRemainders ==
  ASSUME NEW n \in Nat, n > 0, NEW k \in Nat, NEW m \in Nat, k < m, m < k + n
  PROVE  k % n # m % n
<1> SUFFICES ASSUME k % n = m % n PROVE FALSE OBVIOUS
<1>1. PICK x \in Nat : k = x * n + (k % n) BY Division
<1>2. PICK y \in Nat : m = y * n + (m % n) BY Division
<1>3. k % n \in Int BY Division
<1> DEFINE r == k % n
<1>4. r \in Int /\ k = x * n + r /\ m = y * n + r BY <1>1, <1>2, <1>3
<1> HIDE DEF r
<1>5. m - k = (y - x) * n BY <1>4
<1>6. y - x \in Int /\ (y - x <= 0 \/ y - x >= 1) OBVIOUS
<1>7. CASE y - x <= 0
  <2>1. (y - x) * n <= 0 BY <1>7
  <2> QED BY <1>5, <2>1
<1>8. CASE y - x >= 1
  <2>1. (y - x) * n >= n BY <1>8
  <2> QED BY <1>5, <2>1
<1> QED BY <1>6, <1>7, <1>8

\* The variables of qtTest.
QtVariables ==
  [used : 0..BufferSize, buffer : [0 .. BufferSize - 1 -> Nat],
   i : [{Producer, Consumer} -> Nat], got : Nat]

\* The producer or the consumer has passed its test, or its wait has ended.
Passed(t) == pc[t] \in {"item", "count"} \/ (pc[t] = "wait" /\ t \notin waiters)

\* The items between the two indices are in the buffer, and the producer's
\* next one once it has put it there.
QtItems ==
  \A k \in Nat :
    /\ g.i[Consumer] <= k
    /\ k < g.i[Producer] \/ (k = g.i[Producer] /\ pc[Producer] = "count")
    => g.buffer[k % BufferSize] = k

\* qtTest: whoever waits is blocked, whoever has passed its test is not.
QtIInv ==
  program = "qt" =>
    /\ PcOK /\ NotCancelled /\ g \in QtVariables
    /\ g.used = g.i[Producer] - g.i[Consumer]
    /\ waiters \subseteq {Producer, Consumer}
    /\ Producer \in waiters => pc[Producer] = "wait" /\ g.used = BufferSize
    /\ Consumer \in waiters => pc[Consumer] = "wait" /\ g.used = 0
    /\ Passed(Producer) => g.used < BufferSize
    /\ Passed(Consumer) => g.used > 0
    /\ QtItems
    /\ pc[Consumer] = "count" => g.got = g.i[Consumer]
    /\ pc[Main] = "start" => pc[Producer] = "none" /\ pc[Consumer] = "none"

\* Init establishes QtIInv.
LEMMA QtInitial == Init => QtIInv
<1> SUFFICES ASSUME Init, program = "qt" PROVE QtIInv BY DEF QtIInv
<1>1. QtInit BY InitialState
<1>2. PcOK /\ NotCancelled /\ waiters = {} /\ pc[Producer] = "none" /\ pc[Consumer] = "none"
  BY <1>1, NamedThreads DEF QtInit, Start, PcOK, NotCancelled, Main, Producer, Consumer
<1>3. g = [used |-> 0, buffer |-> [k \in 0 .. BufferSize - 1 |-> 0],
           i |-> [t \in {Producer, Consumer} |-> 0], got |-> 0]
  BY <1>1 DEF QtInit, Start
<1>4. 0 \in 0..BufferSize BY ConditionAssumption
<1>5. g \in QtVariables BY <1>3, <1>4 DEF QtVariables
<1>6. g.used = 0 /\ g.i[Producer] = 0 /\ g.i[Consumer] = 0 BY <1>3
<1>7. QtItems
  <2>1. \A k \in Nat : ~ (k < 0) OBVIOUS
  <2>2. pc[Producer] # "count" BY <1>2
  <2> QED BY <1>6, <2>1, <2>2 DEF QtItems
<1>8. ~ Passed(Producer) /\ ~ Passed(Consumer) BY <1>2 DEF Passed
<1>9. g.used = g.i[Producer] - g.i[Consumer] BY <1>6
<1> QED BY <1>2, <1>5, <1>7, <1>8, <1>9 DEF QtIInv

\* The program's own steps preserve QtIInv.
LEMMA QtStepKeeps ==
  ASSUME QtIInv, program = "qt", NEW t \in Threads, QtStep(t)
  PROVE  QtIInv'
<1> USE NamedThreads, ConditionAssumption DEF Main, Producer, Consumer, At, Goto, NoSync, Local
<1>0. program' = program BY DEF QtStep
<1>i. /\ PcOK /\ NotCancelled /\ g \in QtVariables
      /\ g.used = g.i[Producer] - g.i[Consumer]
      /\ waiters \subseteq {Producer, Consumer}
      /\ Producer \in waiters => pc[Producer] = "wait" /\ g.used = BufferSize
      /\ Consumer \in waiters => pc[Consumer] = "wait" /\ g.used = 0
      /\ Passed(Producer) => g.used < BufferSize
      /\ Passed(Consumer) => g.used > 0
      /\ QtItems
      /\ pc[Consumer] = "count" => g.got = g.i[Consumer]
      /\ pc[Main] = "start" => pc[Producer] = "none" /\ pc[Consumer] = "none"
  BY DEF QtIInv
<1>t. g.used \in 0..BufferSize /\ g.i[Producer] \in Nat /\ g.i[Consumer] \in Nat
  BY <1>i DEF QtVariables
<1>b. /\ Blocked(Producer) <=> g.used = BufferSize
      /\ Blocked(Consumer) <=> g.used = 0
  BY DEF Blocked
\* A step that leaves the program's variables alone and in which the producer
\* does not come to count.
<1>f. ASSUME g' = g, PcOK', NotCancelled', waiters' \subseteq {Producer, Consumer},
             Producer \in waiters' => pc'[Producer] = "wait" /\ g.used = BufferSize,
             Consumer \in waiters' => pc'[Consumer] = "wait" /\ g.used = 0,
             Passed(Producer)' => g.used < BufferSize,
             Passed(Consumer)' => g.used > 0,
             pc'[Producer] = "count" => pc[Producer] = "count",
             pc'[Consumer] = "count" => pc[Consumer] = "count",
             pc'[Main] = "start" => pc'[Producer] = "none" /\ pc'[Consumer] = "none"
      PROVE  QtIInv'
  <2>1. QtItems' BY <1>i, <1>f DEF QtItems
  <2> QED BY <1>0, <1>i, <1>f, <2>1 DEF QtIInv
<1>1. CASE QtMain
  <2>1. PcOK' /\ NotCancelled' /\ g' = g /\ waiters' = waiters
    BY <1>i, <1>1 DEF QtMain, PcOK, NotCancelled
  <2>2. CASE At(Main, "start") /\ pc' = [pc EXCEPT ![Main] = "wait", ![Producer] = "begin",
                                                 ![Consumer] = "begin"]
    <3>1. pc'[Main] = "wait" /\ pc'[Producer] = "begin" /\ pc'[Consumer] = "begin"
      BY <1>i, <2>2 DEF PcOK
    <3>2. waiters = {} BY <1>i, <2>2
    <3>3. ~ Passed(Producer)' /\ ~ Passed(Consumer)' BY <3>1 DEF Passed
    <3> QED BY <1>f, <2>1, <3>1, <3>2, <3>3
  <2>3. CASE At(Main, "wait") /\ Goto(Main, "exit")
    <3>1. pc'[Main] = "exit" /\ pc'[Producer] = pc[Producer] /\ pc'[Consumer] = pc[Consumer]
      BY <1>i, <2>3 DEF PcOK
    <3>2. (Passed(Producer)' <=> Passed(Producer)) /\ (Passed(Consumer)' <=> Passed(Consumer))
      BY <2>1, <3>1 DEF Passed
    <3> QED BY <1>f, <1>i, <2>1, <3>1, <3>2
  <2> QED BY <1>1, <2>2, <2>3 DEF QtMain
<1>2. CASE t = Producer /\ run(t)
  <2> DEFINE n == g.i[Producer]
             k == n % BufferSize
  <2>1. n \in Nat /\ k \in 0 .. BufferSize - 1 BY <1>t, Division
  <2>2. PcOK' /\ NotCancelled' /\ pc'[Main] = pc[Main] /\ pc'[Consumer] = pc[Consumer]
    BY <1>i, <1>2 DEF run, Wait, PcOK, NotCancelled
  <2>3. pc[Main] # "start" BY <1>i, <1>2 DEF run, Woken
  <2>4. CASE At(t, "begin") /\ UNCHANGED g
             /\ IF Blocked(t) THEN Wait(t, "wait") ELSE Goto(t, "item") /\ NoSync
    <3>1. \/ g.used = BufferSize /\ pc'[Producer] = "wait" /\ waiters' = waiters \cup {Producer}
          \/ g.used # BufferSize /\ pc'[Producer] = "item" /\ waiters' = waiters
      BY <1>i, <1>2, <1>b, <2>4 DEF Wait, PcOK
    <3>2. Producer \notin waiters BY <1>i, <1>2, <2>4
    <3>3. Passed(Producer)' => g.used < BufferSize BY <1>t, <3>1 DEF Passed
    <3>4. Passed(Consumer)' <=> Passed(Consumer) BY <2>2, <3>1 DEF Passed
    <3>5. waiters' \subseteq {Producer, Consumer} /\ (Consumer \in waiters' => Consumer \in waiters)
      BY <1>i, <3>1
    <3>6. Producer \in waiters' => pc'[Producer] = "wait" /\ g.used = BufferSize BY <3>1, <3>2
    <3>7. g' = g /\ pc'[Producer] # "count" BY <2>4, <3>1
    <3> QED BY <1>f, <1>i, <2>2, <2>3, <3>3, <3>4, <3>5, <3>6, <3>7
  <2>5. CASE Woken(t, "wait") /\ Goto(t, "item") /\ NoSync /\ UNCHANGED g
    <3>1. pc[Producer] = "wait" /\ Producer \notin waiters /\ pc'[Producer] = "item"
          /\ waiters' = waiters /\ g' = g
      BY <1>i, <1>2, <2>5 DEF Woken, PcOK
    <3>2. g.used < BufferSize BY <1>i, <3>1 DEF Passed
    <3>3. Passed(Consumer)' <=> Passed(Consumer) BY <2>2, <3>1 DEF Passed
    <3> QED BY <1>f, <1>i, <2>2, <2>3, <3>1, <3>2, <3>3
  <2>6. CASE Local(t, "item", "count") /\ g' = [g EXCEPT !.buffer[k] = g.i[t]]
    <3>1. g' = [g EXCEPT !.buffer[k] = n] BY <1>2, <2>6
    <3>2. pc[Producer] = "item" /\ pc'[Producer] = "count" /\ waiters' = waiters
      BY <1>i, <1>2, <2>6 DEF PcOK
    <3>h. k \in 0 .. BufferSize - 1 /\ k = n % BufferSize BY <2>1
    <3>u. g.used < BufferSize BY <1>i, <3>2 DEF Passed
    <3> HIDE DEF k
    <3>3. g' \in QtVariables BY <1>i, <2>1, <3>1 DEF QtVariables
    <3>4. /\ g'.used = g.used /\ g'.i = g.i /\ g'.got = g.got /\ g'.buffer[k] = n
          /\ \A j \in 0 .. BufferSize - 1 : j # k => g'.buffer[j] = g.buffer[j]
      BY <1>i, <2>1, <3>1 DEF QtVariables
    <3>5. QtItems'
      <4>1. ASSUME NEW m \in Nat, g.i[Consumer] <= m, m < n PROVE g'.buffer[m % BufferSize] = m
        <5>1. n < m + BufferSize BY <1>i, <1>t, <2>1, <3>u, <4>1
        <5>2. m % BufferSize # k BY <2>1, <3>h, <4>1, <5>1, DifferentRemainders
        <5>3. m % BufferSize \in 0 .. BufferSize - 1 BY Division
        <5>4. g.buffer[m % BufferSize] = m BY <1>i, <4>1 DEF QtItems
        <5> QED BY <3>4, <5>2, <5>3, <5>4
      <4>2. g'.buffer[n % BufferSize] = n BY <3>4, <3>h
      <4>3. g'.i[Consumer] = g.i[Consumer] /\ g'.i[Producer] = n BY <3>4
      <4> HIDE DEF n
      <4> QED BY <4>1, <4>2, <4>3 DEF QtItems
    <3>6. Passed(Consumer)' <=> Passed(Consumer) BY <2>2, <3>2 DEF Passed
    <3> QED BY <1>0, <1>i, <2>2, <2>3, <3>2, <3>3, <3>4, <3>5, <3>6, <3>u DEF QtIInv
  <2>7. CASE At(t, "count") /\ Goto(t, "begin") /\ waiters' = {}
             /\ g' = [g EXCEPT !.used = g.used + 1, !.i[t] = g.i[t] + 1]
    <3>1. pc[Producer] = "count" /\ pc'[Producer] = "begin" BY <1>i, <1>2, <2>7 DEF PcOK
    <3>u. g.used < BufferSize BY <1>i, <3>1 DEF Passed
    <3>2. g.used + 1 \in 0..BufferSize /\ n + 1 \in Nat BY <1>t, <3>u
    <3>3. g' = [g EXCEPT !.used = g.used + 1, !.i[Producer] = n + 1] BY <1>2, <2>7
    <3>4. g' \in QtVariables BY <1>i, <3>2, <3>3 DEF QtVariables
    <3>5. /\ g'.used = g.used + 1 /\ g'.buffer = g.buffer /\ g'.got = g.got
          /\ g'.i[Producer] = n + 1 /\ g'.i[Consumer] = g.i[Consumer]
      BY <1>i, <3>3 DEF QtVariables
    <3>6. QtItems'
      <4>1. ASSUME NEW m \in Nat, g.i[Consumer] <= m, m < n + 1 PROVE g.buffer[m % BufferSize] = m
        <5>1. m < n \/ m = n BY <2>1, <4>1
        <5> QED BY <1>i, <3>1, <4>1, <5>1 DEF QtItems
      <4>2. pc'[Producer] # "count" BY <3>1
      <4> HIDE DEF n
      <4> QED BY <3>5, <4>1, <4>2 DEF QtItems
    <3>7. g'.used = g'.i[Producer] - g'.i[Consumer] BY <1>i, <1>t, <3>5
    <3>8. ~ Passed(Producer)' /\ g'.used > 0 BY <1>t, <3>1, <3>5 DEF Passed
    <3> QED BY <1>0, <1>i, <2>2, <2>3, <2>7, <3>1, <3>4, <3>5, <3>6, <3>7, <3>8 DEF QtIInv
  <2>8. CASE Local(t, "begin", "done") /\ UNCHANGED g
    <3>1. pc[Producer] = "begin" /\ pc'[Producer] = "done" /\ waiters' = waiters /\ g' = g
      BY <1>i, <1>2, <2>8 DEF PcOK
    <3>2. Passed(Consumer)' <=> Passed(Consumer) BY <2>2, <3>1 DEF Passed
    <3>3. ~ Passed(Producer)' /\ Producer \notin waiters BY <1>i, <3>1 DEF Passed
    <3> QED BY <1>f, <1>i, <2>2, <2>3, <3>1, <3>2, <3>3
  <2> QED BY <1>2, <2>4, <2>5, <2>6, <2>7, <2>8 DEF run
<1>3. CASE t = Consumer /\ run(t)
  <2> DEFINE n == g.i[Consumer]
             k == n % BufferSize
  <2>1. n \in Nat /\ k \in 0 .. BufferSize - 1 BY <1>t, Division
  <2>2. PcOK' /\ NotCancelled' /\ pc'[Main] = pc[Main] /\ pc'[Producer] = pc[Producer]
    BY <1>i, <1>3 DEF run, Wait, PcOK, NotCancelled
  <2>3. pc[Main] # "start" BY <1>i, <1>3 DEF run, Woken
  <2>4. CASE At(t, "begin") /\ UNCHANGED g
             /\ IF Blocked(t) THEN Wait(t, "wait") ELSE Goto(t, "item") /\ NoSync
    <3>1. \/ g.used = 0 /\ pc'[Consumer] = "wait" /\ waiters' = waiters \cup {Consumer}
          \/ g.used # 0 /\ pc'[Consumer] = "item" /\ waiters' = waiters
      BY <1>i, <1>3, <1>b, <2>4 DEF Wait, PcOK
    <3>2. Consumer \notin waiters BY <1>i, <1>3, <2>4
    <3>3. Passed(Consumer)' => g.used > 0 BY <1>t, <3>1 DEF Passed
    <3>4. Passed(Producer)' <=> Passed(Producer) BY <2>2, <3>1 DEF Passed
    <3>5. waiters' \subseteq {Producer, Consumer} /\ (Producer \in waiters' => Producer \in waiters)
      BY <1>i, <3>1
    <3>6. Consumer \in waiters' => pc'[Consumer] = "wait" /\ g.used = 0 BY <3>1, <3>2
    <3>7. g' = g /\ pc'[Consumer] # "count" BY <2>4, <3>1
    <3> QED BY <1>f, <1>i, <2>2, <2>3, <3>3, <3>4, <3>5, <3>6, <3>7
  <2>5. CASE Woken(t, "wait") /\ Goto(t, "item") /\ NoSync /\ UNCHANGED g
    <3>1. pc[Consumer] = "wait" /\ Consumer \notin waiters /\ pc'[Consumer] = "item"
          /\ waiters' = waiters /\ g' = g
      BY <1>i, <1>3, <2>5 DEF Woken, PcOK
    <3>2. g.used > 0 BY <1>i, <3>1 DEF Passed
    <3>3. Passed(Producer)' <=> Passed(Producer) BY <2>2, <3>1 DEF Passed
    <3> QED BY <1>f, <1>i, <2>2, <2>3, <3>1, <3>2, <3>3
  <2>6. CASE Local(t, "item", "count") /\ g' = [g EXCEPT !.got = g.buffer[k]]
    <3>2. pc[Consumer] = "item" /\ pc'[Consumer] = "count" /\ waiters' = waiters
      BY <1>i, <1>3, <2>6 DEF PcOK
    <3>u. g.used > 0 BY <1>i, <3>2 DEF Passed
    <3>1. n < g.i[Producer] BY <1>i, <1>t, <3>u
    <3>3. g.buffer[k] = n BY <1>i, <1>t, <3>1 DEF QtItems
    <3>4. g' = [g EXCEPT !.got = n] BY <2>6, <3>3
    <3>5. g' \in QtVariables BY <1>i, <2>1, <3>4 DEF QtVariables
    <3>6. g'.used = g.used /\ g'.i = g.i /\ g'.buffer = g.buffer /\ g'.got = n
      BY <1>i, <3>4 DEF QtVariables
    <3>7. QtItems' BY <1>i, <2>2, <3>6 DEF QtItems
    <3>8. Passed(Producer)' <=> Passed(Producer) BY <2>2, <3>2 DEF Passed
    <3> QED BY <1>0, <1>i, <2>2, <2>3, <3>2, <3>5, <3>6, <3>7, <3>8, <3>u DEF QtIInv
  <2>7. CASE At(t, "count") /\ Goto(t, "begin") /\ waiters' = {}
             /\ g' = [g EXCEPT !.used = g.used + (-1), !.i[t] = g.i[t] + 1]
    <3>1. pc[Consumer] = "count" /\ pc'[Consumer] = "begin" BY <1>i, <1>3, <2>7 DEF PcOK
    <3>u. g.used > 0 BY <1>i, <3>1 DEF Passed
    <3>2. g.used - 1 \in 0..BufferSize /\ n + 1 \in Nat /\ g.used + (-1) = g.used - 1 BY <1>t, <3>u
    <3>3. g' = [g EXCEPT !.used = g.used - 1, !.i[Consumer] = n + 1] BY <1>3, <2>7, <3>2
    <3>4. g' \in QtVariables BY <1>i, <3>2, <3>3 DEF QtVariables
    <3>5. /\ g'.used = g.used - 1 /\ g'.buffer = g.buffer /\ g'.got = g.got
          /\ g'.i[Consumer] = n + 1 /\ g'.i[Producer] = g.i[Producer]
      BY <1>i, <3>3 DEF QtVariables
    <3>6. QtItems'
      <4>1. \A m \in Nat : n + 1 <= m => n <= m BY <2>1
      <4> HIDE DEF n
      <4> QED BY <1>i, <2>2, <3>5, <4>1 DEF QtItems, n
    <3>7. g'.used = g'.i[Producer] - g'.i[Consumer] BY <1>i, <1>t, <3>5
    <3>8. ~ Passed(Consumer)' /\ g'.used < BufferSize BY <1>t, <3>1, <3>5 DEF Passed
    <3> QED BY <1>0, <1>i, <2>2, <2>3, <2>7, <3>1, <3>4, <3>5, <3>6, <3>7, <3>8 DEF QtIInv
  <2>8. CASE Local(t, "begin", "done") /\ UNCHANGED g
    <3>1. pc[Consumer] = "begin" /\ pc'[Consumer] = "done" /\ waiters' = waiters /\ g' = g
      BY <1>i, <1>3, <2>8 DEF PcOK
    <3>2. Passed(Producer)' <=> Passed(Producer) BY <2>2, <3>1 DEF Passed
    <3>3. ~ Passed(Consumer)' /\ Consumer \notin waiters BY <1>i, <3>1 DEF Passed
    <3> QED BY <1>f, <1>i, <2>2, <2>3, <3>1, <3>2, <3>3
  <2> QED BY <1>3, <2>4, <2>5, <2>6, <2>7, <2>8 DEF run
<1> QED BY <1>1, <1>2, <1>3 DEF QtStep

\* No step, whichever program runs, breaks QtIInv.
LEMMA QtKept == QtIInv /\ [Next]_vars => QtIInv'
<1> SUFFICES ASSUME QtIInv, [Next]_vars, program = "qt" PROVE QtIInv'
  BY Dispatch DEF QtIInv
<1>1. CASE UNCHANGED vars BY <1>1 DEF vars, QtIInv, PcOK, NotCancelled, Passed, QtItems
<1> QED BY <1>1, QtStepKeeps, Dispatch

\* What QtIInv says of the program.
LEMMA QtImplies == QtIInv => ItemsInOrder
<1> SUFFICES ASSUME QtIInv, program = "qt" PROVE ItemsInOrder BY DEF ItemsInOrder
<1>1. \A t \in waiters : Blocked(t) BY DEF QtIInv, Blocked, Producer, Consumer
<1>2. g.used \in 0..BufferSize BY DEF QtIInv, QtVariables
<1> QED BY <1>1, <1>2 DEF QtIInv, ItemsInOrder, At

\* What the condition variable programs count is exact and nobody waits for a
\* signal that has been sent: the count of condition.c, the report of cond.c,
\* the interrupts of sigwait.c, the expirations of sigev_thread.c and the items
\* of qtTest, for all limits, sizes and numbers of items.
THEOREM ConditionCorrect == Spec => []ConditionInv
<1>1. CountIInv => CountExact /\ WatcherNotStranded
  BY DEF CountIInv, CountExact, WatcherNotStranded
<1>2. CondIInv => CondReports BY DEF CondIInv, CondReports
<1>3. SigwaitIInv => InterruptsCounted BY DEF SigwaitIInv, InterruptsCounted, At
<1>4. ExpiryIInv => ExpirationsCounted BY DEF ExpiryIInv, ExpirationsCounted, At
<1> QED
  BY <1>1, <1>2, <1>3, <1>4, QtImplies, CountInitial, CountKept, CondInitial, CondKept,
     SigwaitInitial, SigwaitKept, ExpiryInitial, ExpiryKept, QtInitial, QtKept, PTL
     DEF Spec, ConditionInv

-----------------------------------------------------------------------------
(* Shared results.                                                         *)

\* The variables of trylock.c.
TrylockVariables == [counter : Nat, spin : Nat, misses : Nat, seen : Nat, over : BOOLEAN]

\* The counter is a whole number of rounds and n.
RoundsAnd(n) == \E r \in Nat : g.counter = r * SPIN + n

\* trylock.c: the counter is a whole number of rounds but while the thread that
\* has the mutex counts.
TrylockIInv ==
  program = "trylock" =>
    /\ PcOK /\ Unused /\ g.seen % SPIN = 0
    /\ g \in TrylockVariables
    /\ pc[Main] = "start" => pc[Counter] = "none" /\ pc[Monitor] = "none"
    /\ pc[Counter] = "spin" => mutex = Counter /\ g.spin <= SPIN /\ RoundsAnd(g.spin)
    /\ pc[Counter] # "spin" => RoundsAnd(0)
    /\ pc[Monitor] = "look" => mutex = Monitor

\* What is left of whole rounds is nothing.
LEMMA NothingLeft ==
  ASSUME NEW n \in Nat, n > 0, NEW r \in Nat
  PROVE  (r * n) % n = 0
BY Z3

\* Init establishes TrylockIInv.
LEMMA TrylockInitial == Init => TrylockIInv
<1> SUFFICES ASSUME Init, program = "trylock" PROVE TrylockIInv BY DEF TrylockIInv
<1> USE NamedThreads, MutexAssumption
<1>1. TrylockInit BY InitialState
<1>2. g = [counter |-> 0, spin |-> 0, misses |-> 0, seen |-> 0, over |-> FALSE] BY <1>1 DEF TrylockInit, Start
<1>3. g \in TrylockVariables /\ g.counter = 0 /\ g.seen = 0 BY <1>2 DEF TrylockVariables
<1>4. RoundsAnd(0)
  <2>1. g.counter = 0 * SPIN + 0 BY <1>3
  <2> QED BY <2>1 DEF RoundsAnd
<1>5. g.seen % SPIN = 0 BY <1>3
<1> QED BY <1>1, <1>3, <1>4, <1>5 DEF TrylockInit, Start, TrylockIInv, PcOK, Unused, Main, Counter, Monitor

\* The program's own steps preserve TrylockIInv.
LEMMA TrylockStepKeeps ==
  ASSUME TrylockIInv, program = "trylock", TrylockMain \/ counter_thread \/ monitor_thread \/ Minute,
         program' = program
  PROVE  TrylockIInv'
<1> USE NamedThreads, MutexAssumption
    DEF Main, Counter, Monitor, At, Goto, NoSync, Local, Lock, Unlock, Ended
<1>0. program' = program OBVIOUS
<1>i. /\ PcOK /\ Unused /\ g.seen % SPIN = 0
      /\ g \in TrylockVariables
      /\ pc[Main] = "start" => pc[Counter] = "none" /\ pc[Monitor] = "none"
      /\ pc[Counter] = "spin" => mutex = Counter /\ g.spin <= SPIN /\ RoundsAnd(g.spin)
      /\ pc[Counter] # "spin" => RoundsAnd(0)
      /\ pc[Monitor] = "look" => mutex = Monitor
  BY DEF TrylockIInv
<1>t. /\ g.counter \in Nat /\ g.spin \in Nat /\ g.misses \in Nat /\ g.seen \in Nat
      /\ SPIN \in Nat /\ SPIN > 0
  BY <1>i DEF TrylockVariables
<1>r. g'.counter = g.counter => \A n \in Nat : RoundsAnd(n)' <=> RoundsAnd(n) BY DEF RoundsAnd
<1>1. CASE TrylockMain
  <2>1. g' = g /\ PcOK' /\ Unused' /\ mutex' = mutex BY <1>i, <1>1 DEF TrylockMain, PcOK, Unused
  <2>2. \/ /\ pc[Main] = "start" /\ pc'[Main] = "join"
           /\ pc'[Counter] \in {"none", "begin"} /\ pc'[Monitor] \in {"none", "begin"}
        \/ pc'[Main] \in {"exit", "fault"} /\ pc'[Counter] = pc[Counter] /\ pc'[Monitor] = pc[Monitor]
    BY <1>i, <1>1 DEF TrylockMain, PcOK
  <2> QED BY <1>0, <1>i, <1>t, <1>r, <2>1, <2>2 DEF TrylockIInv
<1>2. CASE Minute
  <2>1. g' = [g EXCEPT !.over = TRUE] /\ pc' = pc /\ PcOK' /\ Unused' /\ mutex' = mutex
    BY <1>i, <1>2 DEF Minute, PcOK, Unused
  <2>2. g' \in TrylockVariables /\ g'.counter = g.counter /\ g'.spin = g.spin /\ g'.seen = g.seen
    BY <1>i, <2>1 DEF TrylockVariables
  <2> QED BY <1>0, <1>i, <1>t, <1>r, <2>1, <2>2 DEF TrylockIInv
<1>3. CASE counter_thread
  <2>p. pc[Main] # "start" BY <1>i, <1>3 DEF counter_thread
  <2>1. CASE (g.over /\ Local(Counter, "begin", "done") /\ UNCHANGED g)
             \/ (~ g.over /\ g.counter < Rounds * SPIN /\ Local(Counter, "begin", "lock") /\ UNCHANGED g)
    <3>1. /\ g' = g /\ PcOK' /\ Unused' /\ mutex' = mutex /\ pc'[Monitor] = pc[Monitor] /\ pc'[Main] = pc[Main]
          /\ pc[Counter] = "begin" /\ pc'[Counter] # "spin"
      BY <1>i, <2>1 DEF PcOK, Unused
    <3> QED BY <1>0, <1>i, <1>t, <1>r, <2>p, <3>1 DEF TrylockIInv
  <2>2. CASE Lock(Counter, "lock", "spin") /\ g' = [g EXCEPT !.spin = 0]
    <3>1. /\ PcOK' /\ Unused' /\ mutex' = Counter /\ mutex = None
          /\ pc'[Monitor] = pc[Monitor] /\ pc'[Main] = pc[Main] /\ pc[Counter] = "lock" /\ pc'[Counter] = "spin"
      BY <1>i, <2>2 DEF PcOK, Unused
    <3>2. g' \in TrylockVariables /\ g'.counter = g.counter /\ g'.spin = 0 /\ g'.seen = g.seen
      BY <1>i, <2>2 DEF TrylockVariables
    <3>3. pc[Monitor] # "look" BY <1>i, <3>1
    <3> QED BY <1>0, <1>i, <1>t, <1>r, <2>p, <3>1, <3>2, <3>3 DEF TrylockIInv
  <2>3. CASE /\ g.spin < SPIN /\ Local(Counter, "spin", "spin")
             /\ g' = [g EXCEPT !.spin = @ + 1, !.counter = @ + 1]
    <3>1. /\ PcOK' /\ Unused' /\ mutex' = mutex
          /\ pc'[Monitor] = pc[Monitor] /\ pc'[Main] = pc[Main] /\ pc[Counter] = "spin" /\ pc'[Counter] = "spin"
      BY <1>i, <2>3 DEF PcOK, Unused
    <3>2. g' = [g EXCEPT !.spin = g.spin + 1, !.counter = g.counter + 1] BY <2>3
    <3>3. g.spin + 1 \in Nat /\ g.counter + 1 \in Nat BY <1>t
    <3>4. g' \in TrylockVariables BY <1>i, <3>2, <3>3 DEF TrylockVariables
    <3>5. g'.counter = g.counter + 1 /\ g'.spin = g.spin + 1 /\ g'.seen = g.seen
      BY <1>i, <3>2 DEF TrylockVariables
    <3>6. RoundsAnd(g.spin)' 
      <4>1. PICK r \in Nat : g.counter = r * SPIN + g.spin BY <1>i, <3>1 DEF RoundsAnd
      <4>2. g'.counter = r * SPIN + g'.spin BY <1>t, <3>5, <4>1
      <4> QED BY <4>2 DEF RoundsAnd
    <3>7. g'.spin <= SPIN BY <1>t, <2>3, <3>5
    <3> QED BY <1>0, <1>i, <2>p, <3>1, <3>4, <3>5, <3>6, <3>7 DEF TrylockIInv
  <2>4. CASE g.spin = SPIN /\ Unlock(Counter, "spin", "begin") /\ UNCHANGED g
    <3>1. /\ PcOK' /\ Unused' /\ mutex = Counter /\ mutex' = None /\ g' = g
          /\ pc'[Monitor] = pc[Monitor] /\ pc'[Main] = pc[Main] /\ pc[Counter] = "spin" /\ pc'[Counter] = "begin"
      BY <1>i, <2>4 DEF PcOK, Unused
    <3>2. RoundsAnd(0)'
      <4>1. PICK r \in Nat : g.counter = r * SPIN + g.spin BY <1>i, <3>1 DEF RoundsAnd
      <4>2. r + 1 \in Nat /\ (r + 1) * SPIN = r * SPIN + SPIN /\ r * SPIN \in Nat BY <1>t
      <4>3. g'.counter = (r + 1) * SPIN + 0 BY <1>t, <2>4, <3>1, <4>1, <4>2
      <4> QED BY <4>2, <4>3 DEF RoundsAnd
    <3>3. pc[Monitor] # "look" BY <1>i, <3>1
    <3> QED BY <1>0, <1>i, <2>p, <3>1, <3>2, <3>3 DEF TrylockIInv
  <2> QED BY <1>3, <2>1, <2>2, <2>3, <2>4 DEF counter_thread
<1>4. CASE monitor_thread
  <2>p. pc[Main] # "start" BY <1>i, <1>4 DEF monitor_thread
  <2>1. CASE (g.over /\ Local(Monitor, "begin", "done") /\ UNCHANGED g)
             \/ (~ g.over /\ Local(Monitor, "begin", "try") /\ UNCHANGED g)
    <3>1. /\ g' = g /\ PcOK' /\ Unused' /\ mutex' = mutex /\ pc'[Counter] = pc[Counter] /\ pc'[Main] = pc[Main]
          /\ pc'[Monitor] # "look"
      BY <1>i, <2>1 DEF PcOK, Unused
    <3> QED BY <1>0, <1>i, <1>t, <1>r, <2>p, <3>1 DEF TrylockIInv
  <2>2. CASE Lock(Monitor, "try", "look") /\ UNCHANGED g
    <3>1. /\ g' = g /\ PcOK' /\ Unused' /\ mutex = None /\ mutex' = Monitor
          /\ pc'[Counter] = pc[Counter] /\ pc'[Main] = pc[Main]
      BY <1>i, <2>2 DEF PcOK, Unused
    <3>2. pc[Counter] # "spin" BY <1>i, <3>1
    <3> QED BY <1>0, <1>i, <1>t, <1>r, <2>p, <3>1, <3>2 DEF TrylockIInv
  <2>3. CASE /\ mutex # None /\ g.misses < MaxMisses
             /\ Local(Monitor, "try", "begin") /\ g' = [g EXCEPT !.misses = @ + 1]
    <3>1. /\ PcOK' /\ Unused' /\ mutex' = mutex /\ pc'[Counter] = pc[Counter] /\ pc'[Main] = pc[Main]
          /\ pc'[Monitor] = "begin"
      BY <1>i, <2>3 DEF PcOK, Unused
    <3>2. g' = [g EXCEPT !.misses = g.misses + 1] /\ g.misses + 1 \in Nat BY <1>t, <2>3
    <3>3. g' \in TrylockVariables /\ g'.counter = g.counter /\ g'.spin = g.spin /\ g'.seen = g.seen
      BY <1>i, <3>2 DEF TrylockVariables
    <3> QED BY <1>0, <1>i, <1>t, <1>r, <2>p, <3>1, <3>3 DEF TrylockIInv
  <2>4. CASE Unlock(Monitor, "look", "begin") /\ g' = [g EXCEPT !.seen = g.counter]
    <3>1. /\ PcOK' /\ Unused' /\ mutex = Monitor /\ mutex' = None
          /\ pc'[Counter] = pc[Counter] /\ pc'[Main] = pc[Main] /\ pc'[Monitor] = "begin"
      BY <1>i, <2>4 DEF PcOK, Unused
    <3>2. pc[Counter] # "spin" BY <1>i, <3>1
    <3>3. g' \in TrylockVariables /\ g'.counter = g.counter /\ g'.spin = g.spin /\ g'.seen = g.counter
      BY <1>i, <1>t, <2>4 DEF TrylockVariables
    <3>4. g'.seen % SPIN = 0
      <4>1. PICK r \in Nat : g.counter = r * SPIN + 0 BY <1>i, <3>2 DEF RoundsAnd
      <4>2. g'.seen = r * SPIN BY <1>t, <3>3, <4>1
      <4> QED BY <1>t, <4>2, NothingLeft
    <3> QED BY <1>0, <1>i, <1>t, <1>r, <2>p, <3>1, <3>2, <3>3, <3>4 DEF TrylockIInv
  <2> QED BY <1>4, <2>1, <2>2, <2>3, <2>4 DEF monitor_thread
<1> QED BY <1>1, <1>2, <1>3, <1>4

\* No step, whichever program runs, breaks TrylockIInv.
LEMMA TrylockKept == TrylockIInv /\ [Next]_vars => TrylockIInv'
<1> SUFFICES ASSUME TrylockIInv, [Next]_vars, program = "trylock" PROVE TrylockIInv'
  BY Dispatch DEF TrylockIInv
<1>0. program' = program BY Dispatch
<1>1. CASE Spurious BY <1>1 DEF Spurious, TrylockIInv, Unused
<1>2. CASE UNCHANGED vars BY <1>2 DEF vars, TrylockIInv, PcOK, Unused, RoundsAnd
<1>3. CASE Minute BY <1>0, <1>3, TrylockStepKeeps
<1>4. CASE \E t \in Threads : TrylockStep(t) BY <1>0, <1>4, TrylockStepKeeps DEF TrylockStep
<1> QED BY <1>1, <1>2, <1>3, <1>4, Dispatch

\* The variables of mutex-1.c.
DotVariables == [created : 0..NUMTHRDS, sum : Nat, read : [DotThreads -> Nat]]

\* The threads whose slice is in the sum.
DotEnded == {t \in DotThreads : Ended(t)}

\* mutex-1.c: the thread that has the mutex knows the sum.
DotIInv ==
  program = "dotprod" =>
    /\ PcOK /\ Unused /\ g.sum = VECLEN * Cardinality(DotEnded)
    /\ g \in DotVariables
    /\ \A t \in DotThreads : pc[t] = "add" => mutex = t /\ g.read[t] = g.sum
    /\ \A t \in DotThreads : t > g.created => pc[t] = "none"

\* The threads that have ended can be counted.
LEMMA DotCounted ==
  /\ DotThreads \subseteq Threads /\ Main \notin DotThreads
  /\ IsFiniteSet(DotEnded) /\ Cardinality(DotEnded) \in Nat
<1>1. DotThreads \subseteq Threads /\ Main \notin DotThreads /\ NUMTHRDS \in Nat
  BY MutexAssumption, NamedThreads DEF DotThreads, Threads, Main
<1>2. IsFiniteSet(DotThreads) BY <1>1, FS_Interval DEF DotThreads
<1>3. DotEnded \subseteq DotThreads BY DEF DotEnded
<1> QED BY <1>1, <1>2, <1>3, FS_Subset, FS_CardinalityType

\* Init establishes DotIInv.
LEMMA DotInitial == Init => DotIInv
<1> SUFFICES ASSUME Init, program = "dotprod" PROVE DotIInv BY DEF DotIInv
<1> USE NamedThreads, MutexAssumption, DotCounted
<1>1. DotInit BY InitialState
<1>2. g = [created |-> 0, sum |-> 0, read |-> [t \in DotThreads |-> 0]] BY <1>1 DEF DotInit, Start
<1>3. g \in DotVariables /\ g.sum = 0 BY <1>2 DEF DotVariables
<1>4. \A t \in DotThreads : pc[t] = "none" BY <1>1 DEF DotInit, Start
<1>5. DotEnded = {} BY <1>4 DEF DotEnded, Ended
<1>6. g.sum = VECLEN * Cardinality(DotEnded) BY <1>3, <1>5, FS_EmptySet
<1> QED BY <1>1, <1>3, <1>4, <1>6 DEF DotInit, Start, DotIInv, PcOK, Unused

\* The program's own steps preserve DotIInv.
LEMMA DotStepKeeps ==
  ASSUME DotIInv, program = "dotprod", NEW t \in Threads, DotStep(t)
  PROVE  DotIInv'
<1> USE NamedThreads, MutexAssumption, DotCounted
    DEF At, Goto, NoSync, Local, Lock, Unlock
<1>0. program' = program BY DEF DotStep
<1>i. /\ PcOK /\ Unused /\ g.sum = VECLEN * Cardinality(DotEnded)
      /\ g \in DotVariables
      /\ \A u \in DotThreads : pc[u] = "add" => mutex = u /\ g.read[u] = g.sum
      /\ \A u \in DotThreads : u > g.created => pc[u] = "none"
  BY DEF DotIInv
<1>t. g.created \in 0..NUMTHRDS /\ g.sum \in Nat /\ g.read \in [DotThreads -> Nat] BY <1>i DEF DotVariables
<1>e. (\A u \in DotThreads : Ended(u)' <=> Ended(u)) => DotEnded' = DotEnded BY DEF DotEnded
<1>1. CASE t = Main /\ DotMain
  <2>1. CASE /\ g.created < NUMTHRDS
             /\ Create(Main, g.created + 1, "start", "start") /\ NoSync
             /\ g' = [g EXCEPT !.created = @ + 1]
    <3> DEFINE c == g.created + 1
    <3>0. c \in DotThreads /\ c \in 0..NUMTHRDS /\ c > g.created
      <4> DEFINE k == g.created
      <4>1. k \in Nat /\ NUMTHRDS \in Nat /\ k < NUMTHRDS BY <1>t, <2>1
      <4> HIDE DEF k
      <4>2. k + 1 \in 1..NUMTHRDS /\ k + 1 \in 0..NUMTHRDS /\ k + 1 > k BY ONLY <4>1
      <4> QED BY <4>2 DEF DotThreads, k
    <3>1. c \in DotThreads /\ c \in 0..NUMTHRDS /\ pc[c] = "none" BY <1>i, <3>0
    <3>2. g' = [g EXCEPT !.created = c] BY <2>1
    <3>3. pc' = [pc EXCEPT ![Main] = "start", ![c] = "begin"] /\ mutex' = mutex
      BY <2>1 DEF Create
    <3> HIDE DEF c
    <3>4. g' \in DotVariables /\ g'.created = c /\ g'.sum = g.sum /\ g'.read = g.read
      BY <1>i, <3>1, <3>2 DEF DotVariables
    <3>5. PcOK' /\ Unused' BY <1>i, <2>1, <3>3 DEF PcOK, Unused
    <3>6. pc'[c] = "begin" /\ \A u \in DotThreads : u # c => pc'[u] = pc[u]
      BY <1>i, <3>1, <3>3 DEF PcOK
    <3>7. DotEnded' = DotEnded BY <1>e, <3>1, <3>6 DEF Ended
    <3>8. \A u \in DotThreads : u > c => u > g.created /\ u # c BY <1>t, <3>1 DEF c, DotThreads
    <3>9. \A u \in DotThreads : pc'[u] = "add" => mutex' = u /\ g'.read[u] = g'.sum
      BY <1>i, <3>3, <3>4, <3>6
    <3>10. \A u \in DotThreads : u > g'.created => pc'[u] = "none" BY <1>i, <3>4, <3>6, <3>8
    <3>11. g'.sum = VECLEN * Cardinality(DotEnded') BY <1>i, <3>4, <3>7
    <3> QED BY <1>0, <3>4, <3>5, <3>9, <3>10, <3>11 DEF DotIInv
  <2>2. CASE Local(Main, "start", "exit") /\ UNCHANGED g
    <3>1. PcOK' /\ Unused' /\ g' = g /\ mutex' = mutex /\ \A u \in DotThreads : pc'[u] = pc[u]
      BY <1>i, <2>2 DEF PcOK, Unused
    <3>2. DotEnded' = DotEnded BY <1>e, <3>1 DEF Ended
    <3> QED BY <1>0, <1>i, <3>1, <3>2 DEF DotIInv
  <2> QED BY <1>1, <2>1, <2>2 DEF DotMain
<1>2. CASE t \in DotThreads /\ dotprod(t)
  <2>n. pc[t] # "none" /\ \A u \in DotThreads : u # t => pc'[u] = pc[u] BY <1>i, <1>2 DEF dotprod, PcOK
  <2>1. CASE Local(t, "begin", "lock") /\ UNCHANGED g
    <3>1. PcOK' /\ Unused' /\ g' = g /\ mutex' = mutex /\ pc[t] = "begin" /\ pc'[t] = "lock"
      BY <1>i, <2>1 DEF PcOK, Unused
    <3>2. DotEnded' = DotEnded BY <1>e, <2>n, <3>1 DEF Ended
    <3> QED BY <1>0, <1>2, <1>i, <2>n, <3>1, <3>2 DEF DotIInv
  <2>2. CASE Lock(t, "lock", "add") /\ g' = [g EXCEPT !.read[t] = g.sum]
    <3>1. PcOK' /\ Unused' /\ mutex = None /\ mutex' = t /\ pc[t] = "lock" /\ pc'[t] = "add"
      BY <1>i, <2>2 DEF PcOK, Unused
    <3>2. DotEnded' = DotEnded BY <1>e, <2>n, <3>1 DEF Ended
    <3>3. g' \in DotVariables /\ g'.created = g.created /\ g'.sum = g.sum /\ g'.read[t] = g.sum
      BY <1>2, <1>i, <1>t, <2>2 DEF DotVariables
    <3>4. \A u \in DotThreads : u # t => pc[u] # "add" BY <1>i, <3>1
    <3> QED BY <1>0, <1>2, <1>i, <2>n, <3>1, <3>2, <3>3, <3>4 DEF DotIInv
  <2>3. CASE Unlock(t, "add", "done") /\ g' = [g EXCEPT !.sum = g.read[t] + VECLEN]
    <3>1. PcOK' /\ Unused' /\ mutex = t /\ mutex' = None /\ pc[t] = "add" /\ pc'[t] = "done"
      BY <1>2, <1>i, <2>3 DEF PcOK, Unused
    <3>2. DotEnded' = DotEnded \cup {t} /\ t \notin DotEnded BY <1>2, <2>n, <3>1 DEF DotEnded, Ended
    <3>3. Cardinality(DotEnded') = Cardinality(DotEnded) + 1 BY <3>2, FS_AddElement
    <3>4. g.read[t] = g.sum /\ g.sum + VECLEN \in Nat BY <1>2, <1>i, <1>t, <3>1
    <3>5. g' \in DotVariables /\ g'.created = g.created /\ g'.sum = g.sum + VECLEN /\ g'.read = g.read
      BY <1>i, <2>3, <3>4 DEF DotVariables
    <3>6. g'.sum = VECLEN * Cardinality(DotEnded')
      <4> DEFINE k == Cardinality(DotEnded)
      <4>1. k \in Nat OBVIOUS
      <4>2. g.sum = VECLEN * k BY <1>i
      <4> HIDE DEF k
      <4>3. VECLEN * (k + 1) = VECLEN * k + VECLEN BY <4>1
      <4> QED BY <3>3, <3>5, <4>2, <4>3 DEF k
    <3>7. \A u \in DotThreads : u # t => pc[u] # "add" BY <1>i, <3>1
    <3> QED BY <1>0, <1>2, <1>i, <2>n, <3>1, <3>5, <3>6, <3>7 DEF DotIInv
  <2> QED BY <1>2, <2>1, <2>2, <2>3 DEF dotprod
<1> QED BY <1>1, <1>2 DEF DotStep

\* No step, whichever program runs, breaks DotIInv.
LEMMA DotKept == DotIInv /\ [Next]_vars => DotIInv'
<1> SUFFICES ASSUME DotIInv, [Next]_vars, program = "dotprod" PROVE DotIInv'
  BY Dispatch DEF DotIInv
<1>1. CASE Spurious BY <1>1 DEF Spurious, DotIInv, Unused
<1>2. CASE UNCHANGED vars BY <1>2 DEF vars, DotIInv, PcOK, Unused, DotEnded, Ended
<1> QED BY <1>1, <1>2, DotStepKeeps, Dispatch

\* A nonempty set of numbers has a least element.
LEMMA Least ==
  ASSUME NEW S \in SUBSET Nat, S # {}
  PROVE  \E n \in S : \A m \in S : n <= m
<1>1. PICK n \in S : \A m \in S : <<m, n>> \notin OpToRel(<, Nat)
  BY NatLessThanWellFounded, WFMin, Zenon
<1>2. \A m \in S : ~ (m < n) BY <1>1, Zenon DEF OpToRel
<1> QED BY <1>2

\* How far the range is covered by the first k blocks.
Reach(k) == IF k = NumThreads THEN g.length ELSE k * (g.length \div NumThreads)

\* There is a thread for every block, and the blocks follow each other from the
\* beginning of the range to its end.
LEMMA BlocksCover ==
  ASSUME g.length \in Nat, g.length > 0, g.hardware \in Threads
  PROVE  /\ NumThreads \in 1..LastThread
         /\ Reach(0) = 0 /\ Reach(NumThreads) = g.length
         /\ \A k \in 1..NumThreads :
              /\ Reach(k - 1) \in Nat /\ Reach(k) \in Nat /\ Reach(k - 1) <= Reach(k)
              /\ Block(k) = [j \in 1 .. Reach(k) - Reach(k - 1) |-> Reach(k - 1) + j]
<1> USE NamedThreads, MutexAssumption
<1> DEFINE most == (g.length + MinPerThread - 1) \div MinPerThread
           hardware == IF g.hardware # 0 THEN g.hardware ELSE 2
           n == NumThreads
           size == g.length \div NumThreads
<1>1. most \in Nat /\ most >= 1
  <2>1. \A a, b \in Nat : b > 0 /\ a >= b => a \div b \in Nat /\ a \div b >= 1 BY Z3
  <2>2. g.length + MinPerThread - 1 \in Nat /\ g.length + MinPerThread - 1 >= MinPerThread /\ MinPerThread \in Nat /\ MinPerThread > 0
    OBVIOUS
  <2> QED BY <2>1, <2>2
<1>2. hardware \in 1..LastThread BY DEF Threads
<1>3. n = IF hardware <= most THEN hardware ELSE most BY DEF NumThreads
<1> HIDE DEF most, hardware
<1>4. n \in 1..LastThread BY <1>1, <1>2, <1>3
<1>5. size \in Nat /\ n * size <= g.length
  <2>1. \A a, b \in Nat : b > 0 => a \div b \in Nat /\ b * (a \div b) <= a BY Z3
  <2> QED BY <1>4, <2>1
<1>6. \A k : Reach(k) = IF k = n THEN g.length ELSE k * size BY DEF Reach
<1>7. \A k : Block(k) = [j \in 1 .. (IF k = n THEN g.length ELSE k * size) - (k - 1) * size |-> (k - 1) * size + j]
  BY DEF Block
<1> HIDE DEF n, size
<1>8. Reach(0) = 0 /\ Reach(n) = g.length BY <1>4, <1>5, <1>6
<1>9. ASSUME NEW k \in 1..n
      PROVE  /\ Reach(k - 1) \in Nat /\ Reach(k) \in Nat /\ Reach(k - 1) <= Reach(k)
             /\ Block(k) = [j \in 1 .. Reach(k) - Reach(k - 1) |-> Reach(k - 1) + j]
  <2>1. k - 1 \in Nat /\ k \in Nat /\ k - 1 # n BY <1>4
  <2>2. Reach(k - 1) = (k - 1) * size /\ Reach(k) = IF k = n THEN g.length ELSE k * size BY <1>6, <2>1
  <2>3. (k - 1) * size \in Nat /\ k * size \in Nat /\ k * size = (k - 1) * size + size BY <1>5, <2>1
  <2>4. k = n => k * size <= g.length BY <1>5
  <2>5. Reach(k - 1) \in Nat /\ Reach(k) \in Nat /\ Reach(k - 1) <= Reach(k)
    BY <1>5, <2>2, <2>3, <2>4
  <2> QED BY <1>7, <2>2, <2>5, Zenon
<1> QED BY <1>4, <1>8, <1>9 DEF n

\* Adding the next elements to the first ones.
LEMMA NextElements ==
  ASSUME NEW a \in Nat, NEW b \in Nat, a <= b
  PROVE  /\ [j \in 1 .. b - a |-> a + j] \in Seq(Nat)
         /\ [j \in 1 .. a |-> j] \o [j \in 1 .. b - a |-> a + j] = [j \in 1 .. b |-> j]
<1> DEFINE s == [j \in 1 .. a |-> j]
           t == [j \in 1 .. b - a |-> a + j]
           u == [j \in 1 .. b |-> j]
<1>1. s \in Seq(Nat) /\ Len(s) = a /\ \A j \in 1..a : s[j] = j OBVIOUS
<1>2. t \in Seq(Nat) /\ Len(t) = b - a /\ \A j \in 1 .. b - a : t[j] = a + j OBVIOUS
<1>3. u \in Seq(Nat) /\ Len(u) = b /\ \A j \in 1..b : u[j] = j OBVIOUS
<1> HIDE DEF s, t, u
<1>c. /\ s \o t \in Seq(Nat) /\ Len(s \o t) = Len(s) + Len(t)
      /\ \A i \in 1 .. Len(s) + Len(t) : (s \o t)[i] = IF i <= Len(s) THEN s[i] ELSE t[i - Len(s)]
  BY <1>1, <1>2, ConcatProperties, Zenon
<1>l. Len(s) = a /\ Len(s) + Len(t) = b BY <1>1, <1>2
<1>4. /\ s \o t \in Seq(Nat) /\ Len(s \o t) = b
      /\ \A i \in 1..b : (s \o t)[i] = IF i <= a THEN s[i] ELSE t[i - a]
  BY <1>c, <1>l, Zenon
<1>5. ASSUME NEW i \in 1..b PROVE (s \o t)[i] = u[i]
  <2>1. CASE i <= a
    <3>1. i \in 1..a BY <2>1
    <3> QED BY <1>1, <1>3, <1>4, <2>1, <3>1
  <2>2. CASE ~ (i <= a)
    <3>1. i - a \in 1 .. b - a /\ a + (i - a) = i BY <2>2
    <3> QED BY <1>2, <1>3, <1>4, <2>2, <3>1
  <2> QED BY <2>1, <2>2
<1>6. s \o t = u BY <1>3, <1>4, <1>5, SeqEqual
<1> QED BY <1>2, <1>6 DEF s, t, u

\* The elements up to n, added up one after the other.
UpTo(n) == [j \in 1 .. n |-> j]

\* The partial sums over the results of k blocks, as parallel_accumulate adds
\* them up.
PartialSums(f) ==
  f = [k \in 0..NumThreads |-> IF k = 0 THEN <<>> ELSE f[k - 1] \o g.results[k]]

\* When every result is its block, the sum of all results is the whole range:
\* the partial sums exist and each of them is the range up to its block's end.
LEMMA WholeRange ==
  ASSUME g.length \in Nat, g.length > 0, g.hardware \in Threads,
         \A k \in 1..NumThreads : g.results[k] = Block(k)
  PROVE  (CHOOSE f : PartialSums(f))[NumThreads] = UpTo(g.length)
<1> DEFINE n == NumThreads
           h == [k \in 0..n |-> UpTo(Reach(k))]
           f == CHOOSE e : PartialSums(e)
<1>1. n \in Nat /\ n > 0 /\ Reach(0) = 0 /\ Reach(n) = g.length BY BlocksCover, NamedThreads
<1>2. \A k \in 1..n : UpTo(Reach(k - 1)) \o g.results[k] = UpTo(Reach(k))
  <2> TAKE k \in 1..n
  <2>1. /\ Reach(k - 1) \in Nat /\ Reach(k) \in Nat /\ Reach(k - 1) <= Reach(k)
        /\ Block(k) = [j \in 1 .. Reach(k) - Reach(k - 1) |-> Reach(k - 1) + j]
    BY BlocksCover
  <2>2. \A a, b \in Nat : a <= b => UpTo(a) \o [j \in 1 .. b - a |-> a + j] = UpTo(b)
    BY NextElements, Zenon DEF UpTo
  <2>3. g.results[k] = Block(k) OBVIOUS
  <2> QED BY <2>1, <2>2, <2>3, Zenon
<1>3. UpTo(0) = <<>> BY DEF UpTo
<1>4. PartialSums(h)
  <2>1. \A k \in 0..n : h[k] = IF k = 0 THEN <<>> ELSE h[k - 1] \o g.results[k]
    <3> TAKE k \in 0..n
    <3>1. CASE k = 0 BY <1>1, <1>3, <3>1
    <3>2. CASE k # 0
      <4>1. k \in 1..n /\ k - 1 \in 0..n BY <1>1, <3>2
      <4>2. h[k] = UpTo(Reach(k)) /\ h[k - 1] = UpTo(Reach(k - 1)) BY <4>1
      <4> HIDE DEF h
      <4> QED BY <1>2, <3>2, <4>1, <4>2
    <3> QED BY <3>1, <3>2
  <2>2. h = [k \in 0..n |-> h[k]] BY Zenon
  <2> HIDE DEF h
  <2> QED BY <2>1, <2>2, Zenon DEF PartialSums
<1>5. PartialSums(f) BY <1>4, Zenon
<1> HIDE DEF f, h
<1>6. /\ f[0] = <<>>
      /\ \A k \in 1..n : f[k] = f[k - 1] \o g.results[k]
  <2>1. \A k \in 0..n : f[k] = IF k = 0 THEN <<>> ELSE f[k - 1] \o g.results[k]
    BY <1>5, Zenon DEF PartialSums
  <2>2. 0 \in 0..n /\ \A k \in 1..n : k \in 0..n /\ k # 0 BY <1>1
  <2> QED BY <2>1, <2>2, Zenon
<1> DEFINE Wrong == {k \in 0..n : f[k] # UpTo(Reach(k))}
<1>7. Wrong = {}
  <2> SUFFICES ASSUME Wrong # {} PROVE FALSE OBVIOUS
  <2>1. PICK k \in Wrong : \A m \in Wrong : k <= m
    <3>1. Wrong \in SUBSET Nat BY <1>1
    <3> HIDE DEF Wrong
    <3> QED BY <3>1, Least
  <2>2. k \in 0..n /\ f[k] # UpTo(Reach(k)) OBVIOUS
  <2>3. k # 0 BY <1>1, <1>3, <1>6, <2>2
  <2>4. k \in 1..n /\ k - 1 \in 0..n /\ ~ (k <= k - 1) BY <1>1, <2>2, <2>3
  <2>5. f[k - 1] = UpTo(Reach(k - 1)) BY <2>1, <2>4
  <2> QED BY <1>2, <1>6, <2>2, <2>4, <2>5
<1>8. n \in 0..n BY <1>1
<1>9. f[n] = UpTo(Reach(n)) BY <1>7, <1>8
<1> QED BY <1>1, <1>9 DEF f

\* The variables of accumulate.cpp.
AccumulateVariables ==
  /\ g = [length |-> g.length, hardware |-> g.hardware, i |-> g.i, results |-> g.results, sum |-> g.sum]
  /\ g.length \in Nat /\ g.hardware \in Threads /\ g.i \in Nat

\* The blocks that have been added up, once the results are there.
BlocksAdded ==
  /\ g.results = [k \in 1..NumThreads |-> g.results[k]]
  /\ g.results[NumThreads] = IF pc[Main] = "join" THEN Block(NumThreads) ELSE <<>>
  /\ \A t \in 1 .. NumThreads - 1 :
       /\ pc[t] \in {"none", "begin", "done"}
       /\ g.results[t] = IF pc[t] = "done" THEN Block(t) ELSE <<>>

\* accumulate.cpp: the threads that have been created, and what the results
\* hold until they are added up.
AccumulateIInv ==
  program = "accumulate" =>
    /\ PcOK /\ Unused /\ AccumulateVariables
    /\ pc[Main] \in {"start", "launch", "join", "exit"}
    /\ pc[Main] = "start" => g.sum = <<>>
    /\ pc[Main] = "exit" => g.sum = UpTo(g.length)
    /\ g.length = 0 => pc[Main] \in {"start", "exit"} /\ \A t \in Threads \ {Main} : pc[t] = "none"
    /\ g.length > 0 =>
         /\ g.i < NumThreads
         /\ pc[Main] = "start" => g.i = 0
         /\ pc[Main] \in {"launch", "join"} => BlocksAdded
         /\ pc[Main] = "join" => g.i = NumThreads - 1
         /\ \A t \in Threads \ {Main} : t > g.i => pc[t] = "none"

\* Init establishes AccumulateIInv.
LEMMA AccumulateInitial == Init => AccumulateIInv
<1> SUFFICES ASSUME Init, program = "accumulate" PROVE AccumulateIInv BY DEF AccumulateIInv
<1> USE NamedThreads, MutexAssumption
<1>1. AccumulateInit BY InitialState
<1>2. PICK n \in 0..MaxLength, h \in 0..LastThread :
        Start("accumulate", [length |-> n, hardware |-> h, i |-> 0, results |-> <<>>, sum |-> <<>>])
  BY <1>1 DEF AccumulateInit
<1>3. g = [length |-> n, hardware |-> h, i |-> 0, results |-> <<>>, sum |-> <<>>] BY <1>2 DEF Start
<1>4. AccumulateVariables /\ g.i = 0 /\ g.sum = <<>> BY <1>3 DEF AccumulateVariables, Threads
<1>5. g.length > 0 => g.i < NumThreads BY <1>4, BlocksCover DEF AccumulateVariables
<1>6. PcOK /\ Unused /\ pc[Main] = "start" /\ \A t \in Threads \ {Main} : pc[t] = "none"
  BY <1>2 DEF Start, PcOK, Unused, Main
<1> QED BY <1>4, <1>5, <1>6 DEF AccumulateIInv

\* The program's own steps preserve AccumulateIInv.
LEMMA AccumulateStepKeeps ==
  ASSUME AccumulateIInv, program = "accumulate", NEW t \in Threads, AccumulateStep(t)
  PROVE  AccumulateIInv'
<1> USE NamedThreads DEF At, Goto, NoSync, Local
<1>0. program' = program BY DEF AccumulateStep
<1>i. /\ PcOK /\ Unused /\ AccumulateVariables
      /\ pc[Main] \in {"start", "launch", "join", "exit"}
      /\ pc[Main] = "start" => g.sum = <<>>
      /\ pc[Main] = "exit" => g.sum = UpTo(g.length)
      /\ g.length = 0 => pc[Main] \in {"start", "exit"} /\ \A u \in Threads \ {Main} : pc[u] = "none"
      /\ g.length > 0 =>
           /\ g.i < NumThreads
           /\ pc[Main] = "start" => g.i = 0
           /\ pc[Main] \in {"launch", "join"} => BlocksAdded
           /\ pc[Main] = "join" => g.i = NumThreads - 1
           /\ \A u \in Threads \ {Main} : u > g.i => pc[u] = "none"
  BY DEF AccumulateIInv
<1>t. g.length \in Nat /\ g.hardware \in Threads /\ g.i \in Nat BY <1>i DEF AccumulateVariables
<1>n. g.length > 0 => NumThreads \in 1..LastThread BY <1>t, BlocksCover
<1>b. g.length > 0 => \A k \in 1..NumThreads : Block(k) \in Seq(Nat)
  <2> SUFFICES ASSUME g.length > 0, NEW k \in 1..NumThreads PROVE Block(k) \in Seq(Nat) OBVIOUS
  <2>1. /\ Reach(k - 1) \in Nat /\ Reach(k) \in Nat /\ Reach(k - 1) <= Reach(k)
        /\ Block(k) = [j \in 1 .. Reach(k) - Reach(k - 1) |-> Reach(k - 1) + j]
    BY <1>t, BlocksCover
  <2> QED BY <2>1, NextElements, Zenon
<1>s. g'.length = g.length /\ g'.hardware = g.hardware
        => NumThreads' = NumThreads /\ \A k : Block(k)' = Block(k)
  BY DEF NumThreads, Block
<1>m. Main \in Threads /\ 1 .. LastThread = Threads \ {Main} BY DEF Threads, Main
<1>1. CASE g.length = 0 /\ Local(Main, "start", "exit") /\ UNCHANGED g
  <2>1. PcOK' /\ Unused' /\ AccumulateVariables' /\ pc'[Main] = "exit" /\ g' = g
    BY <1>1, <1>i, <1>m DEF PcOK, Unused, AccumulateVariables
  <2>2. \A u \in Threads \ {Main} : pc'[u] = "none" BY <1>1, <1>i, <1>m DEF PcOK
  <2>3. g.sum = UpTo(g.length) BY <1>1, <1>i DEF UpTo
  <2> QED BY <1>0, <1>1, <1>t, <2>1, <2>2, <2>3 DEF AccumulateIInv
<1>2. CASE /\ g.length # 0 /\ Local(Main, "start", "launch")
           /\ g' = [g EXCEPT !.results = [i \in 1..NumThreads |-> <<>>]]
  <2>1. PcOK' /\ Unused' /\ pc'[Main] = "launch" /\ pc[Main] = "start" BY <1>2, <1>i, <1>m DEF PcOK, Unused
  <2>2. \A u \in Threads \ {Main} : pc'[u] = pc[u] /\ pc[u] = "none"
    <3>1. \A u \in Threads \ {Main} : pc'[u] = pc[u] BY <1>2, <1>i, <1>m DEF PcOK
    <3>2. g.length > 0 /\ g.i = 0 BY <1>2, <1>i, <1>t, <2>1
    <3>3. \A u \in Threads \ {Main} : u > 0 BY <1>m
    <3> QED BY <1>i, <3>1, <3>2, <3>3
  <2>3. /\ g'.length = g.length /\ g'.hardware = g.hardware /\ g'.i = g.i /\ g'.sum = g.sum
        /\ g'.results = [i \in 1..NumThreads |-> <<>>]
    BY <1>2, <1>i DEF AccumulateVariables
  <2>4. AccumulateVariables'
    <3>1. g' = [length |-> g'.length, hardware |-> g'.hardware, i |-> g'.i, results |-> g'.results, sum |-> g'.sum]
      BY <1>2, <1>i, <2>3 DEF AccumulateVariables
    <3> QED BY <1>t, <2>3, <3>1 DEF AccumulateVariables
  <2>5. g.length > 0 /\ g'.length > 0 BY <1>2, <1>t, <2>3
  <2>6. BlocksAdded'
    <3>1. NumThreads' = NumThreads /\ NumThreads \in 1..LastThread BY <1>n, <1>s, <2>3, <2>5
    <3>2. g'.results = [k \in 1..NumThreads' |-> g'.results[k]] BY <2>3, <3>1
    <3>3. g'.results[NumThreads'] = <<>> BY <2>3, <3>1
    <3>4. \A u \in 1 .. NumThreads' - 1 : u \in Threads \ {Main} /\ g'.results[u] = <<>> BY <1>m, <2>3, <3>1
    <3> QED BY <2>1, <2>2, <3>2, <3>3, <3>4 DEF BlocksAdded
  <2> QED BY <1>0, <1>i, <1>s, <2>1, <2>2, <2>3, <2>4, <2>5, <2>6 DEF AccumulateIInv
<1>3. CASE /\ g.i < NumThreads - 1
           /\ Create(Main, g.i + 1, "launch", "launch") /\ NoSync
           /\ g' = [g EXCEPT !.i = @ + 1]
  <2> DEFINE c == g.i + 1
  <2>1. pc[Main] = "launch" /\ g.length > 0 BY <1>3, <1>i, <1>t DEF Create
  <2>2. c \in Nat /\ c \in 1 .. NumThreads - 1 /\ c < NumThreads /\ NumThreads \in 1..LastThread
    BY <1>3, <1>n, <1>t, <2>1
  <2>3. c \in Threads \ {Main} /\ pc[c] = "none"
    <3>1. c \in 1..LastThread /\ c > g.i BY <1>t, <2>2
    <3> QED BY <1>i, <1>m, <2>1, <3>1
  <2>4. g' = [g EXCEPT !.i = c] /\ pc' = [pc EXCEPT ![Main] = "launch", ![c] = "begin"] BY <1>3 DEF Create
  <2>5. \A u \in Threads \ {Main} : u > c => u > g.i /\ u # c BY <1>m, <1>t, <2>2
  <2> HIDE DEF c
  <2>6. PcOK' /\ Unused' BY <1>3, <1>i, <2>4 DEF PcOK, Unused
  <2>7. pc'[Main] = "launch" /\ pc'[c] = "begin" /\ \A u \in Threads \ {Main} : u # c => pc'[u] = pc[u]
    BY <1>i, <1>m, <2>3, <2>4 DEF PcOK
  <2>8. /\ g'.length = g.length /\ g'.hardware = g.hardware /\ g'.i = c /\ g'.sum = g.sum
        /\ g'.results = g.results
    BY <1>i, <2>4 DEF AccumulateVariables
  <2>9. AccumulateVariables'
    <3>1. g' = [length |-> g'.length, hardware |-> g'.hardware, i |-> g'.i, results |-> g'.results, sum |-> g'.sum]
      BY <1>i, <2>4, <2>8 DEF AccumulateVariables
    <3> QED BY <1>t, <2>2, <2>8, <3>1 DEF AccumulateVariables
  <2>10. NumThreads' = NumThreads /\ \A k : Block(k)' = Block(k) BY <1>s, <2>8
  <2>11. BlocksAdded'
    <3>1. BlocksAdded BY <1>i, <2>1
    <3>2. g'.results[NumThreads'] = <<>> BY <2>1, <2>8, <2>10, <3>1 DEF BlocksAdded
    <3>3. ASSUME NEW u \in 1 .. NumThreads - 1
          PROVE  /\ pc'[u] \in {"none", "begin", "done"}
                 /\ g'.results[u] = IF pc'[u] = "done" THEN Block(u) ELSE <<>>
      <4>1. u \in Threads \ {Main} BY <1>m, <2>2
      <4>2. CASE u = c
        <5>1. g.results[u] = <<>> BY <2>3, <3>1, <4>2 DEF BlocksAdded
        <5> QED BY <2>7, <2>8, <4>2, <5>1
      <4>3. CASE u # c BY <2>7, <2>8, <3>1, <4>1, <4>3 DEF BlocksAdded
      <4> QED BY <4>2, <4>3
    <3> QED BY <2>7, <2>8, <2>10, <3>1, <3>2, <3>3 DEF BlocksAdded
  <2> QED BY <1>0, <1>i, <1>t, <2>1, <2>2, <2>5, <2>6, <2>7, <2>8, <2>9, <2>10, <2>11 DEF AccumulateIInv
<1>4. CASE g.i = NumThreads - 1 /\ Local(Main, "launch", "join") /\ g' = AccumulateBlock(NumThreads)
  <2> DEFINE n == NumThreads
             b == g.results[n] \o Block(n)
  <2>1. pc[Main] = "launch" /\ g.length > 0 /\ BlocksAdded BY <1>4, <1>i, <1>t
  <2>2. n \in 1..LastThread BY <1>n, <2>1
  <2>3. g' = [g EXCEPT !.results[n] = b] BY <1>4 DEF AccumulateBlock
  <2>4. b = Block(n)
    <3>1. g.results[n] = <<>> /\ n \in 1..n /\ Block(n) \in Seq(Nat) BY <1>b, <2>1, <2>2 DEF BlocksAdded
    <3> QED BY <3>1, ConcatEmptySeq
  <2>5. n = NumThreads OBVIOUS
  <2> HIDE DEF n, b
  <2>6. PcOK' /\ Unused' /\ pc'[Main] = "join" /\ \A u \in Threads \ {Main} : pc'[u] = pc[u]
    BY <1>4, <1>i, <1>m DEF PcOK, Unused
  <2>7. /\ g'.length = g.length /\ g'.hardware = g.hardware /\ g'.i = g.i /\ g'.sum = g.sum
        /\ g'.results = [g.results EXCEPT ![n] = b]
    BY <1>i, <2>3 DEF AccumulateVariables
  <2>8. AccumulateVariables'
    <3>1. g' = [length |-> g'.length, hardware |-> g'.hardware, i |-> g'.i, results |-> g'.results, sum |-> g'.sum]
      BY <1>i, <2>3, <2>7 DEF AccumulateVariables
    <3> QED BY <1>t, <2>7, <3>1 DEF AccumulateVariables
  <2>9. NumThreads' = n /\ \A k : Block(k)' = Block(k) BY <1>s, <2>5, <2>7
  <2>10. g.results = [k \in 1..n |-> g.results[k]] BY <2>1, <2>5 DEF BlocksAdded
  <2>11. BlocksAdded'
    <3>1. g'.results = [k \in 1..n |-> g'.results[k]] /\ g'.results[n] = Block(n)
      BY <2>2, <2>4, <2>7, <2>10
    <3>2. ASSUME NEW u \in 1 .. n - 1
          PROVE  /\ pc'[u] \in {"none", "begin", "done"}
                 /\ g'.results[u] = IF pc'[u] = "done" THEN Block(u) ELSE <<>>
      <4>1. u \in Threads \ {Main} /\ u # n /\ u \in 1..n BY <1>m, <2>2
      <4>2. g'.results[u] = g.results[u] BY <2>7, <2>10, <4>1
      <4> QED BY <2>1, <2>5, <2>6, <4>1, <4>2 DEF BlocksAdded
    <3> QED BY <2>6, <2>9, <3>1, <3>2 DEF BlocksAdded
  <2> QED BY <1>0, <1>4, <1>i, <2>1, <2>5, <2>6, <2>7, <2>8, <2>9, <2>11 DEF AccumulateIInv
<1>5. CASE /\ (\A u \in 1 .. NumThreads - 1 : Ended(u)) /\ Local(Main, "join", "exit")
           /\ LET Add[k \in 0..NumThreads] == IF k = 0 THEN <<>> ELSE Add[k - 1] \o g.results[k]
              IN  g' = [g EXCEPT !.sum = Add[NumThreads]]
  <2> DEFINE s == (CHOOSE f : PartialSums(f))[NumThreads]
  <2>1. pc[Main] = "join" /\ g.length > 0 /\ BlocksAdded /\ g.i = NumThreads - 1 BY <1>5, <1>i, <1>t
  <2>2. g' = [g EXCEPT !.sum = s] BY <1>5, Zenon DEF PartialSums
  <2>3. \A k \in 1..NumThreads : g.results[k] = Block(k)
    <3> TAKE k \in 1..NumThreads
    <3>1. CASE k = NumThreads BY <2>1, <3>1 DEF BlocksAdded
    <3>2. CASE k # NumThreads
      <4>1. k \in 1 .. NumThreads - 1 BY <1>n, <2>1, <3>2
      <4>2. pc[k] = "done" BY <1>5, <2>1, <4>1 DEF BlocksAdded, Ended
      <4> QED BY <2>1, <4>1, <4>2 DEF BlocksAdded
    <3> QED BY <3>1, <3>2
  <2>4. s = UpTo(g.length) BY <1>t, <2>1, <2>3, WholeRange
  <2> HIDE DEF s
  <2>5. PcOK' /\ Unused' /\ pc'[Main] = "exit" /\ \A u \in Threads \ {Main} : pc'[u] = pc[u]
    BY <1>5, <1>i, <1>m DEF PcOK, Unused
  <2>6. /\ g'.length = g.length /\ g'.hardware = g.hardware /\ g'.i = g.i /\ g'.sum = s
        /\ g'.results = g.results
    BY <1>i, <2>2 DEF AccumulateVariables
  <2>7. AccumulateVariables'
    <3>1. g' = [length |-> g'.length, hardware |-> g'.hardware, i |-> g'.i, results |-> g'.results, sum |-> g'.sum]
      BY <1>i, <2>2, <2>6 DEF AccumulateVariables
    <3> QED BY <1>t, <2>6, <3>1 DEF AccumulateVariables
  <2>8. g.length # 0 BY <2>1, <1>t
  <2> QED BY <1>0, <1>i, <1>s, <2>1, <2>4, <2>5, <2>6, <2>7, <2>8 DEF AccumulateIInv
<1>6. CASE t # Main /\ Local(t, "begin", "done") /\ g' = AccumulateBlock(t)
  <2> DEFINE b == g.results[t] \o Block(t)
  <2>1. pc[Main] \notin {"exit"} BY DEF AccumulateStep, Running
  <2>2. t \in Threads \ {Main} /\ pc[t] = "begin" BY <1>6
  <2>3. g.length > 0 /\ t <= g.i
    <3>1. g.length # 0 BY <1>i, <2>2
    <3>2. ~ (t > g.i) BY <1>i, <1>t, <2>2, <3>1
    <3> QED BY <1>t, <1>m, <2>2, <3>1, <3>2
  <2>4. pc[Main] \in {"launch", "join"} /\ BlocksAdded
    <3>1. pc[Main] # "start" BY <1>i, <1>m, <2>2, <2>3
    <3> QED BY <1>i, <2>1, <2>3, <3>1
  <2>5. NumThreads \in 1..LastThread /\ t \in 1 .. NumThreads - 1 /\ t \in 1..NumThreads /\ t # NumThreads
    BY <1>i, <1>m, <1>n, <1>t, <2>2, <2>3
  <2>6. g' = [g EXCEPT !.results[t] = b] BY <1>6 DEF AccumulateBlock
  <2>7. b = Block(t)
    <3>1. g.results[t] = <<>> /\ Block(t) \in Seq(Nat) BY <1>b, <2>2, <2>3, <2>4, <2>5 DEF BlocksAdded
    <3> QED BY <3>1, ConcatEmptySeq
  <2> HIDE DEF b
  <2>8. PcOK' /\ Unused' BY <1>6, <1>i DEF PcOK, Unused
  <2>9. pc'[Main] = pc[Main] /\ pc'[t] = "done" /\ \A u \in Threads : u # t => pc'[u] = pc[u]
    BY <1>6, <1>i, <1>m DEF PcOK
  <2>10. /\ g'.length = g.length /\ g'.hardware = g.hardware /\ g'.i = g.i /\ g'.sum = g.sum
         /\ g'.results = [g.results EXCEPT ![t] = b]
    BY <1>i, <2>6 DEF AccumulateVariables
  <2>11. AccumulateVariables'
    <3>1. g' = [length |-> g'.length, hardware |-> g'.hardware, i |-> g'.i, results |-> g'.results, sum |-> g'.sum]
      BY <1>i, <2>6, <2>10 DEF AccumulateVariables
    <3> QED BY <1>t, <2>10, <3>1 DEF AccumulateVariables
  <2>12. NumThreads' = NumThreads /\ \A k : Block(k)' = Block(k) BY <1>s, <2>10
  <2>13. BlocksAdded'
    <3>1. g.results = [k \in 1..NumThreads |-> g.results[k]] BY <2>4 DEF BlocksAdded
    <3>2. g'.results = [k \in 1..NumThreads |-> g'.results[k]] BY <2>10, <3>1
    <3>3. g'.results[NumThreads] = g.results[NumThreads] BY <2>5, <2>10, <3>1
    <3>4. ASSUME NEW u \in 1 .. NumThreads - 1
          PROVE  /\ pc'[u] \in {"none", "begin", "done"}
                 /\ g'.results[u] = IF pc'[u] = "done" THEN Block(u) ELSE <<>>
      <4>1. u \in Threads /\ u \in 1..NumThreads BY <1>m, <2>5
      <4>2. CASE u = t
        <5>1. g'.results[u] = b BY <2>10, <3>1, <4>1, <4>2
        <5> QED BY <2>7, <2>9, <4>2, <5>1
      <4>3. CASE u # t
        <5>1. g'.results[u] = g.results[u] /\ pc'[u] = pc[u] BY <2>9, <2>10, <3>1, <4>1, <4>3
        <5> QED BY <2>4, <5>1 DEF BlocksAdded
      <4> QED BY <4>2, <4>3
    <3> QED BY <2>4, <2>9, <2>12, <3>2, <3>3, <3>4 DEF BlocksAdded
  <2>14. \A u \in Threads \ {Main} : u > g'.i => pc'[u] = "none"
    BY <1>i, <1>m, <1>t, <2>3, <2>9, <2>10
  <2> QED BY <1>0, <1>i, <1>t, <2>3, <2>4, <2>8, <2>9, <2>10, <2>11, <2>12, <2>13, <2>14 DEF AccumulateIInv
<1> QED BY <1>1, <1>2, <1>3, <1>4, <1>5, <1>6 DEF AccumulateStep, AccumulateMain

\* No step, whichever program runs, breaks AccumulateIInv.
LEMMA AccumulateKept == AccumulateIInv /\ [Next]_vars => AccumulateIInv'
<1> SUFFICES ASSUME AccumulateIInv, [Next]_vars, program = "accumulate" PROVE AccumulateIInv'
  BY Dispatch DEF AccumulateIInv
<1>1. CASE Spurious BY <1>1 DEF Spurious, AccumulateIInv, Unused
<1>2. CASE UNCHANGED vars
  <2>1. NumThreads' = NumThreads /\ (\A k : Block(k)' = Block(k)) /\ UpTo(g.length)' = UpTo(g.length)
    BY <1>2 DEF vars, NumThreads, Block, UpTo
  <2>2. BlocksAdded' <=> BlocksAdded BY <1>2, <2>1 DEF vars, BlocksAdded
  <2> QED BY <1>2, <2>1, <2>2 DEF vars, AccumulateIInv, PcOK, Unused, AccumulateVariables
<1> QED BY <1>1, <1>2, AccumulateStepKeeps, Dispatch

\* What the threads compute together is exact whatever their interleaving, for
\* every length of a round, of a slice and of the range and every number of
\* threads: trylock.c's monitor sees whole rounds, mutex-1.c's sum has each
\* slice once and accumulate.cpp adds each element once, in its place.
THEOREM SharedResultsCorrect == Spec => []SharedResults
<1>1. TrylockIInv => WholeRounds BY DEF TrylockIInv, WholeRounds
<1>2. DotIInv => SumExact BY DEF DotIInv, SumExact, DotEnded
<1>3. AccumulateIInv => EachElementOnce BY DEF AccumulateIInv, EachElementOnce, UpTo, At
<1> QED
  BY <1>1, <1>2, <1>3, TrylockInitial, TrylockKept, DotInitial, DotKept, AccumulateInitial,
     AccumulateKept, PTL DEF Spec, SharedResults

-----------------------------------------------------------------------------
(* Cancellation.                                                           *)

\* The variables of cancel.c and cancel_disable.c.
CancelVariables == [counter : Nat, disabled : BOOLEAN]

\* cancel.c and cancel_disable.c: cancellation is disabled exactly in the sleep.
CancelIInv ==
  program \in {"cancel", "cancel_disable"} =>
    /\ PcOK /\ mutex \in Threads \cup {None} /\ waiters = {}
    /\ g \in CancelVariables
    /\ pc[Looper] = "cancelled" => TestDue
    /\ pc[Looper] \in {"none", "begin", "sleep", "cancelled"}
    /\ g.disabled <=> pc[Looper] = "sleep"
    /\ pc[Main] = "start" => pc[Looper] = "none"
    /\ pending \subseteq {Looper}
    /\ pending # {} => pc[Looper] # "cancelled"

\* Init establishes CancelIInv.
LEMMA CancelInitial == Init => CancelIInv
<1> SUFFICES ASSUME Init, program \in {"cancel", "cancel_disable"} PROVE CancelIInv BY DEF CancelIInv
<1> USE NamedThreads DEF Main, Looper
<1>1. CancelInit BY InitialState
<1>2. PICK p \in {"cancel", "cancel_disable"} : Start(p, [counter |-> 0, disabled |-> FALSE])
  BY <1>1 DEF CancelInit
<1>3. g = [counter |-> 0, disabled |-> FALSE] BY <1>2 DEF Start
<1>4. g \in CancelVariables /\ ~ g.disabled BY <1>3 DEF CancelVariables
<1>5. PcOK /\ pc[Main] = "start" /\ pc[Looper] = "none" BY <1>2 DEF Start, PcOK
<1> QED BY <1>2, <1>4, <1>5 DEF Start, CancelIInv

\* The program's own steps preserve CancelIInv.
LEMMA CancelStepKeeps ==
  ASSUME CancelIInv, program \in {"cancel", "cancel_disable"}, NEW t \in Threads, CancelStep(t)
  PROVE  CancelIInv'
<1> USE NamedThreads DEF Main, Looper, At, Goto, NoSync, Local, Act, Ended
<1>0. program' = program BY DEF CancelStep
<1>i. /\ PcOK /\ mutex \in Threads \cup {None} /\ waiters = {}
      /\ g \in CancelVariables
      /\ pc[Looper] = "cancelled" => TestDue
      /\ pc[Looper] \in {"none", "begin", "sleep", "cancelled"}
      /\ g.disabled <=> pc[Looper] = "sleep"
      /\ pc[Main] = "start" => pc[Looper] = "none"
      /\ pending \subseteq {Looper}
      /\ pending # {} => pc[Looper] # "cancelled"
  BY DEF CancelIInv
<1>g. g' = g => TestDue' = TestDue BY <1>0 DEF TestDue, SleepDue
<1>c. /\ (g.counter + 1) % (TestEvery * SleepEvery) \in Nat
      /\ Count \in CancelVariables /\ Count.disabled = g.disabled
  <2>1. g.counter + 1 \in Nat /\ TestEvery * SleepEvery \in Nat /\ TestEvery * SleepEvery > 0
    <3>1. \A a, b \in Nat : a > 0 /\ b > 0 => a * b \in Nat /\ a * b > 0 BY Z3
    <3>2. TestEvery \in Nat /\ TestEvery > 0 /\ SleepEvery \in Nat /\ SleepEvery > 0 BY CancellationAssumption
    <3> QED BY <1>i, <3>1, <3>2 DEF CancelVariables
  <2> DEFINE n == (g.counter + 1) % (TestEvery * SleepEvery)
  <2>2. n \in Nat BY <2>1, Division
  <2>3. Count = [g EXCEPT !.counter = n] BY DEF Count
  <2> HIDE DEF n
  <2>4. Count \in CancelVariables /\ Count.disabled = g.disabled BY <1>i, <2>2, <2>3 DEF CancelVariables
  <2> QED BY <2>2, <2>4 DEF n
<1>1. CASE CancelMain
  <2>1. g' = g BY <1>1 DEF CancelMain
  <2>2. CASE Create(Main, Looper, "start", "asleep") /\ NoSync
    <3>1. PcOK' BY <1>i, <2>2 DEF Create, PcOK
    <3>2. pc'[Main] = "asleep" /\ pc'[Looper] = "begin" /\ pc[Looper] = "none" /\ pending' = pending
      BY <1>i, <2>2 DEF Create, PcOK
    <3> QED BY <1>0, <1>i, <2>1, <2>2, <3>1, <3>2 DEF CancelIInv
  <2>3. CASE Cancel(Main, Looper, "asleep", "join")
    <3>1. PcOK' /\ pc'[Main] = "join" /\ pc'[Looper] = pc[Looper] BY <1>i, <2>3 DEF Cancel, PcOK
    <3>2. /\ mutex' = mutex /\ waiters' = waiters
          /\ pending' \subseteq {Looper} /\ (pending' # {} => pc[Looper] # "cancelled")
      BY <1>i, <2>3 DEF Cancel
    <3> QED BY <1>0, <1>g, <1>i, <2>1, <3>1, <3>2 DEF CancelIInv
  <2>4. CASE Join(Main, Looper, "join", "exit")
    <3>1. PcOK' /\ pc'[Main] = "exit" /\ pc'[Looper] = pc[Looper] BY <1>i, <2>4 DEF Join, PcOK
    <3>2. mutex' = mutex /\ waiters' = waiters /\ pending' = pending BY <2>4 DEF Join
    <3> QED BY <1>0, <1>g, <1>i, <2>1, <3>1, <3>2 DEF CancelIInv
  <2> QED BY <1>1, <2>2, <2>3, <2>4 DEF CancelMain
<1>2. CASE \/ Local(Looper, "begin", "begin") /\ g' = Count
           \/ DisableAndSleep
           \/ g.disabled /\ Local(Looper, "sleep", "begin") /\ g' = [Count EXCEPT !.disabled = FALSE]
  <2>1. /\ PcOK' /\ mutex' = mutex /\ waiters' = waiters /\ pending' = pending /\ pc'[Main] = pc[Main]
        /\ pc[Looper] \in {"begin", "sleep"} /\ pc'[Looper] \in {"begin", "sleep"}
    BY <1>i, <1>2 DEF DisableAndSleep, PcOK
  <2>2. g' \in CancelVariables /\ (g'.disabled <=> pc'[Looper] = "sleep")
    <3>1. CASE Local(Looper, "begin", "begin") /\ g' = Count BY <1>c, <1>i, <3>1 DEF PcOK
    <3>2. CASE DisableAndSleep BY <1>i, <3>2 DEF DisableAndSleep, CancelVariables, PcOK
    <3>3. CASE g.disabled /\ Local(Looper, "sleep", "begin") /\ g' = [Count EXCEPT !.disabled = FALSE]
      BY <1>c, <1>i, <3>3 DEF CancelVariables, PcOK
    <3> QED BY <1>2, <3>1, <3>2, <3>3
  <2> QED BY <1>0, <1>i, <2>1, <2>2 DEF CancelIInv
<1>3. CASE TestDue /\ Act(Looper, "begin", "cancelled") /\ UNCHANGED g
  <2>1. /\ PcOK' /\ mutex' = mutex /\ waiters' = waiters /\ pc'[Main] = pc[Main]
        /\ pc[Looper] = "begin" /\ pc'[Looper] = "cancelled" /\ g' = g
    BY <1>i, <1>3 DEF PcOK
  <2>2. pending' = {} BY <1>i, <1>3
  <2> QED BY <1>0, <1>3, <1>g, <1>i, <2>1, <2>2 DEF CancelIInv
<1>4. Sleep => g.disabled /\ Local(Looper, "sleep", "begin") /\ g' = [Count EXCEPT !.disabled = FALSE]
  BY <1>i DEF Sleep
<1>5. Iterate => Local(Looper, "begin", "begin") /\ g' = Count BY DEF Iterate
<1>6. TestCancel => \/ TestDue /\ Act(Looper, "begin", "cancelled") /\ UNCHANGED g
                    \/ Local(Looper, "begin", "begin") /\ g' = Count
  BY DEF TestCancel
<1> QED BY <1>1, <1>2, <1>3, <1>4, <1>5, <1>6 DEF CancelStep

\* No step, whichever program runs, breaks CancelIInv.
LEMMA CancelKept == CancelIInv /\ [Next]_vars => CancelIInv'
<1> SUFFICES ASSUME CancelIInv, [Next]_vars, program \in {"cancel", "cancel_disable"} PROVE CancelIInv'
  BY Dispatch DEF CancelIInv
<1>1. CASE Spurious BY <1>1 DEF Spurious, CancelIInv
<1>2. CASE UNCHANGED vars BY <1>2 DEF vars, CancelIInv, PcOK, TestDue, SleepDue
<1> QED BY <1>1, <1>2, CancelStepKeeps, Dispatch

\* The variables of cancel_cleanp.c.
CleanpVariables == [count : -1 .. TeamSize, counter : Int, busy : BOOLEAN]

\* The threads that are counted.
Counted == {t \in Team : pc[t] \in {"wait", "handler"}}

\* The threads main has asked to end, which are those before its index and,
\* while it joins it, the one at the index.
Asked(t) ==
  \/ pc[Main] = "join" /\ t <= g.count + 1
  \/ pc[Main] \in {"cancel", "exit", "fault"} /\ t <= g.count

\* cancel_cleanp.c: main cancels one thread at a time and waits for its end, so
\* a request is pending for one thread at most, and a thread is in its handler
\* or gone only after the one request it gets.
CleanpIInv ==
  program = "cancel_cleanp" =>
    /\ PcOK /\ g \in CleanpVariables /\ g.busy /\ g.counter = Cardinality(Counted)
    /\ mutex \in Team \cup {None} /\ (mutex # None => pc[mutex] = "handler")
    /\ waiters \subseteq Team /\ \A t \in waiters : pc[t] = "wait"
    /\ pending # {} => pc[Main] = "join" /\ pending = {g.count + 1}
    /\ pc[Main] \in {"cancel", "join"} => g.count >= 0
    /\ pc[Main] = "join" => g.count < TeamSize
    /\ pc[Main] = "start" => \A t \in Team : t > g.count => pc[t] = "none"
    /\ \A t \in Team :
         /\ pc[t] # "done"
         /\ pc[t] \in {"handler", "cancelled"} => Asked(t) /\ t \notin pending

\* The team's threads exist and can be counted.
LEMMA TeamCounted ==
  /\ TeamSize \in Nat /\ Team = 1..TeamSize /\ Team \subseteq Threads
  /\ Main \notin Team /\ Main \in Threads /\ None \notin Team /\ None \notin Threads /\ Team \subseteq Int
  /\ IsFiniteSet(Counted) /\ Cardinality(Counted) \in Nat
<1>1. /\ TeamSize \in Nat /\ Team = 1..TeamSize /\ Team \subseteq Threads
      /\ Main \notin Team /\ Main \in Threads /\ None \notin Team /\ None \notin Threads /\ Team \subseteq Int
  BY CancellationAssumption, NamedThreads DEF Team, Threads, Main
<1>2. IsFiniteSet(Team) BY <1>1, FS_Interval
<1>3. Counted \subseteq Team BY DEF Counted
<1> QED BY <1>1, <1>2, <1>3, FS_Subset, FS_CardinalityType

\* Init establishes CleanpIInv.
LEMMA CleanpInitial == Init => CleanpIInv
<1> SUFFICES ASSUME Init, program = "cancel_cleanp" PROVE CleanpIInv BY DEF CleanpIInv
<1> USE TeamCounted
<1>1. CleanpInit BY InitialState
<1>2. PICK c \in -1 .. TeamSize :
        Start("cancel_cleanp", [count |-> c, counter |-> 0, busy |-> TRUE])
  BY <1>1 DEF CleanpInit
<1>3. g = [count |-> c, counter |-> 0, busy |-> TRUE] BY <1>2 DEF Start
<1>4. g \in CleanpVariables /\ g.counter = 0 /\ g.busy BY <1>3 DEF CleanpVariables
<1>5. PcOK /\ pc[Main] = "start" /\ \A t \in Team : pc[t] = "none" BY <1>2 DEF Start, PcOK
<1>6. Counted = {} BY <1>5 DEF Counted
<1>7. g.counter = Cardinality(Counted) BY <1>4, <1>6, FS_EmptySet
<1> QED BY <1>2, <1>4, <1>5, <1>7 DEF Start, CleanpIInv

\* The program's own steps preserve CleanpIInv.
LEMMA CleanpStepKeeps ==
  ASSUME CleanpIInv, program = "cancel_cleanp", NEW t \in Threads, CleanpStep(t)
  PROVE  CleanpIInv'
<1> USE TeamCounted DEF At, Goto, NoSync, Local, Act, Ended
<1>0. program' = program BY DEF CleanpStep
<1>i. /\ PcOK /\ g \in CleanpVariables /\ g.busy /\ g.counter = Cardinality(Counted)
      /\ mutex \in Team \cup {None} /\ (mutex # None => pc[mutex] = "handler")
      /\ waiters \subseteq Team /\ \A u \in waiters : pc[u] = "wait"
      /\ pending # {} => pc[Main] = "join" /\ pending = {g.count + 1}
      /\ pc[Main] \in {"cancel", "join"} => g.count >= 0
      /\ pc[Main] = "join" => g.count < TeamSize
      /\ pc[Main] = "start" => \A u \in Team : u > g.count => pc[u] = "none"
      /\ \A u \in Team :
           /\ pc[u] # "done"
           /\ pc[u] \in {"handler", "cancelled"} => Asked(u) /\ u \notin pending
  BY DEF CleanpIInv
<1>t. g.count \in -1 .. TeamSize /\ g.count \in Int /\ g.counter \in Int
  BY <1>i DEF CleanpVariables
<1>e. (\A u \in Team : pc'[u] = pc[u]) => Counted' = Counted BY DEF Counted
<1>1. CASE t = Main /\ CleanpMain
  <2>1. CASE \/ At(Main, "start") /\ g.count < 0 /\ Goto(Main, "fault") /\ NoSync /\ UNCHANGED g
             \/ At(Main, "cancel") /\ Goto(Main, "fault") /\ NoSync /\ UNCHANGED g
             \/ g.count = TeamSize /\ Local(Main, "cancel", "exit") /\ UNCHANGED g
    <3>1. /\ PcOK' /\ (\A u \in Team : pc'[u] = pc[u]) /\ g' = g
          /\ mutex' = mutex /\ waiters' = waiters /\ pending' = pending
          /\ pc[Main] \in {"start", "cancel"} /\ pc'[Main] \in {"fault", "exit"}
      BY <1>i, <2>1 DEF PcOK
    <3>2. Counted' = Counted BY <1>e, <3>1
    <3>3. \A u \in Team : pc[u] \in {"handler", "cancelled"} => Asked(u)' BY <1>i, <3>1 DEF Asked
    <3>4. pending = {} BY <1>i, <3>1
    <3> QED BY <1>0, <1>i, <3>1, <3>2, <3>3, <3>4 DEF CleanpIInv
  <2>2. CASE /\ g.count \in 0 .. TeamSize - 1
             /\ Create(Main, g.count + 1, "start", "start") /\ NoSync
             /\ g' = [g EXCEPT !.count = @ + 1]
    <3> DEFINE c == g.count + 1
    <3>1. c \in Team /\ c \in -1 .. TeamSize /\ pc[Main] = "start" /\ pc[c] = "none" BY <1>i, <1>t, <2>2 DEF Create
    <3>2. g' = [g EXCEPT !.count = c] /\ pc' = [pc EXCEPT ![Main] = "start", ![c] = "begin"]
      BY <2>2 DEF Create
    <3>3. \A u \in Team : u > c => u > g.count /\ u # c BY <1>t
    <3> HIDE DEF c
    <3>4. PcOK' /\ pc'[Main] = "start" BY <1>i, <3>1, <3>2 DEF PcOK
    <3>5. pc'[c] = "begin" /\ \A u \in Team : u # c => pc'[u] = pc[u] BY <1>i, <3>1, <3>2 DEF PcOK
    <3>6. g' \in CleanpVariables /\ g'.busy /\ g'.count = c /\ g'.counter = g.counter BY <1>i, <3>1, <3>2 DEF CleanpVariables
    <3>7. Counted' = Counted BY <3>1, <3>5 DEF Counted
    <3>8. mutex' = mutex /\ waiters' = waiters /\ pending' = pending BY <2>2
    <3>9. mutex' # None => pc'[mutex'] = "handler" BY <1>i, <3>1, <3>5, <3>8
    <3>10. \A u \in waiters : pc'[u] = "wait" BY <1>i, <3>1, <3>5
    <3>11. pending = {} BY <1>i, <3>1
    <3>12. \A u \in Team : pc[u] \notin {"handler", "cancelled"} BY <1>i, <3>1 DEF Asked
    <3>13. \A u \in Team : pc'[u] \notin {"handler", "cancelled", "done"} BY <1>i, <3>5, <3>12
    <3>14. \A u \in Team : u > g'.count => pc'[u] = "none" BY <1>i, <3>1, <3>3, <3>5, <3>6
    <3>15. g'.counter = Cardinality(Counted') BY <1>i, <3>6, <3>7
    <3> QED BY <1>0, <1>i, <3>4, <3>6, <3>8, <3>9, <3>10, <3>11, <3>13, <3>14, <3>15 DEF CleanpIInv
  <2>3. CASE /\ g.count = TeamSize
             /\ Local(Main, "start", "cancel") /\ g' = [g EXCEPT !.count = 0]
    <3>1. /\ PcOK' /\ (\A u \in Team : pc'[u] = pc[u])
          /\ mutex' = mutex /\ waiters' = waiters /\ pending' = pending
          /\ pc[Main] = "start" /\ pc'[Main] = "cancel"
      BY <1>i, <2>3 DEF PcOK
    <3>2. Counted' = Counted BY <1>e, <3>1
    <3>3. \A u \in Team : pc[u] \notin {"handler", "cancelled"} BY <1>i, <3>1 DEF Asked
    <3>4. pending = {} BY <1>i, <3>1
    <3>5. g' \in CleanpVariables /\ g'.busy /\ g'.count = 0 /\ g'.counter = g.counter
      <4>1. 0 \in -1 .. TeamSize OBVIOUS
      <4> QED BY <1>i, <2>3, <4>1 DEF CleanpVariables
    <3> QED BY <1>0, <1>i, <3>1, <3>2, <3>3, <3>4, <3>5 DEF CleanpIInv
  <2>4. CASE g.count < TeamSize /\ Cancel(Main, g.count + 1, "cancel", "join") /\ UNCHANGED g
    <3>1. /\ PcOK' /\ (\A u \in Team : pc'[u] = pc[u]) /\ g' = g
          /\ mutex' = mutex /\ waiters' = waiters
          /\ pc[Main] = "cancel" /\ pc'[Main] = "join"
      BY <1>i, <2>4 DEF Cancel, PcOK
    <3>2. Counted' = Counted BY <1>e, <3>1
    <3>3. pending = {} BY <1>i, <3>1
    <3>4. pending' # {} => pending' = {g.count + 1} BY <2>4, <3>3 DEF Cancel
    <3>5. \A u \in Team : pc[u] \in {"handler", "cancelled"} => u <= g.count BY <1>i, <3>1 DEF Asked
    <3>6. \A u \in Team : u <= g.count => u # g.count + 1 /\ u <= g.count + 1 BY <1>t
    <3>7. \A u \in Team : pc[u] \in {"handler", "cancelled"} => Asked(u)' /\ u \notin pending'
      BY <3>1, <3>4, <3>5, <3>6 DEF Asked
    <3> QED BY <1>0, <1>i, <2>4, <3>1, <3>2, <3>4, <3>7 DEF CleanpIInv
  <2>5. CASE /\ g.count < TeamSize
             /\ Join(Main, g.count + 1, "join", "cancel") /\ g' = [g EXCEPT !.count = @ + 1]
    <3> DEFINE c == g.count + 1
    <3>1. /\ PcOK' /\ (\A u \in Team : pc'[u] = pc[u])
          /\ mutex' = mutex /\ waiters' = waiters /\ pending' = pending
          /\ pc[Main] = "join" /\ pc'[Main] = "cancel"
      BY <1>i, <2>5 DEF Join, PcOK
    <3>2. Counted' = Counted BY <1>e, <3>1
    <3>3. c \in Team /\ c \in 0 .. TeamSize /\ c \in -1 .. TeamSize BY <1>i, <1>t, <2>5, <3>1
    <3>4. pc[c] = "cancelled" BY <1>i, <2>5, <3>3 DEF Join
    <3>5. g' = [g EXCEPT !.count = c] /\ c = g.count + 1 BY <2>5
    <3> HIDE DEF c
    <3>6. pending = {} BY <1>i, <3>3, <3>4, <3>5
    <3>7. g' \in CleanpVariables /\ g'.busy /\ g'.count = c /\ g'.counter = g.counter /\ g'.count >= 0
      BY <1>i, <3>3, <3>5 DEF CleanpVariables
    <3>8. \A u \in Team : pc[u] \in {"handler", "cancelled"} => Asked(u)'
      BY <1>i, <3>1, <3>5, <3>7 DEF Asked
    <3> QED BY <1>0, <1>i, <3>1, <3>2, <3>6, <3>7, <3>8 DEF CleanpIInv
  <2> QED BY <1>1, <2>1, <2>2, <2>3, <2>4, <2>5 DEF CleanpMain
<1>2. CASE t \in Team /\ (CleanpThread(t) \/ cleanup_handler(t))
  <2>m. pc'[Main] = pc[Main] /\ PcOK' /\ \A u \in Threads : u # t => pc'[u] = pc[u]
    <3>1. pc' = pc \/ \E l : pc' = [pc EXCEPT ![t] = l]
      BY <1>2, Zenon DEF CleanpThread, cleanup_handler, Unlock
    <3> QED BY <1>2, <1>i, <3>1 DEF PcOK
  <2>n. pc[Main] = "start" => t <= g.count
    <3>1. pc[t] # "none" BY <1>2 DEF CleanpThread, cleanup_handler, Unlock
    <3> QED BY <1>2, <1>i, <1>t, <3>1
  <2>c. \A u \in Team : g'.count = g.count => (Asked(u)' <=> Asked(u)) BY <2>m DEF Asked
  <2>o. /\ \A u \in Team : u # t /\ pc'[u] \in {"wait", "handler"} <=> u # t /\ pc[u] \in {"wait", "handler"}
    BY <2>m
  <2>1. CASE \/ Act(t, "begin", "cancelled") /\ UNCHANGED g
             \/ Local(t, "begin", "lock") /\ UNCHANGED g
    <3>1. /\ g' = g /\ mutex' = mutex /\ waiters' = waiters
          /\ pc[t] = "begin" /\ pc'[t] \in {"cancelled", "lock"} /\ pending' \subseteq pending
      BY <1>2, <1>i, <2>1 DEF PcOK
    <3>2. pc'[t] = "cancelled" => pending' = {} /\ Asked(t)
      <4> SUFFICES ASSUME pc'[t] = "cancelled" PROVE pending' = {} /\ Asked(t) OBVIOUS
      <4>1. t \in pending /\ pending' = pending \ {t} BY <1>2, <1>i, <2>1 DEF PcOK
      <4>2. pc[Main] = "join" /\ pending = {g.count + 1} BY <1>i, <4>1
      <4> QED BY <1>2, <1>t, <4>1, <4>2 DEF Asked
    <3>3. Counted' = Counted BY <1>2, <2>o, <3>1 DEF Counted
    <3>4. pending' # {} => pending' = pending BY <1>i, <3>1
    <3>5. mutex # t /\ t \notin waiters BY <1>i, <3>1
    <3>6. \A u \in Team :
            /\ pc'[u] # "done"
            /\ pc'[u] \in {"handler", "cancelled"} => Asked(u)' /\ u \notin pending'
      BY <1>2, <1>i, <2>c, <2>m, <3>1, <3>2
    <3>7. pc'[Main] = "start" => \A u \in Team : u > g'.count => pc'[u] = "none"
      BY <1>2, <1>i, <1>t, <2>m, <2>n, <3>1
    <3>8. (mutex' # None => pc'[mutex'] = "handler") /\ \A u \in waiters' : pc'[u] = "wait"
      BY <1>2, <1>i, <2>m, <3>1, <3>5
    <3> QED BY <1>0, <1>i, <2>m, <3>1, <3>3, <3>4, <3>6, <3>7, <3>8 DEF CleanpIInv
  <2>2. CASE /\ At(t, "lock") /\ mutex = None /\ g' = [g EXCEPT !.counter = @ + 1]
             /\ waiters' = waiters \cup {t} /\ mutex' = None /\ Goto(t, "wait") /\ UNCHANGED pending
    <3>1. pc[t] = "lock" /\ pc'[t] = "wait" BY <1>2, <1>i, <2>2 DEF PcOK
    <3>2. g' = [g EXCEPT !.counter = g.counter + 1] /\ g.counter + 1 \in Int BY <1>t, <2>2
    <3>3. g' \in CleanpVariables /\ g'.busy /\ g'.count = g.count /\ g'.counter = g.counter + 1
      BY <1>i, <3>2 DEF CleanpVariables
    <3>4. Counted' = Counted \cup {t} /\ t \notin Counted BY <1>2, <2>o, <3>1 DEF Counted
    <3>5. g'.counter = Cardinality(Counted')
      <4> DEFINE C == Counted
      <4>1. IsFiniteSet(C) /\ t \notin C /\ Counted' = C \cup {t} BY <3>4, TeamCounted
      <4>2. g.counter = Cardinality(C) BY <1>i
      <4> HIDE DEF C
      <4>3. Cardinality(C \cup {t}) = Cardinality(C) + 1 BY <4>1, FS_AddElement
      <4> QED BY <3>3, <4>1, <4>2, <4>3
    <3>6. \A u \in waiters' : u \in Team /\ pc'[u] = "wait" BY <1>2, <1>i, <2>2, <2>m, <3>1
    <3>7. \A u \in Team :
            /\ pc'[u] # "done"
            /\ pc'[u] \in {"handler", "cancelled"} => Asked(u)' /\ u \notin pending'
      BY <1>2, <1>i, <2>2, <2>c, <2>m, <3>1, <3>3
    <3>8. pc'[Main] = "start" => \A u \in Team : u > g'.count => pc'[u] = "none"
      BY <1>2, <1>i, <1>t, <2>m, <2>n, <3>3
    <3> QED BY <1>0, <1>i, <2>2, <2>m, <3>3, <3>5, <3>6, <3>7, <3>8 DEF CleanpIInv
  <2>3. CASE At(t, "wait") /\ waiters' = waiters \cup {t} /\ UNCHANGED <<pc, mutex, pending, g>>
    <3>1. \A u \in waiters' : u \in Team /\ pc[u] = "wait" BY <1>2, <1>i, <2>3
    <3>2. Counted' = Counted BY <2>3 DEF Counted
    <3> QED BY <1>0, <1>i, <2>3, <2>c, <2>m, <3>1, <3>2 DEF CleanpIInv
  <2>4. CASE /\ At(t, "wait") /\ t \in pending /\ mutex = None
             /\ mutex' = t /\ waiters' = waiters \ {t} /\ pending' = pending \ {t}
             /\ Goto(t, "handler") /\ UNCHANGED g
    <3>1. pc[t] = "wait" /\ pc'[t] = "handler" /\ g' = g BY <1>2, <1>i, <2>4 DEF PcOK
    <3>2. Counted' = Counted BY <1>2, <2>o, <3>1 DEF Counted
    <3>3. pc[Main] = "join" /\ pending = {g.count + 1} BY <1>i, <2>4
    <3>4. pending' = {} /\ Asked(t) BY <1>t, <2>4, <3>3 DEF Asked
    <3>5. \A u \in waiters' : u \in Team /\ pc'[u] = "wait" BY <1>i, <2>4, <2>m
    <3>6. \A u \in Team :
            /\ pc'[u] # "done"
            /\ pc'[u] \in {"handler", "cancelled"} => Asked(u)' /\ u \notin pending'
      BY <1>2, <1>i, <2>c, <2>m, <3>1, <3>4
    <3>7. pc'[Main] # "start" BY <2>m, <3>3
    <3> QED BY <1>0, <1>2, <1>i, <2>4, <2>m, <3>1, <3>2, <3>4, <3>5, <3>6, <3>7 DEF CleanpIInv
  <2>5. CASE cleanup_handler(t)
    <3>1. /\ pc[t] = "handler" /\ pc'[t] = "cancelled"
          /\ mutex' = None /\ waiters' = waiters /\ pending' = pending
      BY <1>2, <1>i, <2>5 DEF cleanup_handler, Unlock, PcOK
    <3>2. g' = [g EXCEPT !.counter = g.counter - 1] /\ g.counter - 1 \in Int
      BY <1>t, <2>5 DEF cleanup_handler
    <3>3. g' \in CleanpVariables /\ g'.busy /\ g'.count = g.count /\ g'.counter = g.counter - 1
      BY <1>i, <3>2 DEF CleanpVariables
    <3>4. Counted' = Counted \ {t} /\ t \in Counted BY <1>2, <2>o, <3>1 DEF Counted
    <3>5. g'.counter = Cardinality(Counted')
      <4> DEFINE C == Counted
      <4>1. IsFiniteSet(C) /\ t \in C /\ Counted' = C \ {t} BY <3>4, TeamCounted
      <4>2. g.counter = Cardinality(C) BY <1>i
      <4> HIDE DEF C
      <4>3. Cardinality(C \ {t}) = Cardinality(C) - 1 BY <4>1, FS_RemoveElement
      <4> QED BY <3>3, <4>1, <4>2, <4>3
    <3>6. \A u \in waiters' : u \in Team /\ pc'[u] = "wait" BY <1>i, <2>m, <3>1
    <3>7. \A u \in Team :
            /\ pc'[u] # "done"
            /\ pc'[u] \in {"handler", "cancelled"} => Asked(u)' /\ u \notin pending'
      BY <1>2, <1>i, <2>c, <2>m, <3>1, <3>3
    <3>8. pc'[Main] = "start" => \A u \in Team : u > g'.count => pc'[u] = "none"
      BY <1>2, <1>i, <1>t, <2>m, <2>n, <3>3
    <3> QED BY <1>0, <1>i, <2>m, <3>1, <3>3, <3>5, <3>6, <3>7, <3>8 DEF CleanpIInv
  <2>6. CleanpThread(t) =>
          \/ (Act(t, "begin", "cancelled") /\ UNCHANGED g) \/ (Local(t, "begin", "lock") /\ UNCHANGED g)
          \/ /\ At(t, "lock") /\ mutex = None /\ g' = [g EXCEPT !.counter = @ + 1]
             /\ waiters' = waiters \cup {t} /\ mutex' = None /\ Goto(t, "wait") /\ UNCHANGED pending
          \/ At(t, "wait") /\ waiters' = waiters \cup {t} /\ UNCHANGED <<pc, mutex, pending, g>>
          \/ /\ At(t, "wait") /\ t \in pending /\ mutex = None
             /\ mutex' = t /\ waiters' = waiters \ {t} /\ pending' = pending \ {t}
             /\ Goto(t, "handler") /\ UNCHANGED g
    BY <1>i, Zenon DEF CleanpThread
  <2> QED BY <1>2, <2>1, <2>2, <2>3, <2>4, <2>5, <2>6
<1> QED BY <1>1, <1>2 DEF CleanpStep, Team

\* No step, whichever program runs, breaks CleanpIInv.
LEMMA CleanpKept == CleanpIInv /\ [Next]_vars => CleanpIInv'
<1> SUFFICES ASSUME CleanpIInv, [Next]_vars, program = "cancel_cleanp" PROVE CleanpIInv'
  BY Dispatch DEF CleanpIInv
<1>1. CASE Spurious
  <2>1. UNCHANGED <<program, pc, mutex, pending, g>> /\ waiters' \subseteq waiters BY <1>1 DEF Spurious
  <2>2. Counted' = Counted /\ \A t : Asked(t)' <=> Asked(t) BY <2>1 DEF Counted, Asked
  <2> QED BY <2>1, <2>2 DEF CleanpIInv, PcOK
<1>2. CASE UNCHANGED vars
  <2>1. Counted' = Counted /\ \A t : Asked(t)' <=> Asked(t) BY <1>2 DEF vars, Counted, Asked
  <2> QED BY <1>2, <2>1 DEF vars, CleanpIInv, PcOK
<1> QED BY <1>1, <1>2, CleanpStepKeeps, Dispatch

\* What CleanpIInv says of the program.
LEMMA CleanpImplies == CleanpIInv => CounterCounts /\ (program = "cancel_cleanp" => PthreadsOK)
<1> SUFFICES ASSUME CleanpIInv, program = "cancel_cleanp" PROVE CounterCounts /\ PthreadsOK
  BY DEF CounterCounts
<1>1. CounterCounts BY DEF CleanpIInv, CounterCounts, Counted, Team, At
<1>2. \A t \in pending : t \in Team /\ pc[t] \notin {"done", "cancelled"}
  <2> TAKE t \in pending
  <2>1. t = g.count + 1 /\ g.count \in -1 .. TeamSize /\ g.count >= 0 /\ g.count < TeamSize
    BY DEF CleanpIInv, CleanpVariables
  <2>2. t \in Team BY <2>1, TeamCounted
  <2> QED BY <2>2 DEF CleanpIInv
<1>3. mutex \in Threads \cup {None} /\ \A t \in waiters : t \in Threads /\ pc[t] = "wait"
  BY TeamCounted DEF CleanpIInv
<1> QED BY <1>1, <1>2, <1>3, TeamCounted DEF PthreadsOK, At, Ended

\* The variables of cancel_subcontract.c.
SubcontractVariables == [count : 0..TeamSize, detached : SUBSET Team]

\* The contractor has not begun its cleanup.
Contracting == pc[Contractor] \in {"none", "begin", "join"}

\* cancel_subcontract.c: a worker is told to go only by the contractor's
\* cleanup, which the one request for the contractor begins.
SubcontractIInv ==
  program = "cancel_subcontract" =>
    /\ PcOK /\ mutex \in Threads \cup {None} /\ waiters = {}
    /\ g \in SubcontractVariables
    /\ pc[Main] \in {"start", "asleep"} => Contracting /\ pending = {}
    /\ Contracting \/ pc[Contractor] \in {"cleanup", "cancelled"}
    /\ pc[Contractor] = "join" => g.count = 0
    /\ pc[Contractor] = "cancelled" => g.count = TeamSize
    /\ pending \subseteq Team \cup {Contractor}
    /\ Contractor \in pending => Contracting
    /\ \A w \in Team : w \in pending => ~ Ended(w)
    /\ Contracting => pending \subseteq {Contractor} /\ \A w \in Team : ~ Ended(w)
    /\ ~ Contracting => \A w \in 1 .. g.count : w \in g.detached /\ (Ended(w) \/ w \in pending)

\* The contractor is a thread of its own.
LEMMA ContractorApart ==
  /\ Contractor \in Threads /\ Contractor \notin Team /\ Contractor # Main
  /\ TeamSize \in Nat /\ Team = 1..TeamSize /\ Team \subseteq Threads
  /\ Main \in Threads /\ Main \notin Team /\ None \notin Threads
<1>1. LastThread >= 3 BY NamedThreads DEF Threads
<1> QED BY <1>1, CancellationAssumption, TeamCounted, NamedThreads DEF Contractor, Threads, Main

\* Init establishes SubcontractIInv.
LEMMA SubcontractInitial == Init => SubcontractIInv
<1> SUFFICES ASSUME Init, program = "cancel_subcontract" PROVE SubcontractIInv BY DEF SubcontractIInv
<1> USE ContractorApart
<1>1. Start("cancel_subcontract", [count |-> 0, detached |-> {}]) BY InitialState DEF SubcontractInit
<1>2. g = [count |-> 0, detached |-> {}] BY <1>1 DEF Start
<1>3. g \in SubcontractVariables BY <1>2 DEF SubcontractVariables
<1>4. PcOK /\ pc[Contractor] = "none" /\ \A w \in Team : pc[w] = "none" BY <1>1 DEF Start, PcOK
<1> QED BY <1>1, <1>3, <1>4 DEF Start, SubcontractIInv, Contracting, Ended

\* The program's own steps preserve SubcontractIInv.
LEMMA SubcontractStepKeeps ==
  ASSUME SubcontractIInv, program = "cancel_subcontract", NEW t \in Threads, SubcontractStep(t)
  PROVE  SubcontractIInv'
<1> USE ContractorApart DEF At, Goto, NoSync, Local, Act
<1>0. program' = program BY DEF SubcontractStep
<1>i. /\ PcOK /\ mutex \in Threads \cup {None} /\ waiters = {}
      /\ g \in SubcontractVariables
      /\ pc[Main] \in {"start", "asleep"} => Contracting /\ pending = {}
      /\ Contracting \/ pc[Contractor] \in {"cleanup", "cancelled"}
      /\ pc[Contractor] = "join" => g.count = 0
      /\ pc[Contractor] = "cancelled" => g.count = TeamSize
      /\ pending \subseteq Team \cup {Contractor}
      /\ Contractor \in pending => Contracting
      /\ \A w \in Team : w \in pending => ~ Ended(w)
      /\ Contracting => pending \subseteq {Contractor} /\ \A w \in Team : ~ Ended(w)
      /\ ~ Contracting => \A w \in 1 .. g.count : w \in g.detached /\ (Ended(w) \/ w \in pending)
  BY DEF SubcontractIInv
<1>t. g.count \in 0..TeamSize /\ g.detached \subseteq Team BY <1>i DEF SubcontractVariables
<1>w. \A w \in 1 .. g.count : w \in Team BY <1>t
<1>1. CASE t = Main /\ SubcontractMain
  <2>1. CASE Create(Main, Contractor, "start", "asleep") /\ NoSync /\ UNCHANGED g
    <3>1. /\ PcOK' /\ pc'[Contractor] = "begin" /\ pc'[Main] = "asleep"
          /\ \A w \in Team : pc'[w] = pc[w]
      BY <1>i, <2>1 DEF Create, PcOK
    <3>2. pc[Main] = "start" /\ g' = g /\ mutex' = mutex /\ waiters' = waiters /\ pending' = pending
      BY <2>1 DEF Create
    <3>3. Contracting /\ Contracting' BY <1>i, <3>1, <3>2 DEF Contracting
    <3>4. \A w \in Team : ~ Ended(w)' BY <1>i, <3>1, <3>3 DEF Ended
    <3> QED BY <1>0, <1>i, <3>1, <3>2, <3>3, <3>4 DEF SubcontractIInv
  <2>2. CASE (Cancel(Main, Contractor, "asleep", "join") \/ Join(Main, Contractor, "join", "done")) /\ UNCHANGED g
    <3>1. /\ PcOK' /\ pc'[Contractor] = pc[Contractor] /\ pc'[Main] \in {"join", "done"}
          /\ (\A w \in Team : pc'[w] = pc[w]) /\ g' = g /\ mutex' = mutex /\ waiters' = waiters
      BY <1>i, <2>2 DEF Cancel, Join, PcOK
    <3>2. Contracting' <=> Contracting BY <3>1 DEF Contracting
    <3>3. \A w \in Team : Ended(w)' <=> Ended(w) BY <3>1 DEF Ended
    <3>4. pending' = pending \/ (Contracting /\ pending = {} /\ pending' = {Contractor})
      <4>1. CASE Cancel(Main, Contractor, "asleep", "join")
        <5>1. Contracting /\ pending = {} BY <1>i, <4>1 DEF Cancel
        <5> QED BY <4>1, <5>1 DEF Cancel
      <4>2. CASE Join(Main, Contractor, "join", "done") BY <4>2 DEF Join
      <4> QED BY <2>2, <4>1, <4>2
    <3> QED BY <1>0, <1>i, <1>w, <3>1, <3>2, <3>3, <3>4 DEF SubcontractIInv
  <2> QED BY <1>1, <2>1, <2>2 DEF SubcontractMain
<1>2. CASE t = Contractor /\ (ContractorRoutine \/ cleanup)
  <2>1. CASE /\ g.count < TeamSize
             /\ Create(Contractor, g.count + 1, "begin", "begin") /\ NoSync
             /\ g' = [g EXCEPT !.count = @ + 1]
    <3> DEFINE c == g.count + 1
    <3>1. c \in Team /\ c \in 0..TeamSize BY <1>t, <2>1
    <3>2. g' = [g EXCEPT !.count = c] /\ pc' = [pc EXCEPT ![Contractor] = "begin", ![c] = "begin"]
      BY <2>1 DEF Create
    <3> HIDE DEF c
    <3>3. PcOK' /\ pc'[Main] = pc[Main] /\ pc'[Contractor] = "begin" BY <1>i, <3>1, <3>2 DEF PcOK
    <3>4. pc'[c] = "begin" /\ \A w \in Team : w # c => pc'[w] = pc[w] BY <1>i, <3>1, <3>2 DEF PcOK
    <3>5. g' \in SubcontractVariables BY <1>i, <3>1, <3>2 DEF SubcontractVariables
    <3>6. pc[Contractor] = "begin" /\ mutex' = mutex /\ waiters' = waiters /\ pending' = pending
      BY <2>1 DEF Create
    <3>7. Contracting /\ Contracting' BY <3>3, <3>6 DEF Contracting
    <3>8. \A w \in Team : ~ Ended(w)' BY <1>i, <3>4, <3>7 DEF Ended
    <3> QED BY <1>0, <1>i, <3>3, <3>5, <3>6, <3>7, <3>8 DEF SubcontractIInv
  <2>2. CASE Local(Contractor, "begin", "join") /\ g' = [g EXCEPT !.count = 0]
    <3>1. /\ PcOK' /\ pc[Contractor] = "begin" /\ pc'[Contractor] = "join" /\ pc'[Main] = pc[Main]
          /\ (\A w \in Team : pc'[w] = pc[w]) /\ mutex' = mutex /\ waiters' = waiters /\ pending' = pending
      BY <1>i, <2>2 DEF PcOK
    <3>2. g' \in SubcontractVariables /\ g'.count = 0 BY <1>i, <2>2 DEF SubcontractVariables
    <3>3. Contracting /\ Contracting' BY <3>1 DEF Contracting
    <3>4. \A w \in Team : ~ Ended(w)' BY <1>i, <3>1, <3>3 DEF Ended
    <3> QED BY <1>0, <1>i, <3>1, <3>2, <3>3, <3>4 DEF SubcontractIInv
  <2>3. CASE Act(Contractor, "join", "cleanup") /\ UNCHANGED g
    <3>1. /\ PcOK' /\ pc[Contractor] = "join" /\ pc'[Contractor] = "cleanup" /\ pc'[Main] = pc[Main]
          /\ (\A w \in Team : pc'[w] = pc[w]) /\ mutex' = mutex /\ waiters' = waiters /\ g' = g
      BY <1>i, <2>3 DEF PcOK
    <3>2. Contracting /\ ~ Contracting' BY <3>1 DEF Contracting
    <3>3. pending' = {} /\ pc[Main] \notin {"start", "asleep"} BY <1>i, <2>3, <3>2
    <3>4. g.count = 0 BY <1>i, <3>1
    <3>5. \A w \in 1 .. g'.count : FALSE BY <3>1, <3>4
    <3> QED BY <1>0, <1>i, <3>1, <3>2, <3>3, <3>5 DEF SubcontractIInv
  <2>4. CASE /\ g.count < TeamSize
             /\ Cancel(Contractor, g.count + 1, "cleanup", "cleanup")
             /\ g' = [count |-> g.count + 1, detached |-> g.detached \cup {g.count + 1}]
    <3> DEFINE c == g.count + 1
    <3>1. c \in Team /\ c \in 0..TeamSize /\ \A w \in 1 .. c : w = c \/ w \in 1 .. g.count BY <1>t, <2>4
    <3>2. g' = [count |-> c, detached |-> g.detached \cup {c}] BY <2>4
    <3>3. pending' = IF Ended(c) THEN pending ELSE pending \cup {c} BY <2>4 DEF Cancel
    <3> HIDE DEF c
    <3>4. /\ PcOK' /\ pc[Contractor] = "cleanup" /\ pc'[Contractor] = "cleanup" /\ pc'[Main] = pc[Main]
          /\ (\A w \in Team : pc'[w] = pc[w]) /\ mutex' = mutex /\ waiters' = waiters
      BY <1>i, <2>4 DEF Cancel, PcOK
    <3>5. g' \in SubcontractVariables /\ g'.count = c /\ g'.detached = g.detached \cup {c}
      BY <1>t, <3>1, <3>2 DEF SubcontractVariables
    <3>6. ~ Contracting /\ ~ Contracting' BY <3>4 DEF Contracting
    <3>7. \A w \in Team : Ended(w)' <=> Ended(w) BY <3>4 DEF Ended
    <3>8. \A w \in 1 .. g'.count : w \in g'.detached /\ (Ended(w)' \/ w \in pending')
      BY <1>i, <1>w, <3>1, <3>3, <3>5, <3>6, <3>7
    <3>9. pending' \subseteq Team \cup {Contractor} /\ Contractor \notin pending' BY <1>i, <3>1, <3>3, <3>6
    <3>10. \A w \in Team : w \in pending' => ~ Ended(w)' BY <1>i, <3>3, <3>7
    <3> QED BY <1>0, <1>i, <3>4, <3>5, <3>6, <3>8, <3>9, <3>10 DEF SubcontractIInv
  <2>5. CASE g.count = TeamSize /\ Local(Contractor, "cleanup", "cancelled") /\ UNCHANGED g
    <3>1. /\ PcOK' /\ pc[Contractor] = "cleanup" /\ pc'[Contractor] = "cancelled" /\ pc'[Main] = pc[Main]
          /\ (\A w \in Team : pc'[w] = pc[w]) /\ mutex' = mutex /\ waiters' = waiters /\ g' = g
          /\ pending' = pending
      BY <1>i, <2>5 DEF PcOK
    <3>2. ~ Contracting /\ ~ Contracting' BY <3>1 DEF Contracting
    <3>3. \A w \in Team : Ended(w)' <=> Ended(w) BY <3>1 DEF Ended
    <3> QED BY <1>0, <1>i, <1>w, <2>5, <3>1, <3>2, <3>3 DEF SubcontractIInv
  <2> QED BY <1>2, <2>1, <2>2, <2>3, <2>4, <2>5 DEF ContractorRoutine, cleanup
<1>3. CASE t \in Team /\ worker_routine(t)
  <2>1. /\ PcOK' /\ t \in pending /\ pending' = pending \ {t} /\ mutex' = mutex /\ waiters' = waiters /\ g' = g
        /\ pc'[t] = "cancelled" /\ pc'[Main] = pc[Main] /\ pc'[Contractor] = pc[Contractor]
        /\ (\A w \in Team : w # t => pc'[w] = pc[w])
    BY <1>3, <1>i DEF worker_routine, PcOK
  <2>2. ~ Contracting /\ ~ Contracting' BY <1>3, <1>i, <2>1 DEF Contracting
  <2>3. Ended(t)' /\ \A w \in Team : w # t => (Ended(w)' <=> Ended(w)) BY <1>3, <2>1 DEF Ended
  <2>4. \A w \in 1 .. g'.count : w \in g'.detached /\ (Ended(w)' \/ w \in pending')
    BY <1>i, <1>w, <2>1, <2>2, <2>3
  <2>5. \A w \in Team : w \in pending' => ~ Ended(w)' BY <1>i, <2>1, <2>3
  <2> QED BY <1>0, <1>3, <1>i, <2>1, <2>2, <2>4, <2>5 DEF SubcontractIInv
<1> QED BY <1>1, <1>2, <1>3 DEF SubcontractStep

\* No step, whichever program runs, breaks SubcontractIInv.
LEMMA SubcontractKept == SubcontractIInv /\ [Next]_vars => SubcontractIInv'
<1> SUFFICES ASSUME SubcontractIInv, [Next]_vars, program = "cancel_subcontract" PROVE SubcontractIInv'
  BY Dispatch DEF SubcontractIInv
<1>1. CASE Spurious BY <1>1 DEF Spurious, SubcontractIInv
<1>2. CASE UNCHANGED vars
  <2>1. (Contracting' <=> Contracting) /\ \A w : Ended(w)' <=> Ended(w) BY <1>2 DEF vars, Contracting, Ended
  <2> QED BY <1>2, <2>1 DEF vars, SubcontractIInv, PcOK
<1> QED BY <1>1, <1>2, SubcontractStepKeeps, Dispatch

\* What SubcontractIInv says of the program.
LEMMA SubcontractImplies == SubcontractIInv => TeamGoesLast /\ (program = "cancel_subcontract" => PthreadsOK)
<1> SUFFICES ASSUME SubcontractIInv, program = "cancel_subcontract" PROVE TeamGoesLast /\ PthreadsOK
  BY DEF TeamGoesLast
<1> USE ContractorApart
<1>1. pc[Contractor] \in {"begin", "join"} => \A w \in Team : ~ Ended(w) BY DEF SubcontractIInv, Contracting
<1>2. Ended(Contractor) => ~ Contracting /\ g.count = TeamSize BY DEF SubcontractIInv, Contracting, Ended
<1>3. Ended(Contractor) => \A w \in Team : w \in g.detached /\ (Ended(w) \/ w \in pending)
  BY <1>2 DEF SubcontractIInv
<1>4. Contracting => ~ Ended(Contractor) BY DEF Contracting, Ended
<1>5. \A t \in pending : t \in Threads /\ ~ Ended(t) BY <1>4 DEF SubcontractIInv
<1>6. mutex \in Threads \cup {None} /\ waiters = {} BY DEF SubcontractIInv
<1> QED BY <1>1, <1>3, <1>5, <1>6 DEF TeamGoesLast, PthreadsOK

\* What CancelIInv says of the program.
LEMMA CancelImplies ==
  CancelIInv => CancelledAtTest /\ (program \in {"cancel", "cancel_disable"} => PthreadsOK)
<1> SUFFICES ASSUME CancelIInv, program \in {"cancel", "cancel_disable"} PROVE CancelledAtTest /\ PthreadsOK
  BY DEF CancelledAtTest
<1>1. CancelledAtTest BY DEF CancelIInv, CancelledAtTest, At
<1>2. \A t \in pending : t \in Threads /\ ~ Ended(t) BY NamedThreads DEF CancelIInv, Looper, Ended
<1> QED BY <1>1, <1>2 DEF CancelIInv, PthreadsOK

\* The inductive invariants of all the programs.
AllIInv ==
  /\ program \in Programs
  /\ AtforkIInv /\ OnceIInv /\ TsdIInv /\ OrderIInv
  /\ TimerIInv /\ FlockIInv /\ PutcharIInv /\ PipeIInv
  /\ BeeIInv /\ ChatIInv /\ TrylockIInv /\ DotIInv
  /\ AccumulateIInv /\ CountIInv /\ CondIInv /\ SigwaitIInv
  /\ ExpiryIInv /\ QtIInv /\ CancelIInv /\ CleanpIInv
  /\ SubcontractIInv

\* The library's state in the programs that use the mutex at most.
LEMMA UnusedOK == Unused => PthreadsOK
BY DEF Unused, PthreadsOK

\* The library's state in the programs with a condition variable.
LEMMA WaitersOK ==
  ASSUME NotCancelled, waiters \subseteq Threads, \A t \in waiters : pc[t] = "wait"
  PROVE  PthreadsOK
BY DEF NotCancelled, PthreadsOK, At

\* Each program's invariant gives the type invariant.
LEMMA AllOK == AllIInv => PthreadsOK
<1> SUFFICES ASSUME AllIInv PROVE PthreadsOK OBVIOUS
<1>1. CASE program = "atfork" BY <1>1, UnusedOK DEF AllIInv, AtforkIInv
<1>2. CASE program = "once" BY <1>2, UnusedOK DEF AllIInv, OnceIInv
<1>3. CASE program = "tsd" BY <1>3, UnusedOK DEF AllIInv, TsdIInv
<1>4. CASE program = "semaOrder" BY <1>4, UnusedOK DEF AllIInv, OrderIInv
<1>5. CASE program = "timer" BY <1>5, UnusedOK DEF AllIInv, TimerIInv
<1>6. CASE program = "flock" BY <1>6, UnusedOK DEF AllIInv, FlockIInv
<1>7. CASE program = "putchar" BY <1>7, UnusedOK DEF AllIInv, PutcharIInv
<1>8. CASE program = "pipe" BY <1>8, UnusedOK DEF AllIInv, PipeIInv
<1>9. CASE program = "server_bee" BY <1>9, UnusedOK DEF AllIInv, BeeIInv
<1>10. CASE program = "socket_server" BY <1>10, UnusedOK DEF AllIInv, ChatIInv
<1>11. CASE program = "trylock" BY <1>11, UnusedOK DEF AllIInv, TrylockIInv
<1>12. CASE program = "dotprod" BY <1>12, UnusedOK DEF AllIInv, DotIInv
<1>13. CASE program = "accumulate" BY <1>13, UnusedOK DEF AllIInv, AccumulateIInv
<1>14. CASE program = "condition"
  <2>1. NotCancelled /\ waiters \subseteq Threads /\ \A t \in waiters : pc[t] = "wait"
    BY <1>14, NamedThreads DEF AllIInv, CountIInv, Watcher
  <2> QED BY <2>1, WaitersOK
<1>15. CASE program = "cond"
  <2>1. NotCancelled /\ waiters \subseteq Threads /\ \A t \in waiters : pc[t] = "wait"
    BY <1>15, NamedThreads DEF AllIInv, CondIInv, Main
  <2> QED BY <2>1, WaitersOK
<1>16. CASE program = "sigwait"
  <2>1. NotCancelled /\ waiters \subseteq Threads /\ \A t \in waiters : pc[t] = "wait"
    BY <1>16, NamedThreads DEF AllIInv, SigwaitIInv, Main
  <2> QED BY <2>1, WaitersOK
<1>17. CASE program = "sigev_thread"
  <2>1. NotCancelled /\ waiters \subseteq Threads /\ \A t \in waiters : pc[t] = "wait"
    BY <1>17, NamedThreads DEF AllIInv, ExpiryIInv, Main
  <2> QED BY <2>1, WaitersOK
<1>18. CASE program = "qt"
  <2>1. NotCancelled /\ waiters \subseteq Threads /\ \A t \in waiters : pc[t] = "wait"
    BY <1>18, NamedThreads DEF AllIInv, QtIInv, Producer, Consumer
  <2> QED BY <2>1, WaitersOK
<1>19. CASE program \in {"cancel", "cancel_disable"} BY <1>19, CancelImplies DEF AllIInv
<1>20. CASE program = "cancel_cleanp" BY <1>20, CleanpImplies DEF AllIInv
<1>21. CASE program = "cancel_subcontract" BY <1>21, SubcontractImplies DEF AllIInv
<1> QED
  BY <1>1, <1>2, <1>3, <1>4, <1>5, <1>6, <1>7, <1>8, <1>9, <1>10, <1>11,
     <1>12, <1>13, <1>14, <1>15, <1>16, <1>17, <1>18, <1>19, <1>20, <1>21 DEF AllIInv, Programs

\* One program runs in a behaviour.
LEMMA ProgramKept == program \in Programs /\ [Next]_vars => program' \in Programs
BY Dispatch

\* The initial states satisfy every program's invariant.
LEMMA AllInitial == Init => AllIInv
BY InitialState, AtforkInitial, OnceInitial, TsdInitial, OrderInitial, TimerInitial,
   FlockInitial, PutcharInitial, PipeInitial, BeeInitial, ChatInitial,
   TrylockInitial, DotInitial, AccumulateInitial, CountInitial, CondInitial,
   SigwaitInitial, ExpiryInitial, QtInitial, CancelInitial, CleanpInitial,
   SubcontractInitial
   DEF AllIInv

\* No step breaks one.
LEMMA AllKept == AllIInv /\ [Next]_vars => AllIInv'
BY ProgramKept, AtforkKept, OnceKept, TsdKept, OrderKept, TimerKept,
   FlockKept, PutcharKept, PipeKept, BeeKept, ChatKept,
   TrylockKept, DotKept, AccumulateKept, CountKept, CondKept,
   SigwaitKept, ExpiryKept, QtKept, CancelKept, CleanpKept,
   SubcontractKept
   DEF AllIInv

\* In every thread program a thread waits or is to be cancelled only while it
\* runs.  In the cancellation programs a thread is cancelled at the tests and
\* nowhere else, the counter of cancel_cleanp.c counts its threads wherever
\* they are cancelled, and the contractor's team outlives its joins; for every
\* team and every interval between the tests.
THEOREM CancellationCorrect == Spec => []CancellationInv
<1>1. AllIInv => CancellationInv
  BY AllOK, CancelImplies, CleanpImplies, SubcontractImplies DEF AllIInv, CancellationInv
<1> QED BY <1>1, AllInitial, AllKept, PTL DEF Spec

-----------------------------------------------------------------------------
(* Suspension.  Any callers, targets and calls.                            *)

\* A nonempty set of naturals has a least element, which Min is.
LEMMA MinProperties ==
  ASSUME NEW S \in SUBSET Nat, S # {}
  PROVE  Min(S) \in S /\ \A x \in S : Min(S) <= x
  <1>1. PICK x \in S : \A y \in S : <<y, x>> \notin OpToRel(<, Nat)
    BY NatLessThanWellFounded, WFMin
  <1>2. \A y \in S : ~(y < x)
    BY <1>1, Zenon DEF OpToRel
  <1>3. \A y \in S : x <= y
    BY <1>2
  <1> QED  BY <1>3 DEF Min

\* A thread in suspend_signal_handler, before its store to sentinel, has no
\* second SIGUSR1 pending: its store acknowledges exactly one signal.
OneSignal == \A t \in Targets : mode[t] = "handler" => ~usr1[t]

\* A caller that spins holds mut, and the entry it will write is in the array.
Spinning == \A c \in Callers : target[c] # NULL => mut = c /\ slot[c] \in 1..Len(array)

\* SuspendInv and what it takes to preserve it.
HandshakeInv == SuspendInv /\ OneSignal /\ Spinning

\* The loops of thd_suspend stop at an entry or just behind the array.
LEMMA FirstIndexRange ==
  ASSUME array \in Seq(Targets \cup {NULL}), NEW t
  PROVE  FirstIndex(t) \in 1..Len(array) + 1
  <1> DEFINE S == {i \in 1..Len(array) : array[i] = t} \cup {Len(array) + 1}
  <1>1. S \in SUBSET Nat /\ S # {} /\ S \subseteq 1..Len(array) + 1
    OBVIOUS
  <1> HIDE DEF S
  <1>2. Min(S) \in S
    BY <1>1, MinProperties
  <1>3. FirstIndex(t) = Min(S)
    BY DEF FirstIndex, S
  <1> QED  BY <1>1, <1>2, <1>3

\* The index thd_continue stops at.
LEMMA ContinueIndexRange ==
  ASSUME array \in Seq(Targets \cup {NULL}), NEW t
  PROVE  ContinueIndex(t) \in 1..Len(array) + 1
  <1> DEFINE S == {i \in 1..Len(array) : array[i] # t} \cup {Len(array) + 1}
  <1>1. S \in SUBSET Nat /\ S # {} /\ S \subseteq 1..Len(array) + 1
    OBVIOUS
  <1> HIDE DEF S
  <1>2. Min(S) \in S
    BY <1>1, MinProperties
  <1>3. ContinueIndex(t) = Min(S)
    BY DEF ContinueIndex, S
  <1> QED  BY <1>1, <1>2, <1>3

\* SuspendInit establishes the invariant.
LEMMA InitHandshake == SuspendInit => HandshakeInv
  <1> SUFFICES ASSUME SuspendInit PROVE HandshakeInv
    OBVIOUS
  <1> USE SuspendAssumption DEF SuspendInit
  <1>1. array \in Seq(Targets \cup {NULL}) /\ Len(array) = bottom
    OBVIOUS
  <1>2. TypeOK
    <2>1. 0 \in 0..Len(array) /\ 0 \in 0..MaxCalls
      BY <1>1
    <2> QED  BY <1>1, <2>1, Zenon DEF TypeOK
  <1>3. HandshakeOwned /\ OneSignal /\ Spinning
    BY DEF HandshakeOwned, OneSignal, Spinning
  <1> QED  BY <1>2, <1>3 DEF HandshakeInv, SuspendInv

\* While mut is free no SIGUSR1 is on its way and no caller spins.
LEMMA FreeMeansQuiet ==
  ASSUME HandshakeInv, mut = NULL
  PROVE  /\ \A t \in Targets : ~usr1[t] /\ mode[t] # "handler"
         /\ \A c \in Callers : target[c] = NULL
  BY SuspendAssumption DEF HandshakeInv, SuspendInv, HandshakeOwned, Spinning

\* thd_suspend sends the signal.
LEMMA KillStep ==
  ASSUME HandshakeInv, NEW c \in Callers, NEW t \in Targets, SuspendKill(c, t)
  PROVE  HandshakeInv'
  <1> DEFINE i == FirstIndex(NULL)
  <1> HIDE DEF i
  <1> USE SuspendAssumption
  <1>1. TypeOK
    BY DEF HandshakeInv, SuspendInv
  <1>2. mut = NULL /\ target[c] = NULL /\ calls < MaxCalls /\ calls' = calls + 1
    BY DEF SuspendKill, Enter
  <1>3. /\ \A u \in Targets : ~usr1[u] /\ mode[u] # "handler"
        /\ \A d \in Callers : target[d] = NULL
    BY <1>2, FreeMeansQuiet
  <1>4. Place(i) /\ sentinel' = 0 /\ UNCHANGED <<mode, usr2>>
    BY DEF SuspendKill, i
  <1>5. i \in 1..Len(array) + 1
    BY <1>1, FirstIndexRange DEF TypeOK, i
  <1>6. /\ array' \in Seq(Targets \cup {NULL})
        /\ i \in 1..Len(array') /\ Len(array') >= Len(array)
        /\ overrun' \in BOOLEAN /\ Len(array') \in Nat /\ Len(array) \in Nat
    <2>1. CASE i <= Len(array) /\ UNCHANGED <<array, overrun>>
      BY <1>1, <1>5, <2>1 DEF TypeOK
    <2>2. CASE i = Len(array) + 1 /\ (\E junk \in Targets \cup {NULL} : array' = Append(array, junk)) /\ overrun' = TRUE
      BY <1>1, <1>5, <2>2 DEF TypeOK
    <2> QED  BY <1>4, <2>1, <2>2 DEF Place
  <1>7. CASE mode[t] # "gone" /\ usr1' = [usr1 EXCEPT ![t] = TRUE] /\ mut' = c
             /\ target' = [target EXCEPT ![c] = t] /\ slot' = [slot EXCEPT ![c] = i]
    <2>1. TypeOK'
      BY <1>1, <1>2, <1>4, <1>6, <1>7 DEF TypeOK
    <2>2. HandshakeOwned'
      BY <1>1, <1>3, <1>4, <1>7 DEF TypeOK, HandshakeOwned
    <2>3. OneSignal' /\ Spinning'
      BY <1>1, <1>3, <1>4, <1>6, <1>7 DEF TypeOK, OneSignal, Spinning
    <2> QED  BY <2>1, <2>2, <2>3 DEF HandshakeInv, SuspendInv
  <1>8. CASE mode[t] = "gone" /\ UNCHANGED <<usr1, mut, target, slot>>
    <2>1. TypeOK'
      BY <1>1, <1>2, <1>4, <1>6, <1>8 DEF TypeOK
    <2>2. HandshakeOwned' /\ OneSignal' /\ Spinning'
      BY <1>3, <1>4, <1>8 DEF HandshakeOwned, OneSignal, Spinning
    <2> QED  BY <2>1, <2>2 DEF HandshakeInv, SuspendInv
  <1> QED  BY <1>7, <1>8 DEF SuspendKill, i

\* thd_suspend returns.
LEMMA ReturnStep ==
  ASSUME HandshakeInv, NEW c \in Callers, SuspendReturn(c)
  PROVE  HandshakeInv'
  <1> USE SuspendAssumption
  <1>1. TypeOK /\ HandshakeOwned /\ OneSignal /\ Spinning
    BY DEF HandshakeInv, SuspendInv
  <1>2. \A t \in Targets : ~usr1[t] /\ mode[t] # "handler"
    BY <1>1 DEF SuspendReturn, HandshakeOwned
  <1>3. array' \in Seq(Targets \cup {NULL}) /\ Len(array') = Len(array)
    BY <1>1 DEF SuspendReturn, TypeOK, Spinning
  <1>4. TypeOK'
    BY <1>1, <1>3 DEF SuspendReturn, TypeOK
  <1>5. HandshakeOwned' /\ OneSignal'
    BY <1>2 DEF SuspendReturn, HandshakeOwned, OneSignal
  <1>6. Spinning'
    BY <1>1, <1>3 DEF SuspendReturn, Spinning, TypeOK
  <1> QED  BY <1>4, <1>5, <1>6 DEF HandshakeInv, SuspendInv

\* thd_continue.
LEMMA ContinueStep ==
  ASSUME HandshakeInv, NEW c \in Callers, NEW t \in Targets, Continue(c, t)
  PROVE  HandshakeInv'
  <1> DEFINE i == ContinueIndex(t)
  <1> HIDE DEF i
  <1> USE SuspendAssumption
  <1>1. TypeOK /\ HandshakeOwned /\ OneSignal /\ Spinning
    BY DEF HandshakeInv, SuspendInv
  <1>2. i \in 1..Len(array) + 1
    BY <1>1, ContinueIndexRange DEF TypeOK, i
  <1>3. /\ mut = NULL /\ calls < MaxCalls /\ calls' = calls + 1
        /\ UNCHANGED <<mut, sentinel, overrun, mode, usr1, target, slot>>
        /\ \/ UNCHANGED <<array, usr2>>
           \/ /\ i \in 1..Len(array)
              /\ usr2' = [usr2 EXCEPT ![t] = TRUE]
              /\ array' = [array EXCEPT ![i] = NULL]
    BY <1>1, <1>2 DEF Continue, Enter, i, TypeOK
  <1>4. /\ array' \in Seq(Targets \cup {NULL}) /\ Len(array') = Len(array)
        /\ usr2' \in [Targets -> BOOLEAN]
    <2>1. CASE UNCHANGED <<array, usr2>>
      BY <1>1, <2>1 DEF TypeOK
    <2>2. CASE i \in 1..Len(array) /\ usr2' = [usr2 EXCEPT ![t] = TRUE] /\ array' = [array EXCEPT ![i] = NULL]
      BY <1>1, <2>2 DEF TypeOK
    <2> QED  BY <1>3, <2>1, <2>2
  <1>5. TypeOK'
    BY <1>1, <1>3, <1>4 DEF TypeOK
  <1>6. HandshakeOwned' /\ OneSignal' /\ Spinning'
    BY <1>1, <1>3, <1>4 DEF HandshakeOwned, OneSignal, Spinning
  <1> QED  BY <1>5, <1>6 DEF HandshakeInv, SuspendInv

\* thd_suspend of a thread that is suspended already.
LEMMA ListedStep ==
  ASSUME HandshakeInv, NEW c \in Callers, NEW t \in Targets, SuspendListed(c, t)
  PROVE  HandshakeInv'
  BY SuspendAssumption
  DEF HandshakeInv, SuspendInv, TypeOK, HandshakeOwned, OneSignal, Spinning, SuspendListed, Enter

\* The handlers and the end of a target: only Acknowledge is delicate, since it
\* sets sentinel for whoever spins.
LEMMA TargetStep ==
  ASSUME HandshakeInv, NEW t \in Targets, Handler(t) \/ Exit(t)
  PROVE  HandshakeInv'
  <1>1. TypeOK /\ HandshakeOwned /\ OneSignal /\ Spinning
    BY DEF HandshakeInv, SuspendInv
  <1>2. CASE TakeSuspend(t)
    BY <1>1, <1>2 DEF TakeSuspend, HandshakeInv, SuspendInv, TypeOK, HandshakeOwned, OneSignal, Spinning
  <1>3. CASE Acknowledge(t)
    <2>1. PICK c \in Callers : target[c] = t /\ mut = c /\ sentinel = 0
      BY <1>1, <1>3 DEF Acknowledge, HandshakeOwned
    <2>2. \A u \in Targets : usr1[u] \/ mode[u] = "handler" => u = t
      BY <1>1, <2>1 DEF HandshakeOwned
    <2>3. ~usr1[t]
      BY <1>1, <1>3 DEF Acknowledge, OneSignal
    <2>4. \A u \in Targets : ~usr1'[u] /\ mode'[u] # "handler"
      BY <1>1, <1>3, <2>2, <2>3 DEF Acknowledge, TypeOK
    <2>5. TypeOK'
      BY <1>1, <1>3 DEF Acknowledge, TypeOK
    <2>6. HandshakeOwned' /\ OneSignal' /\ Spinning'
      BY <1>1, <1>3, <2>4 DEF Acknowledge, HandshakeOwned, OneSignal, Spinning
    <2> QED  BY <2>5, <2>6 DEF HandshakeInv, SuspendInv
  <1>4. CASE Sigsuspend(t)
    BY <1>1, <1>4 DEF Sigsuspend, HandshakeInv, SuspendInv, TypeOK, HandshakeOwned, OneSignal, Spinning
  <1>5. CASE TakeResume(t)
    BY <1>1, <1>5 DEF TakeResume, HandshakeInv, SuspendInv, TypeOK, HandshakeOwned, OneSignal, Spinning
  <1>6. CASE Exit(t)
    BY <1>1, <1>6 DEF Exit, HandshakeInv, SuspendInv, TypeOK, HandshakeOwned, OneSignal, Spinning
  <1> QED  BY <1>2, <1>3, <1>4, <1>5, <1>6 DEF Handler

\* Every step preserves the invariant.
LEMMA HandshakeStep ==
  ASSUME HandshakeInv, [SuspendNext]_suspendVars
  PROVE  HandshakeInv'
  <1>1. CASE UNCHANGED suspendVars
    BY <1>1 DEF suspendVars, HandshakeInv, SuspendInv, TypeOK, HandshakeOwned, OneSignal, Spinning
  <1>2. ASSUME NEW c \in Callers, CallerStep(c)
        PROVE  HandshakeInv'
    BY <1>2, ListedStep, KillStep, ContinueStep, ReturnStep DEF CallerStep
  <1>3. ASSUME NEW t \in Targets, Handler(t) \/ Exit(t)
        PROVE  HandshakeInv'
    BY <1>3, TargetStep
  <1> QED  BY <1>1, <1>2, <1>3 DEF SuspendNext

\* It holds in every state.
LEMMA HandshakeAlways == SuspendSpec => []HandshakeInv
  BY InitHandshake, HandshakeStep, PTL DEF SuspendSpec

-----------------------------------------------------------------------------
\* At any moment, whatever the order of calls, signals and handlers, a SIGUSR1
\* not yet acknowledged belongs to the one thd_suspend that holds mut.
THEOREM SuspendCorrect == SuspendSpec => []SuspendInv
  BY HandshakeAlways, PTL DEF HandshakeInv

\* While thd_suspend spins, from the place it chose for its target to the store
\* into it, nobody else touches the array; and it returns only when the signal it
\* sent has been delivered and acknowledged.
SpinExclusive ==
  \A c \in Callers :
    target[c] # NULL =>
      /\ array' # array => target'[c] = NULL /\ array' = [array EXCEPT ![slot[c]] = target[c]]
      /\ target'[c] = NULL => ~usr1[target[c]] /\ mode[target[c]] # "handler"

\* Every step keeps to that: the action property of the spin.
THEOREM SpinKeepsArray == SuspendSpec => [][SpinExclusive]_suspendVars
  <1>1. ASSUME HandshakeInv, [SuspendNext]_suspendVars
        PROVE  [SpinExclusive]_suspendVars
    <2> SUFFICES ASSUME NEW c \in Callers, target[c] # NULL
                 PROVE  /\ array' # array => target'[c] = NULL /\ array' = [array EXCEPT ![slot[c]] = target[c]]
                        /\ target'[c] = NULL => ~usr1[target[c]] /\ mode[target[c]] # "handler"
      BY DEF SpinExclusive
    <2>1. mut = c /\ target[c] \in Targets /\ mut # NULL
      BY <1>1, SuspendAssumption DEF HandshakeInv, Spinning, SuspendInv, TypeOK
    <2>2. CASE UNCHANGED suspendVars
      BY <2>2 DEF suspendVars
    <2>3. ASSUME NEW t \in Targets, Handler(t) \/ Exit(t)
          PROVE  UNCHANGED <<array, target>>
      BY <2>3 DEF Handler, Exit, TakeSuspend, Acknowledge, Sigsuspend, TakeResume
    <2>4. ASSUME NEW d \in Callers, CallerStep(d)
          PROVE  SuspendReturn(c)
      <3>1. SuspendReturn(d)
        BY <2>1, <2>4 DEF CallerStep, SuspendListed, SuspendKill, Continue, Enter
      <3>2. d = c
        BY <1>1, <2>1, <3>1 DEF SuspendReturn, HandshakeInv, Spinning
      <3> QED  BY <3>1, <3>2
    <2>5. CASE SuspendReturn(c)
      BY <1>1, <2>1, <2>5 DEF SuspendReturn, HandshakeInv, SuspendInv, HandshakeOwned, TypeOK
    <2> QED  BY <1>1, <2>2, <2>3, <2>4, <2>5 DEF SuspendNext
  <1> QED  BY <1>1, HandshakeAlways, PTL DEF SuspendSpec
=============================================================================
