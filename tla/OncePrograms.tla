---------------------------- MODULE OncePrograms ----------------------------
(***************************************************************************)
(* once.c (main and a thread initialise a mutex once) and tsd_once.c (two  *)
(* threads create a key once and keep a value each under it).              *)
(*                                                                         *)
(* g.once is the pthread_once_t: the first caller runs the routine, the    *)
(* others wait until it has returned.                                      *)
(***************************************************************************)
EXTENDS Pthreads

\* pthread_once called by t finds that the routine has to be run.
OnceFirst(t, l, m) == g.once = "never" /\ Local(t, l, m) /\ g' = [g EXCEPT !.once = "running"]

\* Faulty variant: a caller goes on while another one still runs the routine.
OnceNotAwaited(t, l, m) == g.once # "never" /\ Local(t, l, m) /\ UNCHANGED g

\* It finds that the routine has been run.
OncePassed(t, l, m) == g.once = "done" /\ Local(t, l, m) /\ UNCHANGED g

-----------------------------------------------------------------------------
(* once.c.  Main does not lock the mutex that it unlocks.                  *)

OnceThread == 1

OnceInit == Start("once", [once |-> "never", inits |-> 0])

\* once_init_routine, run by t.
once_init_routine(t, m) ==
  /\ At(t, "routine")
  /\ Goto(t, m)
  /\ mutex' = None /\ UNCHANGED <<waiters, pending>>
  /\ g' = [g EXCEPT !.once = "done", !.inits = @ + 1]

OnceStep(t) ==
  /\ Running("once") /\ UNCHANGED program
  /\ \/ t = Main /\ Create(Main, OnceThread, "start", "once") /\ NoSync /\ UNCHANGED g
     \/ t = Main /\ (OnceFirst(t, "once", "routine") \/ OncePassed(t, "once", "unlock"))
     \/ t = Main /\ once_init_routine(t, "unlock")
     \/ t = Main /\ Unlock(t, "unlock", "join") /\ UNCHANGED g
     \/ t = Main /\ Join(t, OnceThread, "join", "exit") /\ UNCHANGED g
     \/ t = OnceThread /\ (OnceFirst(t, "begin", "routine") \/ OncePassed(t, "begin", "lock"))
     \/ t = OnceThread /\ once_init_routine(t, "lock")
     \/ t = OnceThread /\ Lock(t, "lock", "locked") /\ UNCHANGED g
     \/ t = OnceThread /\ Unlock(t, "locked", "done") /\ UNCHANGED g

\* Whichever thread comes first, the mutex is initialised once, and before
\* anyone locks or unlocks it: an initialisation never frees it under a holder.
InitialisedOnce ==
  program = "once" =>
    /\ g.inits <= 1
    /\ \A t \in {Main, OnceThread} :
         pc[t] \in {"lock", "locked", "unlock", "join", "done", "exit"} => g.inits = 1

-----------------------------------------------------------------------------
(* tsd_once.c.  g.value[t] is the value of the key in thread t: the block  *)
(* malloc gave it, written with t's own string; g.said[t] are the strings  *)
(* it printed.                                                             *)

TsdThreads == {1, 2}

TsdInit ==
  Start("tsd", [once |-> "never", keys |-> 0, value |-> [t \in TsdThreads |-> None],
                said |-> [t \in TsdThreads |-> <<>>]])

once_routie(t) ==
  /\ Local(t, "routine", "set")
  /\ g' = [g EXCEPT !.once = "done", !.keys = @ + 1]

\* Main creates both threads and leaves; they outlive it.
TsdMain ==
  /\ At(Main, "start")
  /\ pc' = [pc EXCEPT ![Main] = "done", ![1] = "begin", ![2] = "begin"]
  /\ NoSync /\ UNCHANGED g

\* What the thread says is what the key holds for it.
Say(t, l, m) == Local(t, l, m) /\ g' = [g EXCEPT !.said[t] = Append(@, g.value[t])]

TsdStep(t) ==
  /\ Running("tsd") /\ UNCHANGED program
  /\ \/ t = Main /\ TsdMain
     \/ /\ t \in TsdThreads
        /\ \/ OnceFirst(t, "begin", "routine") \/ OncePassed(t, "begin", "set")
           \/ once_routie(t)
           \/ Local(t, "set", "starting") /\ g' = [g EXCEPT !.value[t] = t]
           \/ Say(t, "starting", "sleep") \/ Say(t, "sleep", "done")

\* The key is created once and before a thread stores under it, and each thread
\* reads back its own string before and after the other one has stored.
OwnValue ==
  program = "tsd" =>
    /\ g.keys <= 1
    /\ \A t \in TsdThreads :
         /\ pc[t] \in {"set", "starting", "sleep", "done"} => g.keys = 1
         /\ pc[t] = "done" => g.said[t] = <<t, t>>

\* One-time initialisation in both programs.
OnceInv == InitialisedOnce /\ OwnValue

\* Nobody waits for ever for the routine of another thread.
OnceEnds ==
  /\ program = "once" ~> At(Main, "exit")
  /\ program = "tsd" ~> \A t \in TsdThreads : Ended(t)
=============================================================================
