------------------------------- MODULE Suspend -------------------------------
(***************************************************************************)
(* The suspend package of susp.c: thd_suspend and thd_continue, called by  *)
(* any thread in any order, and the two signal handlers that run in the    *)
(* threads they act on.                                                    *)
(*                                                                         *)
(* thd_suspend holds mut from its first look at the array until the target *)
(* has acknowledged the signal through sentinel; the handler of SIGUSR1    *)
(* takes no mutex, so each access it makes is a step of its own.  A signal *)
(* is pending at most once per thread.                                     *)
(***************************************************************************)
EXTENDS Naturals, Sequences, FiniteSetsExt

CONSTANTS
  Callers,    \* threads that call thd_suspend and thd_continue
  Targets,    \* threads they suspend
  Mortal,     \* the targets that may return from their start routine
  bottom,     \* the array's first size
  MaxCalls,   \* calls made altogether
  NULL        \* null_pthread

ASSUME SuspendAssumption ==
  /\ Mortal \subseteq Targets
  /\ bottom \in Nat \ {0}
  /\ MaxCalls \in Nat
  /\ NULL \notin Targets \cup Callers

VARIABLES
  array,      \* the suspended threads
  mut,        \* the holder of mut, NULL when free
  sentinel,   \* the flag the handler sets
  overrun,    \* TRUE once the entry behind the array has been written
  mode,       \* what a target does
  usr1, usr2, \* the signal pends for the target
  target,     \* whom a caller is suspending, NULL outside thd_suspend
  slot,       \* the local i of that call
  calls       \* calls made so far

suspendVars == <<array, mut, sentinel, overrun, mode, usr1, usr2, target, slot, calls>>

\* suspend_init_routine, run once before the first call.
SuspendInit ==
  /\ array = [i \in 1..bottom |-> NULL]
  /\ mut = NULL
  /\ sentinel = 0
  /\ overrun = FALSE
  /\ mode = [t \in Targets |-> "running"]
  /\ usr1 = [t \in Targets |-> FALSE]
  /\ usr2 = [t \in Targets |-> FALSE]
  /\ target = [c \in Callers |-> NULL]
  /\ slot = [c \in Callers |-> 0]
  /\ calls = 0

\* The first index of the array whose entry is t, one past the end when there is
\* none: the loops of thd_suspend.
FirstIndex(t) == Min({i \in 1..Len(array) : array[i] = t} \cup {Len(array) + 1})

Enter(c) == mut = NULL /\ target[c] = NULL /\ calls < MaxCalls /\ calls' = calls + 1

-----------------------------------------------------------------------------
(* thd_suspend.                                                            *)

\* A thread listed in the array is left alone.
SuspendListed(c, t) ==
  /\ Enter(c)
  /\ \E i \in 1..Len(array) : array[i] = t
  /\ UNCHANGED <<array, mut, sentinel, overrun, mode, usr1, usr2, target, slot>>

\* The place for the new entry.  When the array is full it grows by one; what
\* realloc leaves in the new entry is undefined, and the store meant to clear
\* it goes to the entry behind it.
Place(i) ==
  \/ /\ i <= Len(array)
     /\ UNCHANGED <<array, overrun>>
  \/ /\ i = Len(array) + 1
     /\ \E junk \in Targets \cup {NULL} : array' = Append(array, junk)
     /\ overrun' = TRUE

\* Faulty variant: mut is released before the target has acknowledged.
SuspendKillUnlocked(c, t) ==
  /\ Enter(c)
  /\ \A i \in 1..Len(array) : array[i] # t
  /\ sentinel' = 0
  /\ LET i == FirstIndex(NULL) IN
       /\ Place(i)
       /\ \/ /\ mode[t] # "gone"
             /\ usr1' = [usr1 EXCEPT ![t] = TRUE]
             /\ target' = [target EXCEPT ![c] = t]
             /\ slot' = [slot EXCEPT ![c] = i]
          \/ /\ mode[t] = "gone"
             /\ UNCHANGED <<usr1, target, slot>>
  /\ UNCHANGED <<mut, mode, usr2>>

\* The sentinel is cleared and SIGUSR1 sent; pthread_kill fails for a thread
\* that is gone.
SuspendKill(c, t) ==
  /\ Enter(c)
  /\ \A i \in 1..Len(array) : array[i] # t
  /\ sentinel' = 0
  /\ LET i == FirstIndex(NULL) IN
       /\ Place(i)
       /\ \/ /\ mode[t] # "gone"
             /\ usr1' = [usr1 EXCEPT ![t] = TRUE]
             /\ mut' = c
             /\ target' = [target EXCEPT ![c] = t]
             /\ slot' = [slot EXCEPT ![c] = i]
          \/ /\ mode[t] = "gone"
             /\ UNCHANGED <<usr1, mut, target, slot>>
  /\ UNCHANGED <<mode, usr2>>

\* The end of the spin on the sentinel: the target is listed.
SuspendReturn(c) ==
  /\ target[c] # NULL
  /\ sentinel = 1
  /\ array' = [array EXCEPT ![slot[c]] = target[c]]
  /\ mut' = NULL
  /\ target' = [target EXCEPT ![c] = NULL]
  /\ slot' = [slot EXCEPT ![c] = 0]
  /\ UNCHANGED <<sentinel, overrun, mode, usr1, usr2, calls>>

-----------------------------------------------------------------------------
(* thd_continue.                                                           *)

\* The loop that looks for the target goes on while the entry is the target
\* and so stops at the first entry that is not.
ContinueIndex(t) == Min({i \in 1..Len(array) : array[i] # t} \cup {Len(array) + 1})

Continue(c, t) ==
  /\ Enter(c)
  /\ LET i == ContinueIndex(t) IN
       IF i > Len(array) \/ mode[t] = "gone"
         THEN UNCHANGED <<array, usr2>>
         ELSE /\ usr2' = [usr2 EXCEPT ![t] = TRUE]
              /\ array' = [array EXCEPT ![i] = NULL]
  /\ UNCHANGED <<mut, sentinel, overrun, mode, usr1, target, slot>>

-----------------------------------------------------------------------------
(* The handlers, in the target.                                            *)

\* SIGUSR1 is delivered: suspend_signal_handler starts, both signals blocked.
TakeSuspend(t) ==
  /\ mode[t] = "running"
  /\ usr1[t]
  /\ usr1' = [usr1 EXCEPT ![t] = FALSE]
  /\ mode' = [mode EXCEPT ![t] = "handler"]
  /\ UNCHANGED <<array, mut, sentinel, overrun, usr2, target, slot, calls>>

\* Faulty variant: the handler waits before it acknowledges.
AcknowledgeLate(t) ==
  /\ mode[t] = "handler"
  /\ mode' = [mode EXCEPT ![t] = "entering"]
  /\ UNCHANGED <<array, mut, sentinel, overrun, usr1, usr2, target, slot, calls>>

Acknowledge(t) ==
  /\ mode[t] = "handler"
  /\ sentinel' = 1
  /\ mode' = [mode EXCEPT ![t] = "entering"]
  /\ UNCHANGED <<array, mut, overrun, usr1, usr2, target, slot, calls>>

\* sigsuspend opens SIGUSR2 and waits in one step.
Sigsuspend(t) ==
  /\ mode[t] = "entering"
  /\ mode' = [mode EXCEPT ![t] = "suspended"]
  /\ UNCHANGED <<array, mut, sentinel, overrun, usr1, usr2, target, slot, calls>>

\* Faulty variant: sa_mask does not block SIGUSR2 while suspend_signal_handler
\* runs.
TakeResumeUnmasked(t) ==
  /\ mode[t] \in {"running", "handler", "entering", "suspended"}
  /\ usr2[t]
  /\ usr2' = [usr2 EXCEPT ![t] = FALSE]
  /\ mode' = [mode EXCEPT ![t] = IF @ = "suspended" THEN "running" ELSE @]
  /\ UNCHANGED <<array, mut, sentinel, overrun, usr1, target, slot, calls>>

\* SIGUSR2 is delivered: it ends sigsuspend, and does nothing otherwise.
TakeResume(t) ==
  /\ mode[t] \in {"running", "suspended"}
  /\ usr2[t]
  /\ usr2' = [usr2 EXCEPT ![t] = FALSE]
  /\ mode' = [mode EXCEPT ![t] = "running"]
  /\ UNCHANGED <<array, mut, sentinel, overrun, usr1, target, slot, calls>>

\* The target returns from its start routine.
Exit(t) ==
  /\ t \in Mortal
  /\ mode[t] = "running"
  /\ mode' = [mode EXCEPT ![t] = "gone"]
  /\ UNCHANGED <<array, mut, sentinel, overrun, usr1, usr2, target, slot, calls>>

-----------------------------------------------------------------------------
CallerStep(c) ==
  \/ \E t \in Targets : SuspendListed(c, t) \/ SuspendKill(c, t) \/ Continue(c, t)
  \/ SuspendReturn(c)

Handler(t) == TakeSuspend(t) \/ Acknowledge(t) \/ Sigsuspend(t) \/ TakeResume(t)

SuspendNext ==
  \/ \E c \in Callers : CallerStep(c)
  \/ \E t \in Targets : Handler(t) \/ Exit(t)

SuspendSpec == SuspendInit /\ [][SuspendNext]_suspendVars

\* Pending signals are delivered and handlers run, and a caller that spins is
\* scheduled; nothing makes a thread call.
FairSpec ==
  /\ SuspendSpec
  /\ \A t \in Targets : WF_suspendVars(Handler(t))
  /\ \A c \in Callers : WF_suspendVars(SuspendReturn(c))

-----------------------------------------------------------------------------
(* Properties.                                                             *)

\* Type invariant.
TypeOK ==
  /\ array \in Seq(Targets \cup {NULL})
  /\ mut \in Callers \cup {NULL}
  /\ sentinel \in {0, 1}
  /\ overrun \in BOOLEAN
  /\ mode \in [Targets -> {"running", "handler", "entering", "suspended", "gone"}]
  /\ usr1 \in [Targets -> BOOLEAN] /\ usr2 \in [Targets -> BOOLEAN]
  /\ target \in [Callers -> Targets \cup {NULL}]
  /\ slot \in [Callers -> 0..Len(array)]
  /\ calls \in 0..MaxCalls

\* A SIGUSR1 that is pending or being handled, but not acknowledged, belongs
\* to the one thd_suspend that holds mut and still spins: when thd_suspend
\* returns its target has stopped, and no acknowledgement goes astray.
HandshakeOwned ==
  \A t \in Targets :
    usr1[t] \/ mode[t] = "handler" =>
      \E c \in Callers : target[c] = t /\ mut = c /\ sentinel = 0

\* The state of the package at any moment, also while the array grows.
SuspendInv == TypeOK /\ HandshakeOwned

\* SIGUSR2 is never lost: a thread for which it was sent runs again, even when
\* it was sent before the thread had reached sigsuspend, unless it has ended.
ContinueResumes == \A t \in Targets : usr2[t] ~> mode[t] \in {"running", "gone"}

\* The spin of thd_suspend, which keeps mut from everybody, ends if its target
\* was running, or on its way to it, when it was signalled, and does not end its
\* start routine first.  A target that is suspended, and of which the array no
\* longer says so, is the other way to spin for ever.
SuspendReturns ==
  \A c \in Callers, t \in Targets :
    target[c] = t /\ (mode[t] \in {"running", "handler"} \/ usr2[t]) ~> target[c] = NULL \/ mode[t] = "gone"

\* What the comment in thd_continue says: the thread that is signalled to
\* continue is removed from the array.
ContinueRemoves ==
  [][\A t \in Targets :
       ~usr2[t] /\ usr2'[t] => \A i \in 1..Len(array) : array'[i] # t]_suspendVars
=============================================================================
