-------------------------------- MODULE Pipe --------------------------------
(***************************************************************************)
(* The pipeline of pipe.c: stages 0..stages, each but the last with a      *)
(* thread, and main, which alone puts values in and takes results out.     *)
(*                                                                         *)
(* A stage's thread holds its stage's mutex except while it waits on       *)
(* avail, also while it sends to the next stage; everybody else holds a    *)
(* mutex only inside one action.  So whether stage i's mutex can be taken  *)
(* is known from where thread i is, and the mutexes need no variable.      *)
(*                                                                         *)
(* Left out is a failing wait in pipe_send (lines 78-82): it returns with  *)
(* the datum unsent and the next stage's mutex locked for ever; nothing    *)
(* is claimed after it.  A failing wait in pipe_stage or pipe_result has   *)
(* the effect of a wakeup that nobody sent.                                *)
(***************************************************************************)
EXTENDS Integers, Sequences

CONSTANTS
  stages,      \* pipe->stages
  Values,      \* values main reads
  QueueSize,   \* entries of queue[]
  MaxStarts    \* values main puts into the pipe

ASSUME PipeAssumption ==
  /\ stages \in Nat \ {0}
  /\ Values \subseteq Int
  /\ QueueSize \in Nat \ {0}
  /\ MaxStarts \in Nat

VARIABLES
  data_ready, data,   \* the fields of stage_t of the same name
  active,             \* pipe->active
  pc,                 \* where each stage's thread is
  main,               \* where main is
  value,              \* the value main is sending
  queue,              \* the entries of queue[] that are set
  wild,               \* TRUE once an entry was written at an undefined index
  started, results    \* values given to pipe_start, results printed

vars == <<data_ready, data, active, pc, main, value, queue, wild, started, results>>

All == 0..stages
Threads == 0..stages - 1

Init ==
  /\ data_ready = [i \in All |-> 0]
  /\ data = [i \in All |-> 0]
  /\ active = 0
  /\ pc = [i \in Threads |-> "start"]
  /\ main = "idle"
  /\ value = 0
  /\ queue = <<>>
  /\ wild = FALSE
  /\ started = <<>> /\ results = <<>>

\* The mutex of stage i is not held by its thread.
Unlocked(i) == i < stages => pc[i] \in {"start", "waiting", "woken"}

\* pthread_cond_signal on a condition variable only one thread waits on.
Woken(p) == IF p = "waiting" THEN "woken" ELSE p
WokenCollect(m) == IF m = "collectwait" THEN "collect" ELSE m
WokenSend(m) == IF m = "sendwait" THEN "send" ELSE m
WokenFull(p) == IF p = "full" THEN "send" ELSE p

-----------------------------------------------------------------------------
(* pipe_stage and, in it, pipe_send to the next stage.                     *)

\* The thread has its mutex, at the start or back from the wait on avail.
Stage(i) ==
  /\ pc[i] \in {"start", "woken"}
  /\ pc' = [pc EXCEPT ![i] = IF data_ready[i] # 1 THEN "waiting" ELSE "send"]
  /\ UNCHANGED <<data_ready, data, active, main, value, queue, wild, started, results>>

\* pipe_send finds the next stage occupied and waits on its ready.
StageFull(i) ==
  /\ pc[i] = "send"
  /\ Unlocked(i + 1)
  /\ data_ready[i + 1] # 0
  /\ pc' = [pc EXCEPT ![i] = "full"]
  /\ UNCHANGED <<data_ready, data, active, main, value, queue, wild, started, results>>

\* Faulty variant: an occupied stage is overwritten.
StageSendOver(i) ==
  /\ pc[i] = "send"
  /\ Unlocked(i + 1)
  /\ data' = [data EXCEPT ![i + 1] = data[i] + 1]
  /\ data_ready' = [data_ready EXCEPT ![i + 1] = 1, ![i] = 0]
  /\ pc' = [j \in Threads |-> CASE j = i -> "waiting"
                                [] j = i + 1 -> Woken(pc[j])
                                [] j = i - 1 -> WokenFull(pc[j])
                                [] OTHER -> pc[j]]
  /\ main' = IF i = 0 THEN WokenSend(WokenCollect(main)) ELSE WokenCollect(main)
  /\ UNCHANGED <<active, value, queue, wild, started, results>>

\* Faulty variant: the sender waiting for this stage is not signalled.
StageSendQuiet(i) ==
  /\ pc[i] = "send"
  /\ Unlocked(i + 1)
  /\ data_ready[i + 1] = 0
  /\ data' = [data EXCEPT ![i + 1] = data[i] + 1]
  /\ data_ready' = [data_ready EXCEPT ![i + 1] = 1, ![i] = 0]
  /\ pc' = [j \in Threads |-> CASE j = i -> "waiting"
                                [] j = i + 1 -> Woken(pc[j])
                                [] OTHER -> pc[j]]
  /\ main' = IF i + 1 = stages THEN WokenCollect(main) ELSE main
  /\ UNCHANGED <<active, value, queue, wild, started, results>>

\* pipe_send puts the datum into the next stage and signals its avail; then
\* the thread frees its own stage, signals its ready and waits on its avail.
\* One action: the second part is under the thread's own mutex, which it has
\* held all along, so nobody can tell when between the two it happens.
StageSend(i) ==
  /\ pc[i] = "send"
  /\ Unlocked(i + 1)
  /\ data_ready[i + 1] = 0
  /\ data' = [data EXCEPT ![i + 1] = data[i] + 1]
  /\ data_ready' = [data_ready EXCEPT ![i + 1] = 1, ![i] = 0]
  /\ pc' = [j \in Threads |-> CASE j = i -> "waiting"
                                [] j = i + 1 -> Woken(pc[j])
                                [] j = i - 1 -> WokenFull(pc[j])
                                [] OTHER -> pc[j]]
  /\ main' = IF i = 0 /\ main = "sendwait" THEN "send"
             ELSE IF i + 1 = stages THEN WokenCollect(main) ELSE main
  /\ UNCHANGED <<active, value, queue, wild, started, results>>

\* POSIX lets the waits return without a signal.
SpuriousStage(i) ==
  /\ pc[i] \in {"waiting", "full"}
  /\ pc' = [pc EXCEPT ![i] = IF @ = "waiting" THEN "woken" ELSE "send"]
  /\ UNCHANGED <<data_ready, data, active, main, value, queue, wild, started, results>>

SpuriousMain ==
  /\ main \in {"sendwait", "collectwait"}
  /\ main' = IF main = "sendwait" THEN "send" ELSE "collect"
  /\ UNCHANGED <<data_ready, data, active, pc, value, queue, wild, started, results>>

-----------------------------------------------------------------------------
(* pipe_start.                                                             *)

Start(v) ==
  /\ main = "idle"
  /\ Len(started) < MaxStarts
  /\ active' = active + 1
  /\ value' = v
  /\ main' = "send"
  /\ UNCHANGED <<data_ready, data, pc, queue, wild, started, results>>

\* Stage 0 is occupied: the value goes into the next free entry of queue[],
\* which nothing ever empties; when there is none the index is undefined.  An
\* entry that holds 0 counts as free.  Either way main waits on stage 0's ready.
StartFull ==
  /\ main = "send"
  /\ Unlocked(0)
  /\ data_ready[0] # 0
  /\ \/ /\ Len(queue) < QueueSize
        /\ queue' = IF value = 0 THEN queue ELSE Append(queue, value)
        /\ UNCHANGED wild
     \/ /\ Len(queue) = QueueSize
        /\ wild' = TRUE
        /\ UNCHANGED queue
  /\ main' = "sendwait"
  /\ UNCHANGED <<data_ready, data, active, pc, value, started, results>>

\* Faulty variant: the thread of stage 0 is not signalled.
StartSendQuiet ==
  /\ main = "send"
  /\ Unlocked(0)
  /\ data_ready[0] = 0
  /\ data' = [data EXCEPT ![0] = value]
  /\ data_ready' = [data_ready EXCEPT ![0] = 1]
  /\ started' = Append(started, value)
  /\ main' = "idle"
  /\ UNCHANGED <<active, pc, value, queue, wild, results>>

StartSend ==
  /\ main = "send"
  /\ Unlocked(0)
  /\ data_ready[0] = 0
  /\ data' = [data EXCEPT ![0] = value]
  /\ data_ready' = [data_ready EXCEPT ![0] = 1]
  /\ pc' = [pc EXCEPT ![0] = Woken(@)]
  /\ started' = Append(started, value)
  /\ main' = "idle"
  /\ UNCHANGED <<active, value, queue, wild, results>>

-----------------------------------------------------------------------------
(* pipe_result.                                                            *)

\* With nothing in the pipe it returns at once.
ResultEmpty ==
  /\ main = "idle"
  /\ active <= 0
  /\ UNCHANGED vars

ResultBegin ==
  /\ main = "idle"
  /\ active > 0
  /\ active' = active - 1
  /\ main' = "collect"
  /\ UNCHANGED <<data_ready, data, pc, value, queue, wild, started, results>>

ResultWait ==
  /\ main = "collect"
  /\ data_ready[stages] = 0
  /\ main' = "collectwait"
  /\ UNCHANGED <<data_ready, data, active, pc, value, queue, wild, started, results>>

ResultTake ==
  /\ main = "collect"
  /\ data_ready[stages] # 0
  /\ results' = Append(results, data[stages])
  /\ data_ready' = [data_ready EXCEPT ![stages] = 0]
  /\ pc' = [pc EXCEPT ![stages - 1] = WokenFull(@)]
  /\ main' = "idle"
  /\ UNCHANGED <<data, active, value, queue, wild, started>>

\* End of the input: the process exits.
Eof ==
  /\ main = "idle"
  /\ main' = "exit"
  /\ UNCHANGED <<data_ready, data, active, pc, value, queue, wild, started, results>>

-----------------------------------------------------------------------------
StageStep(i) == Stage(i) \/ StageFull(i) \/ StageSend(i)

MainStep == StartFull \/ StartSend \/ ResultWait \/ ResultTake

Input == ResultEmpty \/ ResultBegin \/ Eof \/ \E v \in Values : Start(v)

Next ==
  /\ main # "exit"
  /\ \/ \E i \in Threads : StageStep(i) \/ SpuriousStage(i)
     \/ MainStep \/ SpuriousMain \/ Input

Spec == Init /\ [][Next]_vars

\* Stage threads and main are scheduled and get the mutexes they can; what
\* main reads is up to its user.
FairSpec ==
  /\ Spec
  /\ \A i \in Threads : WF_vars(main # "exit" /\ StageStep(i))
  /\ WF_vars(MainStep)

-----------------------------------------------------------------------------
(* Properties.                                                             *)

\* Type invariant.
TypeOK ==
  /\ data_ready \in [All -> {0, 1}]
  /\ data \in [All -> Int]
  /\ active \in Nat
  /\ pc \in [Threads -> {"start", "waiting", "woken", "send", "full"}]
  /\ main \in {"idle", "send", "sendwait", "collect", "collectwait", "exit"}
  /\ value \in Values \cup {0}
  /\ queue \in Seq(Values \cup {0})
  /\ wild \in BOOLEAN
  /\ started \in Seq(Values \cup {0}) /\ results \in Seq(Int)

\* No lost wakeup on any of the condition variables: a stage with data has a
\* thread that is awake, and nobody sleeps before a stage that is free.
NoneAsleep ==
  /\ \A i \in Threads : data_ready[i] = 1 => pc[i] # "waiting"
  /\ \A i \in Threads : data_ready[i + 1] = 0 => pc[i] # "full"
  /\ data_ready[0] = 0 => main # "sendwait"
  /\ data_ready[stages] = 1 => main # "collectwait"

\* A thread that sends has the datum it sends in its stage.
SenderHasData == \A i \in Threads : pc[i] \in {"send", "full"} => data_ready[i] = 1

\* The state of the pipeline at any moment, with all its wakeups under way.
PipeInv == TypeOK /\ NoneAsleep /\ SenderHasData

\* pipe->active is what is in the pipe, with the value being put in and
\* without the one being taken out.
ActiveCounts ==
  active = Len(started) - Len(results)
           + (CASE main \in {"send", "sendwait"} -> 1
                [] main \in {"collect", "collectwait"} -> -1
                [] OTHER -> 0)

\* The pipeline with all its wakeups under way, and a positive pipe->active always
\* standing for a result that is coming.
PipeSound == PipeInv /\ ActiveCounts

\* pipe_result always returns: when pipe->active is positive a result comes.
ResultReturns == main \in {"collect", "collectwait"} ~> main = "idle"

\* pipe_start hangs in one case only: every stage is filled, so that main, which
\* waits for stage 0, is the only thread that could take a result out.
StartReturnsUnlessFull ==
  main \in {"send", "sendwait"} ~> main = "idle" \/ \A i \in All : data_ready[i] = 1

\* Main's calls return: pipe_result always, pipe_start unless every stage is full.
CallsReturn == ResultReturns /\ StartReturnsUnlessFull
=============================================================================
