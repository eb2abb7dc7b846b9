------------------------------ MODULE WorkQueue ------------------------------
(***************************************************************************)
(* The work queue of workq.c / workq.h together with the program that     *)
(* drives it (thread_routine, engine_routine, destructor and main of       *)
(* workq.c).                                                               *)
(*                                                                         *)
(* All the fields of workq_t are read and written with wq->mutex held, so  *)
(* a stretch of code between acquiring that mutex and giving it up (by     *)
(* unlock or by waiting on wq->cv) is one action.  What the code does      *)
(* without the mutex (the test of wq->valid, the engine, the destructor of *)
(* the thread-specific data, main's walk over the engine list) is an       *)
(* action of its own.                                                      *)
(***************************************************************************)
EXTENDS Naturals, Sequences, FiniteSets

CONSTANTS
  Servers,          \* thread identities the system can give to workq_server
  Callers,          \* threads running thread_routine, main included
  Main,             \* the initial thread
  ITERATIONS,       \* requests each caller makes
  parallelism,      \* wq->parallelism, the most servers at one time
  MaxWaitFailures,  \* how often a wait may return an error
  NULL

Items == Callers \X (1..ITERATIONS)

ASSUME ConstantsAssumption ==
  /\ Main \in Callers
  /\ Servers \cap Callers = {}
  /\ IsFiniteSet(Servers)
  /\ ITERATIONS \in Nat \ {0}
  /\ parallelism \in Nat \ {0}
  /\ MaxWaitFailures \in Nat
  /\ NULL \notin Items

VARIABLES
  valid, quit, counter, idle,   \* the fields of workq_t of the same name
  queue,        \* the chain of workq_ele_t that starts at wq->first
  last,         \* wq->last
  pc,           \* where each thread is
  we,           \* the element a server holds, NULL when none
  timedout,     \* workq_server's local of that name
  tsd,          \* calls field of the engine_t under engine_key, 0 when unset
  engine_list,  \* calls fields of the engine_t on engine_list_head, in order
  count,        \* requests a caller has put on the queue
  done,         \* elements the engine has processed, in that order
  walk, calls,  \* main's walk over the engine list and the sum it builds
  failures,     \* failed waits so far
  process       \* what has become of the process

workq == <<valid, quit, counter, idle, queue, last>>
engines == <<tsd, engine_list>>
summary == <<walk, calls>>
vars == <<workq, pc, we, timedout, engines, count, done, summary, failures, process>>

Threads == Servers \cup Callers

\* A server counted in wq->counter, and one counted in wq->idle.
IdlePC == {"waiting", "woken", "timedout"}
LivePC == IdlePC \cup {"starting", "engine", "relock"}
LiveServers == {s \in Servers : pc[s] \in LivePC}
IdleServers == {s \in Servers : pc[s] \in IdlePC}

Running == process = "running"

Init ==
  /\ valid = TRUE /\ quit = FALSE
  /\ counter = 0 /\ idle = 0
  /\ queue = <<>> /\ last = NULL
  /\ pc = [t \in Threads |-> IF t \in Servers THEN "unborn" ELSE "check"]
  /\ we = [s \in Servers |-> NULL]
  /\ timedout = [s \in Servers |-> FALSE]
  /\ tsd = [s \in Servers |-> 0]
  /\ engine_list = <<>>
  /\ count = [c \in Callers |-> 0]
  /\ done = <<>>
  /\ walk = <<>> /\ calls = 0
  /\ failures = 0
  /\ process = "running"

-----------------------------------------------------------------------------
(* The condition variable wq->cv.                                          *)

Waiters(p) == {t \in Threads : p[t] = "waiting"}

\* pthread_cond_broadcast: every waiter becomes runnable.
Broadcast(p) == [t \in Threads |-> IF p[t] = "waiting" THEN "woken" ELSE p[t]]

\* pthread_cond_signal: one waiter, when there is one, becomes runnable.
Signal(p) ==
  IF Waiters(p) = {} THEN {p} ELSE {[p EXCEPT ![w] = "woken"] : w \in Waiters(p)}

\* POSIX lets a wait return without a signal.
SpuriousWakeup(t) ==
  /\ Running
  /\ pc[t] = "waiting"
  /\ pc' = [pc EXCEPT ![t] = "woken"]
  /\ UNCHANGED <<workq, we, timedout, engines, count, done, summary, failures, process>>

\* The two seconds of a server's pthread_cond_timedwait pass.
Timeout(s) ==
  /\ Running
  /\ pc[s] = "waiting"
  /\ pc' = [pc EXCEPT ![s] = "timedout"]
  /\ UNCHANGED <<workq, we, timedout, engines, count, done, summary, failures, process>>

-----------------------------------------------------------------------------
(* workq_add, called by thread_routine.                                    *)

\* The test of wq->valid is made before the mutex is locked.
AddCheck(c) ==
  /\ Running
  /\ pc[c] = "check"
  /\ IF count[c] = ITERATIONS
       THEN pc' = [pc EXCEPT ![c] = "returned"] /\ UNCHANGED process
       ELSE IF valid
              THEN pc' = [pc EXCEPT ![c] = "enqueue"] /\ UNCHANGED process
              ELSE process' = "abort" /\ UNCHANGED pc   \* EINVAL: err_abort
  /\ UNCHANGED <<workq, we, timedout, engines, count, done, summary, failures>>

\* Wake an idle server or, when none is counted, start one.  When the system
\* has no thread left pthread_create fails and thread_routine aborts.
WakeOrCreate(c, p) ==
  \/ /\ idle > 0
     /\ pc' \in Signal(p)
     /\ UNCHANGED <<counter, process>>
  \/ /\ idle = 0 /\ counter < parallelism
     /\ \E s \in Servers :
          /\ pc[s] = "unborn"
          /\ pc' = [p EXCEPT ![s] = "starting"]
     /\ counter' = counter + 1
     /\ UNCHANGED process
  \/ /\ idle = 0 /\ counter < parallelism
     /\ \A s \in Servers : pc[s] # "unborn"
     /\ process' = "abort"
     /\ UNCHANGED <<pc, counter>>
  \/ /\ idle = 0 /\ counter >= parallelism
     /\ pc' = p
     /\ UNCHANGED <<counter, process>>

\* The new element goes behind wq->last, which the code dereferences.
AddLocked(c) ==
  LET item == <<c, count[c] + 1>> IN
  /\ Running
  /\ pc[c] = "enqueue"
  /\ queue = <<>> \/ last # NULL
  /\ queue' = Append(queue, item)
  /\ last' = item
  /\ count' = [count EXCEPT ![c] = @ + 1]
  /\ WakeOrCreate(c, [pc EXCEPT ![c] = "check"])
  /\ UNCHANGED <<valid, quit, idle, we, timedout, engines, done, summary, failures>>

\* wq->last->next with wq->last NULL: the process dies.
AddThroughNull(c) ==
  /\ Running
  /\ pc[c] = "enqueue"
  /\ queue # <<>> /\ last = NULL
  /\ process' = "segv"
  /\ UNCHANGED <<workq, pc, we, timedout, engines, count, done, summary, failures>>

-----------------------------------------------------------------------------
(* workq_server.                                                           *)

\* Nothing to do: count the server idle and wait on wq->cv.
ServerWait(s, i) ==
  /\ queue = <<>> /\ ~quit
  /\ idle' = i + 1
  /\ pc' = [pc EXCEPT ![s] = "waiting"]
  /\ timedout' = [timedout EXCEPT ![s] = FALSE]
  /\ UNCHANGED <<counter, queue, last, we>>

\* Take the first element.  The test of wq->last is an assignment
\* (wq->last = we), so wq->last becomes NULL whatever the queue still holds.
LastAfterTake == NULL

\* Faulty variant: wq->first is not moved on.
ServerTakeNoAdvance(s, i, late) ==
  /\ queue # <<>>
  /\ we' = [we EXCEPT ![s] = Head(queue)]
  /\ idle' = i
  /\ timedout' = [timedout EXCEPT ![s] = late]
  /\ pc' = [pc EXCEPT ![s] = "engine"]
  /\ UNCHANGED <<counter, queue, last>>

ServerTake(s, i, late) ==
  /\ queue # <<>>
  /\ we' = [we EXCEPT ![s] = Head(queue)]
  /\ queue' = Tail(queue)
  /\ last' = LastAfterTake
  /\ idle' = i
  /\ timedout' = [timedout EXCEPT ![s] = late]
  /\ pc' = [pc EXCEPT ![s] = "engine"]
  /\ UNCHANGED counter

\* Faulty variant: the last server leaves without waking workq_destroy.
ServerQuitSilently(s, i, late) ==
  /\ queue = <<>>
  /\ quit \/ late
  /\ counter' = counter - 1
  /\ idle' = i
  /\ pc' = [pc EXCEPT ![s] = "exiting"]
  /\ UNCHANGED <<queue, last, we, timedout>>

\* Leave: the last server to go while the queue is being run down wakes
\* workq_destroy.
ServerQuit(s, i, late) ==
  /\ queue = <<>>
  /\ quit \/ late
  /\ counter' = counter - 1
  /\ idle' = i
  /\ LET p == [pc EXCEPT ![s] = "exiting"] IN
       pc' = IF quit /\ counter = 1 THEN Broadcast(p) ELSE p
  /\ UNCHANGED <<queue, last, we, timedout>>

\* The body of the loop from its top; i is wq->idle after the wait, if the
\* server comes from one, and late says that the wait timed out.
ServerLoop(s, i, late) ==
  \/ ~late /\ ServerWait(s, i)
  \/ ServerTake(s, i, late)
  \/ ServerQuit(s, i, late)

ServerUnchanged == UNCHANGED <<valid, quit, engines, count, done, summary, failures, process>>

ServerStart(s) ==
  Running /\ pc[s] = "starting" /\ ServerLoop(s, idle, FALSE) /\ ServerUnchanged

ServerWake(s) ==
  Running /\ pc[s] = "woken" /\ ServerLoop(s, idle - 1, FALSE) /\ ServerUnchanged

\* Faulty variant: a server whose wait timed out leaves without another look
\* at the queue.
ServerTimedOutBlindly(s) ==
  /\ Running /\ pc[s] = "timedout"
  /\ idle' = idle - 1 /\ counter' = counter - 1
  /\ pc' = [pc EXCEPT ![s] = "exiting"]
  /\ UNCHANGED <<queue, last, we, timedout>>
  /\ ServerUnchanged

ServerTimedOut(s) ==
  Running /\ pc[s] = "timedout" /\ ServerLoop(s, idle - 1, TRUE) /\ ServerUnchanged

\* Faulty variant: the server that leaves after a failed wait is still counted.
ServerWaitFailedStillCounted(s) ==
  /\ Running
  /\ pc[s] = "waiting"
  /\ failures < MaxWaitFailures
  /\ failures' = failures + 1
  /\ idle' = idle - 1
  /\ pc' = [pc EXCEPT ![s] = "exiting"]
  /\ UNCHANGED <<valid, quit, counter, queue, last, we, timedout, engines, count, done,
                 summary, process>>

\* The wait fails: the server is gone without a look at the queue and
\* without waking workq_destroy.
ServerWaitFailed(s) ==
  /\ Running
  /\ pc[s] = "waiting"
  /\ failures < MaxWaitFailures
  /\ failures' = failures + 1
  /\ idle' = idle - 1
  /\ counter' = counter - 1
  /\ pc' = [pc EXCEPT ![s] = "exiting"]
  /\ UNCHANGED <<valid, quit, queue, last, we, timedout, engines, count, done, summary, process>>

\* engine_routine, run without the mutex on the element taken.
Engine(s) ==
  /\ Running
  /\ pc[s] = "engine"
  /\ tsd' = [tsd EXCEPT ![s] = @ + 1]
  /\ done' = Append(done, we[s])
  /\ we' = [we EXCEPT ![s] = NULL]
  /\ pc' = [pc EXCEPT ![s] = "relock"]
  /\ UNCHANGED <<workq, timedout, engine_list, count, summary, failures, process>>

\* Back from the engine: leave, or go round the loop with timedout cleared.
ServerRelock(s) ==
  /\ Running
  /\ pc[s] = "relock"
  /\ \/ ServerQuit(s, idle, timedout[s])
     \/ /\ ~(queue = <<>> /\ (quit \/ timedout[s]))
        /\ ServerLoop(s, idle, FALSE)
  /\ ServerUnchanged

\* The thread has returned from workq_server; the destructor of engine_key
\* puts its engine_t, if it has one, on the list.
Destructor(s) ==
  /\ Running
  /\ pc[s] = "exiting"
  /\ engine_list' = IF tsd[s] = 0 THEN engine_list ELSE <<tsd[s]>> \o engine_list
  /\ tsd' = [tsd EXCEPT ![s] = 0]
  /\ pc' = [pc EXCEPT ![s] = "unborn"]
  /\ UNCHANGED <<workq, we, timedout, count, done, summary, failures, process>>

-----------------------------------------------------------------------------
(* main, after its own requests: join, workq_destroy, the summary.         *)

Join ==
  /\ Running
  /\ \A c \in Callers : pc[c] = "returned"
  /\ pc' = [pc EXCEPT ![Main] = "destroy"]
  /\ UNCHANGED <<workq, we, timedout, engines, count, done, summary, failures, process>>

DestroyBegin ==
  /\ Running
  /\ pc[Main] = "destroy"
  /\ valid' = FALSE
  /\ IF counter > 0
       THEN /\ quit' = TRUE
            /\ LET p == IF idle > 0 THEN Broadcast(pc) ELSE pc IN
                 pc' = [p EXCEPT ![Main] = "waiting"]
       ELSE /\ UNCHANGED quit
            /\ pc' = [pc EXCEPT ![Main] = "destroyed"]
  /\ UNCHANGED <<counter, idle, queue, last, we, timedout, engines, count, done,
                 summary, failures, process>>

DestroyWake ==
  /\ Running
  /\ pc[Main] = "woken"
  /\ pc' = [pc EXCEPT ![Main] = IF counter > 0 THEN "waiting" ELSE "destroyed"]
  /\ UNCHANGED <<workq, we, timedout, engines, count, done, summary, failures, process>>

\* The wait of workq_destroy fails: it unlocks and returns, and main aborts.
DestroyWaitFailed ==
  /\ Running
  /\ pc[Main] = "waiting"
  /\ failures < MaxWaitFailures
  /\ failures' = failures + 1
  /\ process' = "abort"
  /\ UNCHANGED <<workq, pc, we, timedout, engines, count, done, summary>>

\* main follows engine_list_head without engine_list_mutex.
WalkBegin ==
  /\ Running
  /\ pc[Main] = "destroyed"
  /\ walk' = engine_list
  /\ pc' = [pc EXCEPT ![Main] = "walking"]
  /\ UNCHANGED <<workq, we, timedout, engines, count, done, calls, failures, process>>

WalkNext ==
  /\ Running
  /\ pc[Main] = "walking"
  /\ walk # <<>>
  /\ calls' = calls + Head(walk)
  /\ walk' = Tail(walk)
  /\ UNCHANGED <<workq, pc, we, timedout, engines, count, done, failures, process>>

\* main returns, and with it every thread still alive is gone.
Exit ==
  /\ Running
  /\ pc[Main] = "walking"
  /\ walk = <<>>
  /\ process' = "exit"
  /\ UNCHANGED <<workq, pc, we, timedout, engines, count, done, summary, failures>>

-----------------------------------------------------------------------------
CallerStep(c) == AddCheck(c) \/ AddLocked(c) \/ AddThroughNull(c)

ServerStep(s) ==
  \/ ServerStart(s) \/ ServerWake(s) \/ ServerTimedOut(s)
  \/ Engine(s) \/ ServerRelock(s) \/ Destructor(s)

MainStep ==
  Join \/ DestroyBegin \/ DestroyWake \/ WalkBegin \/ WalkNext \/ Exit

Next ==
  \/ \E c \in Callers : CallerStep(c)
  \/ \E s \in Servers : ServerStep(s) \/ Timeout(s) \/ ServerWaitFailed(s)
  \/ \E t \in Threads : SpuriousWakeup(t)
  \/ MainStep \/ DestroyWaitFailed

\* Every thread that can run is scheduled in the end and gets the mutex it
\* asks for, and the clock moves on; nothing forces a spurious wakeup.
Fairness ==
  /\ \A c \in Callers : WF_vars(CallerStep(c))
  /\ \A s \in Servers : WF_vars(ServerStep(s)) /\ WF_vars(Timeout(s))
  /\ WF_vars(MainStep)

Spec == Init /\ [][Next]_vars
FairSpec == Spec /\ Fairness

-----------------------------------------------------------------------------
(* Properties.                                                             *)

PCs == {"unborn", "starting", "waiting", "woken", "timedout", "engine", "relock",
        "exiting", "check", "enqueue", "returned", "destroy", "destroyed", "walking"}

\* Type invariant: the values the fields of workq_t and the threads' locals
\* can take.
TypeOK ==
  /\ valid \in BOOLEAN /\ quit \in BOOLEAN
  /\ counter \in Nat /\ idle \in Nat
  /\ queue \in Seq(Items) /\ last \in Items \cup {NULL}
  /\ pc \in [Threads -> PCs]
  /\ we \in [Servers -> Items \cup {NULL}]
  /\ timedout \in [Servers -> BOOLEAN]
  /\ tsd \in [Servers -> Nat]
  /\ engine_list \in Seq(Nat)
  /\ count \in [Callers -> 0..ITERATIONS]
  /\ done \in Seq(Items)
  /\ walk \in Seq(Nat) /\ calls \in Nat
  /\ failures \in Nat
  /\ process \in {"running", "segv", "abort", "exit"}

\* wq->counter and wq->idle, kept by hand on eight different paths of
\* workq_server and workq_add, are the numbers of servers alive and of
\* servers inside the timed wait, and never more servers live than allowed.
CountsMatch ==
  /\ counter = Cardinality(LiveServers)
  /\ idle = Cardinality(IdleServers)
  /\ counter <= parallelism

\* The state of the queue at any moment: well typed (wq->counter and wq->idle,
\* decremented without a test, are natural numbers) and with exact counts.
QueueInv == TypeOK /\ CountsMatch

\* No lost wakeup: while there is work on the queue some server is on its
\* way to it, neither asleep in pthread_cond_timedwait nor gone, as long as no
\* wait has failed.
NoStrandedWork ==
  Running /\ failures = 0 /\ queue # <<>> => \E s \in Servers : pc[s] \in LivePC \ {"waiting"}

ItemsIn(seq) == {seq[i] : i \in 1..Len(seq)}
Holders == {s \in Servers : we[s] # NULL}
Added == {i \in Items : i[2] <= count[i[1]]}

\* Every request workq_add has accepted is in exactly one place: on the
\* queue, in the hands of one server, or processed once by the engine.
EachRequestOnce ==
  /\ Added = ItemsIn(queue) \cup {we[s] : s \in Holders} \cup ItemsIn(done)
  /\ Cardinality(Added) = Len(queue) + Cardinality(Holders) + Len(done)

Destroyed == pc[Main] \in {"destroyed", "walking"}

\* workq_destroy returns, and destroys the mutex and the condition variable,
\* only when no server will touch the queue again.
DestroyedQuiescent == Destroyed => LiveServers = {}

\* ... and no accepted request is left behind, as long as no wait has failed.
DestroyedDrained ==
  /\ DestroyedQuiescent
  /\ Destroyed /\ failures = 0 => queue = <<>> /\ ItemsIn(done) = Items

\* The process always comes to an end unless a wait fails: no server, caller or
\* workq_destroy waits for ever on wq->cv.
Terminates == <>(~Running \/ failures > 0)

\* What the comment before workq_add's insertion says: a request is added to
\* the end of the queue, so adding one never dereferences a NULL wq->last.
AddNeverFaults == process # "segv"
=============================================================================
