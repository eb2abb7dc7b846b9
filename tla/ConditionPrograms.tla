-------------------------- MODULE ConditionPrograms --------------------------
(***************************************************************************)
(* The condition variable programs: condition.c (two threads count, one    *)
(* watches for a limit), cond.c (a timed wait), sigwait.c (a thread that   *)
(* takes signals and then wakes main), sigev_thread.c (a timer that wakes  *)
(* main) and qtTest (a producer and a consumer).  Every critical section   *)
(* of theirs begins with a lock or the return of a wait and ends with an   *)
(* unlock or a wait, so each is one action.                                *)
(***************************************************************************)
EXTENDS Pthreads

CONSTANTS
  TCOUNT,        \* increments of each thread of condition.c (10)
  COUNT_LIMIT,   \* the count watched for (12)
  Increase,      \* what the watcher adds (125)
  Interrupts,    \* interrupts or expirations until sigwait.c or sigev_thread.c ends (5)
  DataSize,      \* items of the producer (100)
  BufferSize     \* items of the buffer (30)

ASSUME ConditionAssumption ==
  /\ DataSize \in Nat /\ BufferSize \in Nat \ {0}
  /\ TCOUNT \in Nat /\ COUNT_LIMIT \in Nat /\ Increase \in Nat /\ Interrupts \in Nat \ {0}
  /\ COUNT_LIMIT <= 2 * TCOUNT        \* the threads reach the limit by themselves
  /\ COUNT_LIMIT <= Increase          \* one addition passes it
  /\ LastThread >= 3

\* pthread_cond_wait by t, which has just locked the mutex or gone round its loop.
Wait(t, l) == Goto(t, l) /\ waiters' = waiters \cup {t} /\ UNCHANGED <<mutex, pending>>

\* The wait of t has returned.
Woken(t, l) == At(t, l) /\ t \notin waiters

-----------------------------------------------------------------------------
(* condition.c.                                                            *)

Watcher == 1
Counters == {2, 3}

CountInit == Start("condition", [count |-> 0, i |-> [t \in Counters |-> 0], added |-> FALSE])

CountMain ==
  /\ \/ /\ At(Main, "start")
        /\ pc' = [pc EXCEPT ![Main] = "join", ![Watcher] = "begin", ![2] = "begin", ![3] = "begin"]
     \/ /\ At(Main, "join") /\ \A t \in {Watcher} \cup Counters : Ended(t)
        /\ Goto(Main, "exit")
  /\ NoSync /\ UNCHANGED g

\* Faulty variant: the waiting thread is signalled one count late.
IncLate(t) ==
  /\ At(t, "begin") /\ g.i[t] < TCOUNT
  /\ g' = [g EXCEPT !.count = @ + 1, !.i[t] = @ + 1]
  /\ IF g'.count = COUNT_LIMIT + 1 THEN Signal ELSE UNCHANGED waiters
  /\ UNCHANGED <<pc, mutex, pending>>

\* One round of inc_count under the mutex.
IncCount(t) ==
  /\ At(t, "begin") /\ g.i[t] < TCOUNT
  /\ g' = [g EXCEPT !.count = @ + 1, !.i[t] = @ + 1]
  /\ IF g'.count = COUNT_LIMIT THEN Signal ELSE UNCHANGED waiters
  /\ UNCHANGED <<pc, mutex, pending>>

IncEnd(t) == g.i[t] = TCOUNT /\ Local(t, "begin", "done") /\ UNCHANGED g

\* watch_count: the test of the loop, at first and after each wait, which
\* always adds.
WatchCount ==
  LET count == IF At(Watcher, "begin") THEN g.count ELSE g.count + Increase
  IN  /\ At(Watcher, "begin") \/ Woken(Watcher, "wait")
      /\ IF count < COUNT_LIMIT THEN Wait(Watcher, "wait") ELSE Goto(Watcher, "done") /\ NoSync
      /\ g' = [g EXCEPT !.count = count, !.added = At(Watcher, "wait")]

CountStep(t) ==
  /\ Running("condition") /\ UNCHANGED program
  /\ \/ t = Main /\ CountMain
     \/ t = Watcher /\ WatchCount
     \/ t \in Counters /\ (IncCount(t) \/ IncEnd(t))

\* No increment is lost, and the watcher adds to the count at most once, whether
\* it is woken by the signal or by nobody: the count is the increments made, and
\* the addition.
CountExact ==
  program = "condition" =>
    g.count = g.i[2] + g.i[3] + IF g.added THEN Increase ELSE 0

\* The one signal, which is sent when the count is exactly the limit, cannot be
\* missed: while the watcher waits the limit is still to come.
WatcherNotStranded == program = "condition" /\ Watcher \in waiters => g.count < COUNT_LIMIT

-----------------------------------------------------------------------------
(* cond.c.  The thread may hibernate for less or for more than main waits. *)

Waker == 1

CondInit == Start("cond", [value |-> 0, printed |-> {}])

\* Main's loop around the timed wait, at first, after a wakeup and after a wait
\* that has failed: that one returns at once and with the mutex still locked.
CondTest ==
  /\ At(Main, "loop") \/ Woken(Main, "wait") \/ At(Main, "again")
  /\ UNCHANGED pending
  /\ \/ /\ g.value = 0 /\ UNCHANGED g
        /\ Goto(Main, "wait") /\ mutex' = None /\ waiters' = waiters \cup {Main}
     \/ /\ g.value = 0 /\ UNCHANGED g
        /\ Goto(Main, "failed") /\ mutex' = Main /\ UNCHANGED waiters
     \/ /\ g.value # 0 /\ g' = [g EXCEPT !.printed = @ \cup {"signaled"}]
        /\ Goto(Main, "exit") /\ mutex' = None /\ UNCHANGED waiters

\* The failure is printed, and the loop goes on.
CondFailed ==
  /\ Local(Main, "failed", "again")
  /\ g' = [g EXCEPT !.printed = @ \cup {"wait_failed"}]

\* The time is over for main, which still has to get the mutex.
CondTimeout ==
  /\ At(Main, "wait") /\ Main \in waiters
  /\ waiters' = waiters \ {Main} /\ UNCHANGED <<mutex, pending, g>>
  /\ Goto(Main, "expired")

\* It leaves the loop, and looks at the value once more.
CondExpired ==
  /\ Local(Main, "expired", "exit")
  /\ g' = [g EXCEPT !.printed = @ \cup {"timed_out"} \cup IF g.value # 0 THEN {"signaled"} ELSE {}]

\* wait_thread sets the predicate and signals.
wait_thread ==
  /\ At(Waker, "begin") /\ mutex = None
  /\ g' = [g EXCEPT !.value = 1]
  /\ Signal /\ UNCHANGED <<mutex, pending>>
  /\ Goto(Waker, "done")

\* When the thread cannot be created main says so, and waits all the same.
CondStep(t) ==
  /\ Running("cond") /\ UNCHANGED program
  /\ \/ t = Main /\ Create(Main, Waker, "start", "loop") /\ NoSync /\ UNCHANGED g
     \/ t = Main /\ Local(Main, "start", "loop") /\ UNCHANGED g
     \/ t = Main /\ (CondTest \/ CondFailed \/ CondTimeout \/ CondExpired)
     \/ t = Waker /\ wait_thread

\* The deadline of the wait passes.
Deadline == CondStep(Main) /\ CondTimeout

\* Main sleeps only while the value is not set; a wait that fails leaves it the
\* mutex, so that the value cannot be set behind its back; and at its end it has
\* said that it was signalled if and only if the value was set when it looked
\* last, also when its wait had timed out by then, and otherwise that it timed
\* out.
CondReports ==
  program = "cond" =>
    /\ Main \in waiters => g.value = 0
    /\ pc[Main] \in {"failed", "again"} => mutex = Main /\ g.value = 0
    /\ At(Main, "exit") =>
         /\ "signaled" \in g.printed <=> g.value = 1
         /\ g.value = 0 => "timed_out" \in g.printed

-----------------------------------------------------------------------------
(* sigwait.c.  SIGINT is blocked in all threads; one is pending or not,    *)
(* the ones that come meanwhile are lost.                                  *)

Taker == 1

SigwaitInit == Start("sigwait", [pending |-> FALSE, taken |-> 0, interrupted |-> FALSE])

SigwaitMain ==
  \/ Create(Main, Taker, "start", "loop") /\ NoSync /\ UNCHANGED g
  \/ /\ At(Main, "loop") \/ Woken(Main, "wait")
     /\ IF g.interrupted THEN Goto(Main, "exit") /\ NoSync ELSE Wait(Main, "wait")
     /\ UNCHANGED g

\* signal_waiter takes a signal, and the last one makes it wake main.
signal_waiter ==
  \/ /\ g.pending
     /\ Local(Taker, "begin", IF g.taken + 1 >= Interrupts THEN "notify" ELSE "begin")
     /\ g' = [g EXCEPT !.pending = FALSE, !.taken = @ + 1]
  \/ /\ At(Taker, "notify") /\ Goto(Taker, "done")
     /\ g' = [g EXCEPT !.interrupted = TRUE]
     /\ Signal /\ UNCHANGED <<mutex, pending>>

Interrupt ==
  /\ Running("sigwait") /\ ~ At(Main, "start")
  /\ g' = [g EXCEPT !.pending = TRUE]
  /\ UNCHANGED <<program, pc>> /\ NoSync

SigwaitStep(t) ==
  /\ Running("sigwait") /\ UNCHANGED program
  /\ (t = Main /\ SigwaitMain) \/ (t = Taker /\ signal_waiter)

\* Main ends after as many interrupts as it takes and not before, and does not
\* sleep once it has been told.
InterruptsCounted ==
  program = "sigwait" =>
    /\ At(Main, "exit") => g.taken = Interrupts
    /\ Main \in waiters => ~ g.interrupted

-----------------------------------------------------------------------------
(* sigev_thread.c.  Each expiration of the timer runs timer_thread in a    *)
(* thread of its own, which does all it does under the mutex.              *)

ExpiryInit == Start("sigev_thread", [counter |-> 0, armed |-> FALSE])

ExpiryMain ==
  \/ Local(Main, "start", "loop") /\ g' = [g EXCEPT !.armed = TRUE]
  \/ /\ At(Main, "loop") \/ Woken(Main, "wait")
     /\ IF g.counter < Interrupts THEN Wait(Main, "wait") ELSE Goto(Main, "exit") /\ NoSync
     /\ UNCHANGED g

timer_thread ==
  /\ Running("sigev_thread") /\ g.armed
  /\ g.counter < 2 * Interrupts      \* bound: expirations while main is on its way out
  /\ g' = [g EXCEPT !.counter = @ + 1]
  /\ IF g'.counter >= Interrupts THEN Signal ELSE UNCHANGED waiters
  /\ UNCHANGED <<program, pc, mutex, pending>>

ExpiryStep(t) == Running("sigev_thread") /\ UNCHANGED program /\ t = Main /\ ExpiryMain

\* Main is awakened when the timer has expired so often, and not before.
ExpirationsCounted ==
  program = "sigev_thread" =>
    /\ At(Main, "exit") => g.counter >= Interrupts
    /\ Main \in waiters => g.counter < Interrupts

-----------------------------------------------------------------------------
(* qtTest: a producer and a consumer that wait in an if, not in a loop.    *)
(* QWaitCondition counts its wakeups, so none comes that nobody sent.      *)

Producer == 1
Consumer == 2

QtInit ==
  Start("qt", [used |-> 0, buffer |-> [k \in 0 .. BufferSize - 1 |-> 0],
               i |-> [t \in {Producer, Consumer} |-> 0], got |-> 0])

QtMain ==
  /\ NoSync /\ UNCHANGED g
  /\ \/ At(Main, "start") /\ pc' = [pc EXCEPT ![Main] = "wait", ![Producer] = "begin", ![Consumer] = "begin"]
     \/ Ended(Producer) /\ Ended(Consumer) /\ At(Main, "wait") /\ Goto(Main, "exit")

\* The buffer is full for the producer, empty for the consumer.
Blocked(t) == g.used = IF t = Producer THEN BufferSize ELSE 0

\* Producer::run and Consumer::run, for item i: wait if need be, put or get the
\* item without the mutex, count it and wake the other.
run(t) ==
  LET k == g.i[t] % BufferSize
  IN  \/ /\ At(t, "begin") /\ g.i[t] < DataSize /\ UNCHANGED g
         /\ IF Blocked(t) THEN Wait(t, "wait") ELSE Goto(t, "item") /\ NoSync
      \/ Woken(t, "wait") /\ Goto(t, "item") /\ NoSync /\ UNCHANGED g
      \/ /\ Local(t, "item", "count")
         /\ g' = IF t = Producer THEN [g EXCEPT !.buffer[k] = g.i[t]] ELSE [g EXCEPT !.got = g.buffer[k]]
      \/ /\ At(t, "count") /\ Goto(t, "begin")
         /\ waiters' = {} /\ UNCHANGED <<mutex, pending>>
         /\ g' = [g EXCEPT !.used = @ + IF t = Producer THEN 1 ELSE -1, !.i[t] = @ + 1]
      \/ g.i[t] = DataSize /\ Local(t, "begin", "done") /\ UNCHANGED g

QtStep(t) ==
  /\ Running("qt") /\ UNCHANGED program
  /\ (t = Main /\ QtMain) \/ (t \in {Producer, Consumer} /\ run(t))

\* Without a second test after the wait the consumer still gets item i as item
\* i, never overwritten and never too early, the buffer is never counted fuller
\* than full, and the two never wait for each other.
ItemsInOrder ==
  program = "qt" =>
    /\ At(Consumer, "count") => g.got = g.i[Consumer]
    /\ g.used = g.i[Producer] - g.i[Consumer] /\ g.used \in 0..BufferSize
    /\ \A t \in waiters : Blocked(t)

-----------------------------------------------------------------------------
\* The condition variable programs: what they count, and that no thread waits
\* for a signal that has been sent.
ConditionInv ==
  /\ CountExact /\ WatcherNotStranded
  /\ CondReports /\ InterruptsCounted /\ ExpirationsCounted /\ ItemsInOrder

\* Everyone waiting is woken: the watcher and so main of condition.c, main of
\* cond.c, by the clock if need be and unless its wait fails again and again, main
\* of sigwait.c after the last interrupt, main of sigev_thread.c, and the producer
\* and the consumer.
WaitsEnd ==
  /\ program \in {"condition", "sigev_thread", "qt"} ~> At(Main, "exit")
  /\ program = "cond" => <>At(Main, "exit") \/ []<>At(Main, "failed")
  /\ program = "sigwait" /\ g.taken = Interrupts ~> At(Main, "exit")
=============================================================================
