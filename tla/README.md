# TLA+ models of c11andC

c11andC is a collection of C and C++ programs: POSIX-thread programs at the
root, interprocess-communication and socket programs under `advancedC/`, data
structures and algorithms under `computation/`, and language notes. There is no
single application, so this project takes the programs that have a state worth
verifying, one module per program, and states for each what makes it correct.
Modelled are its concurrent libraries, its small programs of threads and
processes, and its data structures that live on through many calls.

All line numbers refer to `src/`. `PROJECT.json` maps each definition to the
lines it stands for.

## 1. Inventory

| component | state | operations | interaction | what is hard | what makes it correct |
|---|---|---|---|---|---|
| work queue, `workq.c` `workq.h` | a list of requests, `valid`, `quit`, `counter`, `idle`; per-server engine records | `workq_add`, `workq_server`, `workq_destroy`, engine, destructor | callers and servers share one mutex and one condition variable with two predicates; servers are created on demand and leave after an idle time | timeout against signal against broadcast; a failed wait; last server out; `pthread_create` failing | counters exact, no request lost or doubled, no stranded work, `workq_destroy` returns when and only when all is done |
| barrier, `barrier.c` `barrier.h` `barrier_main.c` | `counter`, `cycle`, `valid` | `barrier_int`, `barrier_wait`, `barrier_destroy` | any number of threads on one mutex and condition variable | fast threads lap slow ones; spurious wakeups; failed waits; the width of the cycle | groups of exactly `threshold`, one -1 per group, nobody left asleep |
| barrier demonstration, `barrier_main.c` | per-thread arrays and increments | `thread_routine`, `main` | two barriers per round around unlocked data | the thread that got -1 writes what others read | the updater is alone, the arrays are the same at every relative speed |
| thread suspension, `susp.c` | the array of suspended threads, a sentinel | `thd_suspend`, `thd_continue`, handlers for SIGUSR1 and SIGUSR2 | signals into other threads, a spin with a mutex held | a signal between acknowledgement and `sigsuspend`; the array growing | one suspension at a time, a resumed thread runs |
| pipeline, `pipe.c` | a datum and flag per stage, `active` | `pipe_start`, `pipe_result`, `pipe_send`, `pipe_stage` | each stage has a mutex and two condition variables, two mutexes held while sending | lost wakeups along the chain, a full chain | first in first out, `pipe_result` returns |
| terminal server, `server.c` | a queue of requests, memory handed between threads | `tty_server_request`, `tty_server_routine`, `client_routine`, `main` | synchronous and asynchronous requests to one server | who frees a request, order of output and prompt, `main` joins nobody | each request freed once, answered, in order; nothing lost at exit |
| file search crew, `crew.c` | a list of items, `work_count` | `worker_routine`, `crew_create`, `crew_start` | workers make work for one another | a count that must not pass through 0, signals for two predicates, failing calls | complete search, each item once, `crew_start` returns then and only then |
| alarms, `alarm_mutex.c` `alarm_cond.c` | an ordered list of alarms, `current_alarm`, the clock | main's command loop, `alarm_thread` | a thread that sleeps while main changes what it should sleep for | expiry against an earlier alarm just entered | none lost, doubled or early; all ring; bounded overtaking |
| 2-3 tree, `computation/src 2-3TreeImplementation` | a heap of nodes with parent pointers | `insert`, `find`, `deleteItem`, `print`, `removeAll` | sequential | 19 cases of rotation and merger, pointer surgery | a set of keys, the shape of a 2-3 tree, no stray node |
| fork handlers, `atfork.c` | a mutex, its copy in the child, `self_pid` | three handlers, `main`, the forking thread | a fork between two threads' steps | main may hold the mutex at the fork | the child can always lock its copy, and knows its pid |
| cancellation, `cancel.c` `cancel_disable.c` `cancel_cleanp.c` `cancel_subcontract.c` | counters, a mutex, a team of threads | thread functions, cleanup handlers, `main` | a request that arrives anywhere and acts at some points | cancelled before the handler is pushed, in the wait, waiting for the mutex | no action where disabled, handlers restore count and mutex, no worker left behind |
| condition programs, `condition.c` `cond.c` `sigwait.c` `sigev_thread.c` `qtTest` | a count, a value, a buffer | thread functions, `main`, `timer_thread` | mutex and condition variable; Qt's without a loop | spurious wakeups, timeouts, a limit tested for equality | counts exact, nobody waits for a signal already sent, no slot overwritten |
| shared results, `trylock.c` `mutex-1.c` `accumulate.cpp` | a counter, a sum, partial results | thread functions, `main`, `parallel_accumulate` | a mutex, or a place for each thread | the size of the last block | only whole rounds are seen, every element is added once |
| once and thread-specific data, `once.c` `tsd_once.c` | `pthread_once_t`, a key and its values | the routines, the threads, `main` | several callers of `pthread_once` | a second caller while the first still runs the routine | initialised once and before use, values not mixed up |
| semaphores, `semaOrder.c` `semaphore_signal.c` | a semaphore | threads, a timer's signal handler | posts from a handler | the signal interrupts the wait it should end | order kept, no post lost |
| streams, `flock.c` `putchar.c` | the locks of `stdin` and `stdout` | the writers, `main` | two locks, and the one each call takes | main prints while a thread has both | answers to one's own prompt, unbroken lines |
| processes, `advancedC/pipe.c` `server-bee.c` `client-bee.c` `socket-server.c` `socket-client.c` | open ends, children, connections | parent, child, handler of SIGCHLD | the kernel | signals that merge, a write end left open | all is read, every child reaped, no connection left open |
| AVL tree, `computation/AVL` | a tree with heights | `insert`, rotations | sequential | stored heights | keys kept in order, balance |
| red-black tree, `computation/RedBlackTree` | a tree with colours and parents | `insert`, `fixViolation` | sequential | a colour never set | keys kept in order, the colouring rules |
| running median, `computation/FindMedian` | two heaps in arrays | `printMedian`, `getMedian`, `heapify`, `deleteTop` | sequential | repair after a removal, the end of the array, overflow | the median of the values so far |
| binomial heap, `computation/BinomialHeap` | two root pointers and nodes | the seven choices of `main`'s menu | sequential | `main` and the object disagree which heap it is | a binomial heap with the keys inserted |
| list, tree, array and graph algorithms, threaded tree, cuckoo hashing | none, or one call's | pure functions | sequential | boundary cases | see Not modelled |
| the rest of `advancedC/`, language notes | files, sockets | mostly one system call each | through the kernel | | see Not modelled |

`PROJECT.json` lists every component with its files, those not modelled with the
reason, and under `hazards` what is hard to test in this code, line by line.

## 2. Modules

| module | models | extends or instantiates |
|---|---|---|
| `WorkQueue`, `MCWorkQueue`, `WorkQueueProofs` | `workq.c`, the library and the program driving it | |
| `AbstractBarrier` | what a barrier promises: callers gather, the last one of `threshold` releases the group, each leaves once | |
| `Barrier`, `MCBarrier`, `BarrierProofs` | the barrier with the widths of its integers | `AbstractBarrier` by refinement mapping |
| `BarrierMain`, `MCBarrierMain` | the program of `barrier_main.c`; its theorems are in `BarrierProofs` | composes `Barrier` with the threads and main |
| `Suspend`, `MCSuspend` | `susp.c`; its theorems are in `ThreadProgramsProofs` | |
| `AbstractPipe` | what a pipeline promises: a bounded first-in first-out queue that adds one per stage | |
| `Pipe`, `MCPipe`, `PipeProofs` | `pipe.c` | `AbstractPipe` by refinement mapping (in `MCPipe`) |
| `TtyServer`, `MCTtyServer`, `TtyServerProofs` | `server.c` | |
| `Crew`, `MCCrew` | `crew.c` | |
| `Alarm`, `MCAlarm` | `alarm_mutex.c` and `alarm_cond.c`, one variable says which | |
| `AlarmCrewProofs` | theorems about `Alarm` and `Crew` | extends both |
| `TwoThreeTree` | `CTree.h`, `CNode.h` and the calls of the test program | |
| `Structures` | what the four below share: which program runs, its variables | |
| `AvlTree`, `RedBlackTree`, `RunningMedian`, `BinomialHeap` | `AVL.cpp`, `RedBlackTree.cpp`, `FindMedian.cpp`, `BinomialHeap.cpp` | `Structures` |
| `MCStructures` | chooses one of the five data structures and calls it | composes them |
| `StructuresProofs`, `RedBlackProofs` | theorems about `RunningMedian` and `AvlTree`, and about `RedBlackTree` | the second extends the first for its lemmas |
| `Pthreads` | the library as the small programs use it: threads, one mutex, one condition variable, join, cancellation requests | |
| `ForkHandlers`, `Cancellation`, `ConditionPrograms`, `MutexPrograms`, `OncePrograms`, `SemaphorePrograms`, `StreamPrograms`, `ProcessPrograms` | the small programs, a module for each family | `Pthreads` |
| `MCThreadPrograms`, `ThreadProgramsProofs` | chooses one of the 22 small programs and runs it | composes them |

Conventions. A stretch of code between taking a mutex and giving it up, by an
unlock or a condition wait, is one action: nothing that respects the mutex can
see a state in between. Code that runs without the mutex (an unlocked test, a
signal handler, an engine, a destructor) has actions of its own. Mutexes are
variables only where they are held across actions (`Suspend`); in `Pipe` the
place of a stage's thread says whether its mutex is held. Program points are
strings in a variable `pc` (or `worker`, `client`, `main`). A condition wait is
left by a signal, a broadcast, a timeout or for no reason (`Spurious...`); a
signal picks any one waiter. Faulty variants (`...Quiet`, `...Once`, `...Kept`
and so on) stand before the definition they corrupt and are used by nothing:
they are what the mutation tests put in its place to show that a property can
fail.

Names follow the source: `counter`, `idle`, `data_ready`, `work_count`,
`current_alarm`, `getNextPostorderKey`, `globalNodeMerger` are the code's.

### How state and actions correspond to the code

* **WorkQueue.** `queue` is the chain from `wq->first`; `last` is kept apart
  because `workq_server` spoils it (section 4). `AddCheck` is the unlocked test
  of `wq->valid`, `AddLocked` the rest of `workq_add` with `WakeOrCreate` its
  signal or `pthread_create`, `AddThroughNull` the dereference of a null
  `wq->last`. The body of `workq_server` between two waits is `ServerLoop`,
  reached from `ServerStart`, `ServerWake`, `ServerTimedOut` and `ServerRelock`,
  and ends in `ServerWait`, `ServerTake` or `ServerQuit`. `ServerWaitFailed` is
  its error path. `DestroyBegin` and `DestroyWake` are `workq_destroy`;
  `DestroyWaitFailed` is the error exit of its wait, after which main aborts;
  `WalkBegin` and `WalkNext` main's summary.
* **Barrier.** `Call` is the unlocked test of `valid`, `CompleteCycle` and
  `Arrive` the two branches of `barrier_wait`, `Wake` the loop's test after a
  wait, `WaitFailed` the error exit, `Destroy` `barrier_destroy` with its three
  results. `AsInt` and `AsULong` are the conversions of the cycle.
* **BarrierMain.** Each thread runs `Barrier`'s actions on its own behalf
  (`Enter`, `InBarrier`) between the steps of `thread_routine`; additions and
  changes of increments are one element per step.
* **Suspend.** `SuspendListed`, `SuspendKill`, `SuspendReturn` are the parts of
  `thd_suspend`; the handler of SIGUSR1 is `TakeSuspend`, `Acknowledge`,
  `Sigsuspend`; SIGUSR2 is masked between the first and the last. `Place` is the
  search for a free entry with the growth of the array, whose new entry is
  undefined.
* **Pipe.** `Stage`, `StageFull`, `StageSend` for the threads, `Start`,
  `StartFull`, `StartSend`, `ResultEmpty`, `ResultBegin`, `ResultWait`,
  `ResultTake`, `Eof` for main.
* **TtyServer.** A request is a record of who made it, its operation and loop
  number; `live` is the set of allocated ones. `Request` is
  `tty_server_request` up to its wait; `Create` the unsynchronised creation loop
  of main.
* **Crew.** The file system is a constant tree: the path of an entry is that of its
  directory with a name behind it, so that no path has two parents or is below
  itself (`TreeAssumption`). `Process` is the body of
  `worker_routine` for one item; `WorkerVanished` covers the ignored result of
  `lstat`, where the kind of the item is whatever was there before, or anything;
  `WorkerOpenFails` the `continue` that skips the end of the loop.
* **Alarm.** `Enter` is main's command, with `alarm_insert`; `MutexTake` and
  `MutexRing` the thread of `alarm_mutex.c`; `CondTop` to `CondExpired` the one
  of `alarm_cond.c`. `now` is the clock; `Tick` advances it at any moment.
* **TwoThreeTree.** The operators are `CTree`'s methods on a heap, a function
  from addresses to nodes. After each call nodes are renamed to their paths from
  the root and keys to even numbers in order (`Renamed`), so states are taken up
  to what the code cannot tell apart: it compares keys and follows pointers and
  does nothing else with either. Odd numbers are the keys not there.
* **AvlTree.** Nodes at addresses, the pair of a key and how often it has been
  inserted. A call of `insert` or of a rotation is a record of the memory, the
  node it is for, and whether a null pointer has been followed; `AvlInsert` is
  the recursion as a function of how far down the call is, `Rebalanced` its four
  cases. Heights are stored, as in the code, and the fault of `rightRotate`
  with them.
* **RedBlackTree.** The node of a key is at the address that is the key, that of a
  key given again at `DUPLICATE`, since nothing links it; the colour a new node
  finds in its memory is chosen. A child is on a `Side`, so `rotate` stands for
  `rotateLeft` and `rotateRight` and `Repaired` for both mirrored halves of the
  loop's body. Recursion and loops are functions of the number of rounds (`FixRound`
  is one round of `fixViolation`); `RbRounds` are enough, which is proved.
* **RunningMedian.** A heap is the sequence of its array; `heapify`, `deleteTop`
  and `insertHelper` are the code's, and so are its indices. `INT_LIMIT` scales
  the width of int down for `Average`, `MAX_HEAP_SIZE` the arrays.
* **BinomialHeap.** The nodes and both root pointers, main's `H` and the object's.
  `MergeLoop` and `UnionLoop` follow the code's pointers for at most `ROUNDS`
  rounds; a call that needs more is in a cycle and does not return.
* **Small programs.** `pc`, `mutex`, `waiters` and `pending` belong to the library,
  the program's own variables are a record `g`. Processes are threads whose
  state the program's record copies at the fork (`g.copy`, `g.write`).

## 3. Runs

Each invariant of a module's whole state (`QueueInv`, `BarrierInv`, ...) is the
conjunction of its type invariant with the named facts below it.

| run | instance | checks |
|---|---|---|
| `workq_program` | 2 servers, 2 callers with 2 requests each, one failing wait | `QueueInv` (types, exact counters), `NoStrandedWork`, `RequestsAccounted` (each request in exactly one place, engine records add up, a destroyed queue is empty and without servers), `Terminates` |
| `workq_last` | 3 identities for 2 servers | expected violation of `AddNeverFaults` |
| `barrier_library` | 4 clients, threshold 3, 2 cycles, one failing wait | `BarrierInv` (no finished client asleep, exact counter), `Implements`, `ReleasedReturn` |
| `barrier_main` | 3 threads, 2 rounds, arrays of 2, one failing wait | `RoundsKept` (the updater is alone; every call is counted), `ResultsExact` (arrays in step, clean exit), `Terminates` |
| `suspend_program` | 2 callers, 2 targets one of which may end, an array of 1, 6 calls | `SuspendInv` (each unacknowledged suspension belongs to the call holding the mutex), `ContinueResumes`, `SuspendReturns` (the spin ends while its target lives and runs) |
| `suspend_removes` | the same, an array of 2 | expected violation of `ContinueRemoves` |
| `pipe_fifo` | 3 stages and the result stage, 5 values | `PipeSound` (no lost wakeup, `active` exact), `ImplementsFifo`, `CallsReturn` |
| `tty_server` | 2 clients, 2 lines written per line read, 3 lines of input | `TtyInv` (no lost wakeup, each request freed once and not used after), `OutputComplete` (echo before the next prompt, nothing unwritten at exit), `ServerResponds` (requests answered, the program ends) |
| `crew_search` | 2 workers, 3 searches in a tree with every kind of entry, one failing call | `CrewInv` (exact count, no worker asleep that is needed, one worker less after each search), `SearchExact` (complete when `crew_start` returns, each item once), `SearchEnds` (`crew_start` returns, unless a directory could not be opened or every worker has ended with an earlier search) |
| `alarms` | both programs, 3 alarms of -1, 0 or 2 seconds | `AlarmInv` (asleep only on the earliest, each alarm in one place), `RingsInTurn` (never early, overtaken at most once), `AlarmsRing` |
| `structures` | the five data structures, every sequence of calls | `TreeInv` (2-3 tree: no stray, lost or wrongly linked node; the shape, but for one kind of rotation), `SetOfKeysKept` (exactly the right keys, complete traversals, and which calls follow a null pointer), `AvlInv`, `RbInv`, `MedianInv`, `HeapInv` |
| `thread_programs` | each of the 22 small programs with its limits scaled down | `ForkInv`, `CancellationInv`, `ConditionInv`, `SharedResults`, `OnceInv`, `SemaphoreInv`, `StreamInv`, `ProcessInv`, and `ProgramsEnd`: every wait, join and end of stream comes, with the exceptions stated there |

The invariants of `structures` say both what holds and up to where:

* `TreeInv` and `SetOfKeysKept`: the shape of a 2-3 tree until a global rotation
  around an inner node, which leaves a node without its right child. On a tree that
  misses right children only, `insert` and `find` still do what they should,
  `deleteItem` does or follows a null pointer, and every `print` and `removeAll`
  follows one. The first call on a tree that has lost more (it has "gone astray")
  is followed and nothing is claimed of it but that `insert` and `find` return.
* `AvlInv`: the tree has every key as often as it was inserted, in order, and a
  stored height is never too small; with distinct keys the heights are exact and
  the tree is balanced until the first `rightRotate`, and no null pointer is
  followed before the next insertion.
* `RbInv`: every key once and in order; the red-black rules as long as the memory
  of each new node said RED; a null pointer is followed only for a key that is
  there already.
* `MedianInv`: exact medians until an average overflows or a heap of three or more has
  given its top away;
  no value lost and the halves never two apart whatever the heaps have become; an
  array is overrun only by more values than both hold.
* `HeapInv`: a binomial heap with the right keys until the first extraction or
  deletion, and after it in the object if there were fewer than 12 nodes. What
  should remain is all but the least key, or all but the key deleted; when a key
  below -1000 is held, `Delete` takes the least key instead and leaves its own as
  -1000. Calls fail to return only after an extraction.

### Bounds, and why they are enough

* Work queue: two servers are the least for which one can be woken while the
  other times out or is the last out; two callers with two requests let the queue
  be empty, short and longer than the servers at every stage, and servers be
  created again after others left. `MaxWaitFailures` 1 puts the failure anywhere.
* Barrier: four clients at threshold 3 let a client of the next group arrive
  before the last group has left; two cycles show a counter that is not set back.
  The widths are scaled down (`INT_MAX`, `ULONG_MAX`) and the cycles stay within
  `INT_MAX`, the assumption of the theorems.
* Suspend: an array of one entry has to grow with the second suspension; six
  calls are enough to suspend, continue and suspend again both targets.
* Pipe: three stages as the program can be given; five values are one more
  than the pipeline holds, so it fills up.
* Terminal server: two clients compete; a third line lets one of them prompt
  again after its echo.
* Crew: the tree has a directory in a directory, a file that matches, a link
  and a special file; two workers are more than the work at its start and fewer
  than the work in the middle. Three callers are one more than the searches two
  workers can end, so that the third waits for ever where the code makes it.
* Alarms: three are needed for one to be overtaken while another is held; the
  horizon lets each of them ring before, after and between the others' entry. The
  clock stops after it, when every alarm entered is due.
* 2-3 tree: 12 keys are the least for which all 19 cases of deletion occur; 13
  leave one to spare. A tree that the fault of section 4 has made lopsided is
  followed through four more calls that change it (`MaxCalls`): enough for it to
  be repaired, to lose further children and to go astray.
* AVL: 9 keys, the least for which different keys make `insert` follow a null
  pointer; a tree with a key twice has up to 6 nodes (`AvlSmall`), one more than
  it takes there.
* Red-black: 7 keys give all mirrored cases at the root and below it. Two
  nodes (`MaxGarbage`) may find something other than RED.
* Median: values on both sides of 0, the sum of two of which overflows
  (`INT_LIMIT` 8); arrays of 4 are overrun by the ninth value.
* Binomial heap: with 12 nodes (trees of 4 and 8) an extraction loses a node; the
  keys -1 and 1 give ties and order, one below and one above the key that `Delete`
  decreases to (`LOWEST`, -1000 in the code and 0 here). Keys are decreased and
  deleted, and calls follow an extraction (`StaleCalls` 2), up to 10 nodes
  (`SmallHeap`), a heap of two trees; two such calls already fail to return.
* Small programs: 4 threads and main. `condition.c` with 4 increments, the limit 5
  and an addition of 6 can step over its limit as with 10, 12 and 125; `TestEvery`
  5 and `SleepEvery` 3 coincide only at a multiple of both, as 1000 and 755; 7
  items in a buffer of 2 go round it three times; 9 elements over up to 4 blocks
  leave every remainder; two connections at a time let two children end together.

Deadlock is not checked in any run: each program ends (exit, all calls made, or
the pipeline that main itself blocks). What must not stop is stated as a liveness
property.

### Fairness

Weak fairness per thread: a thread that can take a step takes one, which is what
a preemptive scheduler gives. There is no fairness for callers of a library (they may stop calling), for failures, for spurious wakeups, for the
end of input or for the commands main reads. A timed wait is assumed to expire
(`Timeout` in `WorkQueue`), and in `Alarm` the clock to advance: the meaning of a
timeout. A mutex is granted to a waiting thread in the end; weak fairness
suffices because each critical section is one action, and with one thread per
stage in `Pipe` and one holder in `Suspend`. Handlers in `Suspend` are weakly
fair because a pending unmasked signal is delivered. In the small programs the
timers (`Tick`, `timer_thread`) and the minute of `trylock.c` go on, and a pending
SIGCHLD is delivered (`Delivery`, weakly). The deadline of `cond.c` is strongly fair
(`Deadline`): it is an absolute time, so however often spurious wakeups interrupt
the wait, one of the waits is the one it expires in. Interrupts from the terminal,
spurious wakeups, failing calls to `accept` and the answers of the user of
`flock.c` (`Answer`) need not come; where the code repeats a call that fails,
`ProgramsEnd` excepts that it fails for ever, and in `flock.c` that a prompt stays
unanswered for ever. A fork, send or creation is free to fail or not each time. The data structures have
no liveness property: a call is one step, and one that does not return is a
value of their state.

## 4. What the expected violations show

* `workq_last`: `if (wq->last = we)` at `workq.c:152` assigns. After any removal
  `wq->last` is null, and a request added while others are queued dereferences
  it. `workq_program` follows the same code: a process that dies this way counts
  as ended, and the properties are about everything before.
* `suspend_removes`: the loop at `susp.c:149` passes over the target and clears
  another entry. The thread runs again but stays listed.

Other departures from what the code intends are in the invariants, which say up
to where it keeps its promise:

* 2-3 tree (`TreeInv`): `deleteItem` tries the global rotation for inner nodes too
  (`CTree.h:814`). With 10, 20, ..., 70 and 55 inserted and 10 deleted, an inner
  node is left with one key and one child, and a print in any order follows the
  missing one. The test program prints after each deletion. Inserted keys are still
  found; further deletions may follow null too, or move children so that keys are no
  longer found. `print` returns FAILURE when it has printed, where its
  comment says "SUCCESS when no error encountered" (`CTree.h:1000`).
* AVL (`AvlInv`): `rightRotate` computes the new root's height before that of the
  node it moves down (`AVL.cpp:60`). Six keys suffice for an imbalance of two, eight
  for three. Its new root's stored height is too large, the balance above it can
  have the wrong sign, and nine different keys (4, 10, 5, 1, 3, 6, 8, 2, 9) make a
  rotation follow a null pointer; with keys inserted twice 2, 2, 2, 2, 1 do.
* Red-black (`RbInv`): the constructor leaves `color` unset; inserting a key again
  follows the null parent of the node that was not linked.
* Median (`MedianInv`): `deleteTop` repairs only upwards, which the comment at
  `FindMedian.cpp:130` says is enough: the sixth median can be wrong.
  `insertHelper` compares the last index with the length (line 167), and `Average`
  adds before it halves.
* Binomial heap (`HeapInv`): main keeps its own `H` after `Extract_Min`; `Merge`
  loses a node of twelve; roots keep their old parent after an extraction; `Search`
  in an empty heap follows null; `Delete` of an absent key removes the minimum
  instead, and so does `Delete` of a key that is there when another is below -1000
  (`BinomialHeap.cpp:327`): from -2000 and 5, deleting 5 leaves -1000; after two
  deletions a call may not return.
* Crew (`CrewInv`, `SearchEnds`): the worker that brings `work_count` to 0 leaves
  its loop for good (`crew.c:250-263`). A crew is used up after as many searches as
  it has workers, and the next `crew_start` waits for ever, although the comments
  at lines 57 and 243 have the crew live on.
* Small programs: `socket-server.c` compares the text with "quit" once more after
  freeing it (lines 32-37) and may end for it or crash; its `accept` is given a
  length that was never set and its result is not looked at, so that after a
  failure the server reads from -1 for ever (lines 59-64). The handler of
  `semaphore_signal.c` calls `malloc` and `printf` and may block its thread for
  ever. `server-bee.c` takes a failed fork for the parent's return and closes the
  connection unanswered (line 122), and `advancedC/pipe.c` (line 39) writes to a
  pipe that nobody reads. `trylock.c` joins threads that it could not
  create. Main of `once.c` unlocks a mutex it has not locked;
  `semaphore_signal.c` joins an identifier that was never set; the counter of
  `cancel_cleanp.c` starts with whatever its memory held; main of `FindMedian.cpp`
  has the call of `printMedian` commented out.

Also seen while modelling: `barrier_wait` keeps the unsigned
long cycle in an int, so that after `INT_MAX` cycles it does not wait
(`barrier_main.c:59`); main's summary in `workq.c` can miss engine records whose
destructors have not run, although the comment at line 348 says they have;
`pipe_start` blocks for ever on a full pipeline (`CallsReturn` states the exact
case); `crew_start` does not return after a directory could not be opened
(`SearchEnds` excepts it); the creation loop of `server.c` may create fewer
clients than main then waits for (`ServerResponds` excepts it); `pipe_send` returns
from a failed wait with the next stage's mutex locked (`pipe.c:78-82`);
`accumulate.cpp:79` (`&std;::thread::join`) does not compile as it is written.

## 5. Proofs

Proved with TLAPS for every value of the constants that the assumptions in the
modules allow: finite sets of threads, positive sizes, paths that form a tree, at
least one interrupt from the terminal where a program waits for one. Nothing is
assumed about how many threads, requests, stages, clients, files, alarms or
elements there are. The barrier's theorems but `TypeCorrect` assume that the
cycles followed fit an int (`MaxCycles <= INT_MAX`); those of its program also that there is one
thread for each place of the barrier (`ThreadNumbers`), as in the code.

| theorem | says |
|---|---|
| `WorkQueueProofs!QueueInvariant` | `Spec => []QueueInv` |
| `WorkQueueProofs!NoLostWakeup` | `Spec => []NoStrandedWork` |
| `WorkQueueProofs!DestroySafe`, `!RequestsKept` | `[]DestroyedQuiescent`, and the whole of `[]RequestsAccounted` |
| `BarrierProofs!TypeCorrect` | `Spec => []TypeOK`, at every width |
| `BarrierProofs!BarrierInvariant`, `!DestroyRefuses`, `!Refinement` | `[]BarrierInv`, `DestroyRefusesGathered` and `Implements` |
| `BarrierProofs!RoundsCorrect`, `!ResultsCorrect` | `MSpec => []RoundsKept` and `MSpec => []ResultsExact`, about the program |
| `PipeProofs!Sound` | `[]PipeSound`, from `PipeInvariant` and `ActiveExact` |
| `PipeProofs!Refinement` | `Spec => ImplementsFifo` |
| `AlarmCrewProofs!CrewInvariant`, `!ReturnsWhenOver`, `!SearchCorrect` | `[]CrewInv`, `[]SearchOver`, and the whole of `[]SearchExact` |
| `ThreadProgramsProofs!SuspendCorrect`, `!SpinKeepsArray` | `[]SuspendInv`; while a `thd_suspend` spins the array changes by its own last step only |
| `TtyServerProofs!TtyCorrect`, `!TtyOutput` | `[]TtyInv`, `[]OutputComplete` |
| `AlarmCrewProofs!AlarmCorrect`, `!AlarmsInTurn` | `[]AlarmInv`, `[]RingsInTurn` |
| `ThreadProgramsProofs!ForkCorrect`, `!OnceCorrect`, `!SemaphoreCorrect`, `!StreamCorrect`, `!ProcessCorrect`, `!ConditionCorrect`, `!SharedResultsCorrect`, `!CancellationCorrect` | the invariants of the eight families of small programs |
| `StructuresProofs!MedianCorrect` | `MedianSpec => []MedianInv` |
| `StructuresProofs!AvlCorrect` | `AvlSpec => []AvlInv` |
| `RedBlackProofs!RbCorrect` | `RbSpec => []RbInv` |

The arguments:

* **Work queue.** `IInv` is `TypeOK`, `CountsMatch` and two facts about program
  points (`Stages`, `Locals`). `TypeOK` alone is not inductive: the code
  decrements `counter` and `idle` without a test, and that they stay natural
  numbers follows from their being cardinalities. `NoStrandedWork` is then
  inductive relative to `IInv`: when a server goes to sleep or leaves the queue is
  empty, and when a request comes, either an idle server exists to be signalled,
  or is already awake, or one is created, or the limit is reached and all servers
  are busy, which `CountsMatch` turns into a witness. `RequestsKept` adds `Places`
  (a request is on the queue, in one hand or done), `AllMade` and `Drained`. The
  sum over the engine records is a fold in no particular order; that its value
  does not depend on the order is proved first, by taking a smallest set for which
  it would.
* **Barrier.** `IInv` adds to `BarrierInv` that remembered cycles are not in the
  future and that the cycle fits an int, so that the comparison of an int with an
  unsigned long is exact. Each step is then shown to be a step of
  `AbstractBarrier`, or none, under the mapping gathered and released clients.
* **The barrier's program.** Each of its steps is a step of the barrier or leaves
  it alone, so `IInv` holds in it too; `Control` adds where main and the threads
  are. Every call counted is a pair of a thread and a number, and exactly the
  steps that change the counters add one: `ArrivalsCounted`. Until a wait fails
  `InPhase` holds: the thread that completes a cycle finds all others gathered
  (there are `threshold` of them and the counter is exact), so everybody has made
  as many calls as there are cycles, and one more when gathered. A thread that adds is
  in an odd cycle and the chosen one in an even one, hence the updater is alone;
  the increments are then those of the round (`Increments`), and the arrays what
  so many rounds and steps of the inner loops add (`Additions`).
* **Pipe.** `PipeInv` is inductive by itself; `NoneAsleep` needs `SenderHasData`,
  because a sender that clears its flag must have been the one that others wait
  for. For the refinement the abstract queue is the data of the occupied stages,
  last stage first, and the place of a stage in it the number of those in front.
  A value that moves on finds the next stage empty, so all places stay; entering
  is at the end and leaving at the front.
* **Crew.** `IInv` adds `Outstanding` to `CrewInv`: a busy worker has an item, and
  the callers of items queued or in work are still waiting. From the count being
  exact, a caller that sees 0 has no item left. `SearchInv` follows the items
  down the tree: `Descent` says where each came from, which with the tree keeps a
  path from being found twice, and `NothingMissed` that until something fails
  everything passed in a directory was seen. When the search is over what was
  served is closed under entries, so it includes the least such set, `Below`.
* **Suspend.** `HandshakeInv` adds to `SuspendInv` that a target in the handler has
  no second SIGUSR1 and that who spins holds `mut`.
* **Terminal server.** `ServerInv` ties the queue, the memory and the output
  together: the writes asked for are those written and those queued, in that
  order (`Writes`, `Rounds`), and what waits for an answer is queued or in the
  server's hand, once (`Replies`, `Places`).
* **Alarms.** `ListInv` places each alarm on the list, in the thread's hand or among
  those rung (`Placed`), and counts for each what had rung when it was entered
  (`Turns`): only the alarm then in hand can overtake it.
* **Small programs.** A behaviour runs one program, so each has an inductive
  invariant of its own (`AtforkIInv`, ...) that no other program's step can
  touch; a family's invariant follows from those of its programs. The blocks of
  `accumulate.cpp` are shown to cover the range by taking the least element they
  would miss.
* **Running median.** `MedianIInv` says of the two heaps that together they hold the
  values read, each as often as it was read (`Within` counts the places of a
  sequence whose element is in a set), that neither is ahead by two, that the median is
  the one `printMedian` reads off their tops and, until an average has overflowed or
  `deleteTop` has taken the top of a heap of three or more, that both are heaps and
  the median last printed separates them and is exact. The calls of `heapify` are a recursive
  function on the naturals; that each keeps the counts and repairs the heap is shown
  by induction, in the form of a set of naturals that has 0 and every successor. A
  value that at least k elements do not exceed and at least n - k + 1 do not fall
  below is the k-th of n in order (`OrderStatistic`): that is the median.
* **AVL tree.** The trees in a memory are the least set of triples (pointer, nodes,
  depth) that has the empty tree and every node with two disjoint trees below it,
  keys in order and a stored height not too low; with exact heights and balance for
  the stricter kind (`Tree(t, a, X, d, q)`, `q` says which). Being the least such set
  gives structural induction (`TreeInduction`) without a recursive operator. Each
  rotation makes a tree of a tree (`LeftRotated`, `RightRotated`) and, by induction
  over the calls, `insert` adds exactly the new node to any tree (`InsertOutcome`).
  In a balanced tree without the key (`InsertExact`) the sibling's height is exact
  and the other side never gets lower, so the side that is too high is the one the
  key went to, and the grandchild that a double rotation turns around has the new
  node below it: no null pointer. Without `rightRotate` the only rotation is the single
  one to the left, after which the tree is as deep as it was, because a subtree that
  has grown with the key on its right is one deeper there (`RightHeavy`). `Below`,
  `Depth` and `preOrder` compute what `Tree` says.
* **Red-black tree.** With parent pointers a tree is described by conditions on each
  node: `Links(s, X, B)` says that the links of `s` make a search tree of the nodes
  `X` in which `B[a]` are the nodes from `a` downwards, `Parents` that parents and
  children agree, and `Plain(s, X, H, pt)` that every way from `a` down passes `H[a]`
  black nodes and only `pt` may be a red node below a red one. `RbIInv` is that such a `B`
  exists, that the root is black and, while every node's memory said RED, such
  an `H` with no exception. A rotation changes `B` at two nodes (`RotatedLinks`,
  `RotatedParents`). Each case of the loop keeps a search tree and moves the
  exception to the node it goes on with (`RecolouredPlain`, `StraightPlain`,
  `ToppledPlain`), and each round leaves more nodes below that node than there
  were below the last one, so the loop ends within `RbRounds` (`FixEnds`). That
  the parent of a violating node is never the root, and so has a parent to read,
  follows from the root being black unless the loop has come to it (`Rooted`), whatever the
  other colours are. `BSTInsert` links the node at the one place for
  its key and writes the other links again as they are (`PlaceFound`); a
  node that was not linked makes `fixViolation` follow its null parent
  or do nothing (`InsertAgain`). For `levelOrder` the invariant of the queue is
  `Swept`: below the nodes in it are exactly those not printed, once each, and
  their depths differ by at most one. `InorderTree`, `HeightsTree`, `RbDepths`
  and `LevelTree` say that the operators of the invariant compute what `Links`,
  `Parents` and `Plain` say.

The three specifications are those of the run `structures`: a step of
`StructuresNext` with that structure chosen is a step of `MedianNext`, `AvlNext` or
`RbNext`.

Only model-checked: all liveness (`Terminates`, `ReleasedReturn`, `CallsReturn`,
`ServerResponds`, `SearchEnds`, `AlarmsRing`, `ContinueResumes`, `SuspendReturns`,
`ProgramsEnd`), since fairness is out of the prover's reach; and the data
structures `TreeInv`, `SetOfKeysKept` and `HeapInv`. The operators of the 2-3 tree
and of the binomial heap recur over a tree or a list of trees with RECURSIVE, which
the prover cannot use; a proof would need them rewritten by rounds, as `AvlTree` and
`RedBlackTree` are. Random simulation with larger bounds (`MaxKeys` 40,
`MaxCalls` 8; `HeapNodes` and `SmallHeap` 30, keys -2 to 2) found no violation of
them.

## 6. What the models leave out

Printing, prompts and the text of messages; failures of mutex and initialisation
calls; memory allocation failing; scheduling attributes; the contents of files but
for whether they match; names and lengths of paths; times below a second.

Calls that fail and after which the code goes on are in the models: the waits of
`workq.c`, `barrier.c`, `crew.c` and `cond.c`; `pthread_create` in `workq.c`,
`cond.c` and `trylock.c`; `opendir` and `lstat`; `accept`, `fork` and
`send`; input and threads ending. A wait whose failure is only printed, or not looked at, and which is
made again (`alarm_cond.c`, `condition.c`, the workers of `crew.c`) has the effect
of a wakeup nobody sent. These are taken to succeed, and nothing
is claimed of what follows when they do not: the wait in `pipe_send` (`pipe.c:78-82`);
the creations in `condition.c:97-99`, `mutex-1.c:135`, `semaOrder.c:38`,
`pipe.c:204`, `alarm_mutex.c:69` and `alarm_cond.c:130`; and the unchecked system
calls before the first `accept` of `socket-server.c`. Main's read of `increment` at
`barrier_main.c:168`, which races with the updater, is printed only and left out, and
the model of the Qt program ends where main enters the event loop.

### Not modelled

* Pure functions of one input under `computation/` and in the training headers:
  the list algorithms (reversal in groups, merging, addition, cycles), tree
  algorithms, array, graph and dynamic-programming ones. They keep no state from
  one call to the next, so a model would be the algorithm and a reference
  definition beside it. The threaded tree and cuckoo hashing are built and walked
  once by their `main`. These are what is left to do.
* Programs with nothing to interleave: `alarm.c`, thread creation and attributes,
  mutexes created and no more, handlers that set a flag in a single thread,
  environment and pointers; files, message queues, shared memory and sockets used
  by one call each; the other servers and clients, which are variants of the
  modelled ones.
* Language notes, Qt's event loop, shell exercises, project files: no state of the
  program's own.
* `errors.h`: what it aborts is the end of the program in every model.

## 7. Plan

1. Done: the eight larger programs, in the order of their importance; the small
   programs of threads and processes; the five data structures; theorems for every
   safety invariant and refinement the runs check, but for two of the data
   structures.
2. Theorems next: the binomial heap and the 2-3 tree, along the argument of the
   red-black tree (conditions on each node, and the nodes below it); what the barrier
   does once the cycle no longer fits an int; action properties of the libraries
   (what a step may never do) from the invariants proved; the safety part of the
   liveness properties (that whoever waits has somebody coming for it) where no
   invariant states it yet.
3. Algorithms of `computation/` as operators checked against reference definitions
   over all small inputs: threaded tree, cuckoo hashing, then the lists, trees,
   arrays and graphs.
