--------------------------------- MODULE Crew ---------------------------------
(***************************************************************************)
(* The work crew of crew.c: workers share a queue of paths; a directory's  *)
(* entries become new work, and crew_start waits until the count of work   *)
(* outstanding is 0.  The crew's mutex is held only inside an action.      *)
(*                                                                         *)
(* A work item is a path with the call of crew_start it belongs to (its    *)
(* search string).  The file system is a constant tree; what fails and     *)
(* what disappears between two calls is chosen, MaxFailures times.         *)
(***************************************************************************)
EXTENDS Integers, Sequences, FiniteSets

CONSTANTS
  Workers,      \* the threads crew_create makes
  Callers,      \* the threads that call crew_start, main in the program
  Paths,        \* paths
  Kind,         \* Kind[p]: what lstat says of p
  Entries,      \* Entries[p]: the entries of directory p but . and ..
  Root,         \* Root[c]: the path caller c searches
  Matching,     \* the files that contain the search string
  MaxFailures,  \* failing calls of the system
  None          \* no work item

Kinds == {"link", "dir", "file", "other"}
Items == Callers \X Paths

ASSUME CrewAssumption ==
  /\ IsFiniteSet(Workers) /\ IsFiniteSet(Callers)
  /\ Kind \in [Paths -> Kinds]
  /\ Entries \in [Paths -> SUBSET Paths]
  /\ Root \in [Callers -> Paths]
  /\ Matching \subseteq Paths
  /\ MaxFailures \in Nat
  /\ None \notin Items

\* An entry's path is its directory's with "/" and a name added: a path is the
\* entry of one directory at most, and of any paths one is no entry of another.
ASSUME TreeAssumption ==
  /\ \A p, q \in Paths : p # q => Entries[p] \cap Entries[q] = {}
  /\ \A S \in (SUBSET Paths) \ {{}} : \E p \in S : \A q \in S : p \notin Entries[q]

VARIABLES
  queue,        \* crew->first .. last
  work_count,   \* crew->work_count
  worker, work, \* where each worker is and the item it has
  unread,       \* entries of the directory a worker reads that are to come
  caller,       \* where each caller is
  failures,     \* failures so far
  dropped,      \* items left by the continue after a failed opendir
  served, found \* items processed, and those whose file matched

qvars == <<queue, work_count>>
vars == <<qvars, worker, work, unread, caller, failures, dropped, served, found>>

\* crew_create.
Init ==
  /\ queue = <<>>
  /\ work_count = 0
  /\ worker = [w \in Workers |-> "start"]
  /\ work = [w \in Workers |-> None]
  /\ unread = [w \in Workers |-> {}]
  /\ caller = [c \in Callers |-> "call"]
  /\ failures = 0
  /\ dropped = 0
  /\ served = {} /\ found = {}

Fail == failures < MaxFailures /\ failures' = failures + 1

\* Workers asleep on go, in the first wait or in the one at the loop's top.
Asleep == {w \in Workers : worker[w] \in {"gowait", "topwait"}}

Wake(p) == CASE p = "gowait" -> "start" [] p = "topwait" -> "top" [] OTHER -> p

\* pthread_cond_signal on go wakes some sleeper if there is one.
SignalGo(v) ==
  IF Asleep = {} THEN worker' = v
  ELSE \E w \in Asleep : worker' = [v EXCEPT ![w] = Wake(@)]

-----------------------------------------------------------------------------
(* worker_routine.                                                         *)

\* The wait for the first work.
WorkerStart(w) ==
  /\ worker[w] = "start"
  /\ worker' = [worker EXCEPT ![w] = IF work_count = 0 THEN "gowait" ELSE "top"]
  /\ UNCHANGED <<qvars, work, unread, caller, failures, dropped, served, found>>

WorkerWait(w) ==
  /\ worker[w] = "top"
  /\ queue = <<>>
  /\ worker' = [worker EXCEPT ![w] = "topwait"]
  /\ UNCHANGED <<qvars, work, unread, caller, failures, dropped, served, found>>

WorkerTake(w) ==
  /\ worker[w] = "top"
  /\ queue # <<>>
  /\ work' = [work EXCEPT ![w] = Head(queue)]
  /\ queue' = Tail(queue)
  /\ worker' = [worker EXCEPT ![w] = "busy"]
  /\ UNCHANGED <<work_count, unread, caller, failures, dropped, served, found>>

\* The branches on the file's type.  A link or another type is skipped; a
\* directory is opened; a file is searched, if it can be opened.
Process(w, kind, fails) ==
  LET item == work[w]  path == item[2] IN
  \/ /\ kind \in {"link", "other"} /\ ~fails
     /\ worker' = [worker EXCEPT ![w] = "finish"]
     /\ served' = served \cup {item}
     /\ UNCHANGED <<work, unread, dropped, found>>
  \/ /\ kind = "file"
     /\ worker' = [worker EXCEPT ![w] = "finish"]
     /\ served' = served \cup {item}
     /\ found' = IF path \in Matching /\ ~fails THEN found \cup {item} ELSE found
     /\ UNCHANGED <<work, unread, dropped>>
  \/ /\ kind = "dir" /\ ~fails
     /\ worker' = [worker EXCEPT ![w] = "reading"]
     /\ unread' = [unread EXCEPT ![w] = Entries[path]]
     /\ UNCHANGED <<work, dropped, served, found>>
  \/ /\ kind = "dir" /\ fails     \* continue: back to the loop's top
     /\ worker' = [worker EXCEPT ![w] = "top"]
     /\ work' = [work EXCEPT ![w] = None]
     /\ dropped' = dropped + 1
     /\ UNCHANGED <<unread, served, found>>

WorkerProcess(w) ==
  /\ worker[w] = "busy"
  /\ Process(w, Kind[work[w][2]], FALSE)
  /\ UNCHANGED <<qvars, caller, failures>>

\* opendir or fopen fails.
WorkerOpenFails(w) ==
  /\ worker[w] = "busy"
  /\ Fail
  /\ Process(w, Kind[work[w][2]], TRUE)
  /\ UNCHANGED <<qvars, caller>>

\* The path has disappeared: lstat fails, its status is not looked at, and
\* filestat is undefined or what the last item left in it.
WorkerVanished(w) ==
  /\ worker[w] = "busy"
  /\ Fail
  /\ \E kind \in Kinds : Process(w, kind, kind \in {"dir", "file"})
  /\ UNCHANGED <<qvars, caller>>

\* Faulty variant: nobody is told of the new item.
WorkerEntryQuiet(w) ==
  /\ worker[w] = "reading"
  /\ \E p \in unread[w] :
       /\ unread' = [unread EXCEPT ![w] = @ \ {p}]
       /\ queue' = Append(queue, <<work[w][1], p>>)
  /\ work_count' = work_count + 1
  /\ UNCHANGED <<worker, work, caller, failures, dropped, served, found>>

\* readdir_r returns an entry, in any order, which is queued as new work.
WorkerEntry(w) ==
  /\ worker[w] = "reading"
  /\ \E p \in unread[w] :
       /\ unread' = [unread EXCEPT ![w] = @ \ {p}]
       /\ queue' = Append(queue, <<work[w][1], p>>)
  /\ work_count' = work_count + 1
  /\ SignalGo(worker)
  /\ UNCHANGED <<work, caller, failures, dropped, served, found>>

\* The end of the directory, or an error of readdir_r, which ends the loop.
WorkerDirDone(w) ==
  /\ worker[w] = "reading"
  /\ IF unread[w] = {} THEN UNCHANGED failures ELSE Fail
  /\ unread' = [unread EXCEPT ![w] = {}]
  /\ worker' = [worker EXCEPT ![w] = "finish"]
  /\ served' = served \cup {work[w]}
  /\ UNCHANGED <<qvars, work, caller, dropped, found>>

\* Faulty variant: only one of those who wait for the crew is woken.
SignalDone ==
  IF \E c \in Callers : caller[c] \in {"busywait", "collectwait"}
    THEN LET c == CHOOSE x \in Callers : caller[x] \in {"busywait", "collectwait"}
         IN  [caller EXCEPT ![c] = IF @ = "busywait" THEN "call" ELSE "collect"]
    ELSE caller

\* pthread_cond_broadcast on done.
BroadcastDone ==
  [c \in Callers |-> CASE caller[c] = "busywait" -> "call"
                       [] caller[c] = "collectwait" -> "collect"
                       [] OTHER -> caller[c]]

\* The item is counted out; the worker that brings the count to 0 wakes those
\* who wait for the crew and ends.
WorkerFinish(w) ==
  /\ worker[w] = "finish"
  /\ work_count' = work_count - 1
  /\ work' = [work EXCEPT ![w] = None]
  /\ \/ /\ work_count - 1 <= 0
        /\ caller' = BroadcastDone
        /\ worker' = [worker EXCEPT ![w] = "gone"]
     \/ /\ work_count - 1 > 0
        /\ worker' = [worker EXCEPT ![w] = "top"]
        /\ UNCHANGED caller
  /\ UNCHANGED <<queue, unread, failures, dropped, served, found>>

\* POSIX lets a wait return without a signal.
Spurious ==
  /\ \/ /\ \E w \in Asleep : worker' = [worker EXCEPT ![w] = Wake(@)]
        /\ UNCHANGED caller
     \/ /\ \E c \in Callers :
             /\ caller[c] \in {"busywait", "collectwait"}
             /\ caller' = [caller EXCEPT ![c] = IF @ = "busywait" THEN "call" ELSE "collect"]
        /\ UNCHANGED worker
  /\ UNCHANGED <<qvars, work, unread, failures, dropped, served, found>>

-----------------------------------------------------------------------------
(* crew_start.                                                             *)

\* The crew is busy.
StartBusy(c) ==
  /\ caller[c] = "call"
  /\ work_count > 0
  /\ caller' = [caller EXCEPT ![c] = "busywait"]
  /\ UNCHANGED <<qvars, worker, work, unread, failures, dropped, served, found>>

\* pathconf fails for a path that does not exist and the process aborts.
StartAborts(c) ==
  /\ caller[c] = "call"
  /\ work_count <= 0
  /\ Fail
  /\ caller' = [d \in Callers |-> "aborted"]
  /\ UNCHANGED <<qvars, worker, work, unread, dropped, served, found>>

Start(c) ==
  /\ caller[c] = "call"
  /\ work_count <= 0
  /\ queue' = Append(queue, <<c, Root[c]>>)
  /\ work_count' = work_count + 1
  /\ SignalGo(worker)
  /\ caller' = [caller EXCEPT ![c] = "collectwait"]
  /\ UNCHANGED <<work, unread, failures, dropped, served, found>>

\* Faulty variant: a wakeup is taken for the end of the search.
CollectOnce(c) ==
  /\ caller[c] = "collect"
  /\ caller' = [caller EXCEPT ![c] = "returned"]
  /\ UNCHANGED <<qvars, worker, work, unread, failures, dropped, served, found>>

Collect(c) ==
  /\ caller[c] = "collect"
  /\ caller' = [caller EXCEPT ![c] = IF work_count > 0 THEN "collectwait" ELSE "returned"]
  /\ UNCHANGED <<qvars, worker, work, unread, failures, dropped, served, found>>

\* The wait of crew_start fails: before the search it returns the error, after
\* it has queued its work the process aborts.
CallerWaitFails(c) ==
  /\ Fail
  /\ \/ caller[c] = "busywait" /\ caller' = [caller EXCEPT ![c] = "failed"]
     \/ caller[c] = "collectwait" /\ caller' = [d \in Callers |-> "aborted"]
  /\ UNCHANGED <<qvars, worker, work, unread, dropped, served, found>>

-----------------------------------------------------------------------------
WorkerStep(w) ==
  \/ WorkerStart(w) \/ WorkerWait(w) \/ WorkerTake(w) \/ WorkerProcess(w)
  \/ WorkerOpenFails(w) \/ WorkerVanished(w) \/ WorkerEntry(w) \/ WorkerDirDone(w)
  \/ WorkerFinish(w)

CallerStep(c) == StartBusy(c) \/ StartAborts(c) \/ Start(c) \/ Collect(c)

Next ==
  /\ \A c \in Callers : caller[c] # "aborted"
  /\ \/ \E w \in Workers : WorkerStep(w)
     \/ \E c \in Callers : CallerStep(c) \/ CallerWaitFails(c)
     \/ Spurious

Spec == Init /\ [][Next]_vars

\* Workers and callers are scheduled and get the mutex.
FairSpec ==
  /\ Spec
  /\ \A w \in Workers : WF_vars((\A c \in Callers : caller[c] # "aborted") /\ WorkerStep(w))
  /\ \A c \in Callers : WF_vars((\A d \in Callers : caller[d] # "aborted") /\ CallerStep(c))

-----------------------------------------------------------------------------
(* Properties.                                                             *)

\* Type invariant.
TypeOK ==
  /\ queue \in Seq(Items)
  /\ work_count \in Nat
  /\ worker \in [Workers -> {"start", "gowait", "top", "topwait", "busy", "reading", "finish",
                             "gone"}]
  /\ work \in [Workers -> Items \cup {None}]
  /\ unread \in [Workers -> SUBSET Paths]
  /\ caller \in [Callers -> {"call", "busywait", "collectwait", "collect", "returned",
                             "failed", "aborted"}]
  /\ failures \in 0..MaxFailures
  /\ dropped \in 0..MaxFailures
  /\ served \subseteq Items /\ found \subseteq served

Busy == {w \in Workers : worker[w] \in {"busy", "reading", "finish"}}
Ready == {w \in Workers : worker[w] \in {"start", "top"}}

\* crew->work_count is the work queued and in progress, and the items dropped
\* when a directory could not be opened.
CountMatches == work_count = Len(queue) + Cardinality(Busy) + dropped

\* No lost wakeup on go, which workers wait on for two different reasons: with
\* more items queued than workers about to look for one, no worker sleeps.
AllHandsOnWork == Len(queue) > Cardinality(Ready) => Asleep = {}

Gone == {w \in Workers : worker[w] = "gone"}

\* The calls of crew_start that have queued their work.
Started == {c \in Callers : caller[c] \in {"collectwait", "collect", "returned"}}

\* The break of worker_routine costs the crew one worker for each search: as
\* many have ended as searches are over, so a crew serves as many calls of
\* crew_start as it has workers and no more.
OneWorkerPerSearch ==
  (\A c \in Callers : caller[c] # "aborted") =>
    Cardinality(Gone) + (IF work_count > 0 THEN 1 ELSE 0) = Cardinality(Started)

\* The state of the crew at any moment: well typed, with an exact count, all the
\* workers awake that the queue needs, and a worker less for each search made.
CrewInv == TypeOK /\ CountMatches /\ AllHandsOnWork /\ OneWorkerPerSearch

\* What a search should visit, the tree below the caller's path: what is in every
\* set of paths that has this path and with each directory its entries.
Below(p) ==
  {q \in Paths :
    \A S \in SUBSET Paths :
      p \in S /\ (\A r \in S : Kind[r] = "dir" => Entries[r] \subseteq S) => q \in S}

\* crew_start returns only when its search is over, whatever has failed: none
\* of its items is queued or in progress, then or later.
SearchOver ==
  \A c \in Callers : caller[c] = "returned" =>
    /\ \A i \in 1..Len(queue) : queue[i][1] # c
    /\ \A w \in Busy : work[w][1] # c

\* crew_start returns only when its search is over, and if no call has failed
\* every path below has then been visited and every matching file reported.
SearchComplete ==
  SearchOver /\ \A c \in Callers : caller[c] = "returned" /\ failures = 0 =>
    \A p \in Below(Root[c]) :
      /\ <<c, p>> \in served
      /\ Kind[p] = "file" /\ p \in Matching => <<c, p>> \in found

\* No item is processed twice or by two workers.
EachItemOnce ==
  /\ \A i, j \in 1..Len(queue) : queue[i] = queue[j] => i = j
  /\ \A v, w \in Busy : work[v] = work[w] => v = w
  /\ \A i \in 1..Len(queue) : queue[i] \notin served /\ \A w \in Busy : work[w] # queue[i]
  /\ \A w \in Busy : work[w] \in served => worker[w] = "finish"

\* A search visits everything below its path, and each of it once.
SearchExact == SearchComplete /\ EachItemOnce

\* Every search ends, unless a directory that cannot be opened was dropped (its
\* item stays counted, and crew_start waits for ever), a wait failed, or every
\* worker has ended: the worker that finishes a search leaves its loop, so after
\* as many searches as workers the next crew_start queues its work for nobody.
SearchEnds ==
  \A c \in Callers :
    caller[c] = "call" ~>
      \/ caller[c] \in {"returned", "failed", "aborted"}
      \/ dropped > 0
      \/ Gone = Workers
=============================================================================
