--------------------------- MODULE TtyServerProofs ---------------------------
(***************************************************************************)
(* Proofs about TtyServer, for any number of clients, lines written for    *)
(* each line read, and lines of input.                                     *)
(***************************************************************************)
EXTENDS TtyServer, FiniteSets, FiniteSetTheorems, TLAPS

\* The request a caller waits for: a client's prompt, main's request to quit.
SyncOf(c) == RequestOf(c, IF c = Main THEN "QUIT" ELSE "READ", 0)
Waits(c) == client[c] \in {"reply", "woken"}

Spots == {"none", "read", "reply", "woken", "write", "leave", "gone",
          "create", "waiting", "recheck", "quit", "exit"}

\* Requests the server has not dealt with.
Pending == Queued \cup InHand

\* Lines a client had asked for before the round of lines it is in.
Base(c) == asked[c] - loops[c]

\* r may be served before s: if both are of one caller, r is a line, and an
\* earlier one than s when s is a line.
Ahead(r, s) ==
  r.by = s.by => r.operation = "WRITE" /\ (s.operation = "WRITE" => r.loop < s.loop)

\* The queue, and before it the request in the server's hands, is in order.
InOrder ==
  /\ \A i, j \in 1..Len(queue) : i < j => Ahead(queue[i], queue[j])
  /\ server \in {"serve", "signal"} => \A i \in 1..Len(queue) : Ahead(current, queue[i])

\* The lines pending for a client are exactly those of its round, asked for and
\* not written: earlier rounds are out.
Writes ==
  /\ \A r \in Pending :
       r.operation = "WRITE" =>
         /\ r.by \in Clients
         /\ Len(output[r.by]) <= Base(r.by) + r.loop
         /\ r.loop < loops[r.by]
  /\ \A c \in Clients, k \in 0..Loops - 1 :
       Len(output[c]) <= Base(c) + k /\ k < loops[c] => RequestOf(c, "WRITE", k) \in Pending
  /\ \A c \in Clients : Base(c) <= Len(output[c]) /\ Len(output[c]) <= asked[c]

\* A synchronous request is pending exactly while its caller waits without an
\* answer; who has its answer has all its lines written, and main's comes last.
Replies ==
  /\ \A r \in Pending : Synchronous(r) => r = SyncOf(r.by) /\ Waits(r.by) /\ r.by \notin done
  /\ \A c \in Callers : Waits(c) /\ c \notin done => SyncOf(c) \in Pending
  /\ \A c \in Callers : client[c] = "reply" => c \notin done
  /\ \A c \in Clients : Waits(c) /\ c \in done => Len(output[c]) = asked[c]
  /\ Main \in done => server = "exited"

\* Where callers and server can be, and how far a client then is in its round.
Places ==
  /\ \A c \in Clients :
       \/ client[c] \in {"none", "leave", "gone"} /\ loops[c] = 0
       \/ client[c] \in {"read", "reply", "woken"} /\ loops[c] \in {0, Loops}
       \/ client[c] = "write" /\ loops[c] < Loops
  /\ client[Main] \in {"create", "recheck", "waiting", "quit", "reply", "woken", "exit"}
  /\ client[Main] \in {"quit", "reply", "woken", "exit"} => client_threads = 0
  /\ running = 0 <=> server = "none"
  /\ server = "signal" => Synchronous(current)
  /\ \A c \in Clients : c >= count => client[c] = "none"
  /\ server = "waiting" => queue = <<>>
  /\ client[Main] = "waiting" => client_threads > 0
  /\ client[Main] = "exit" => server = "exited"

\* client_threads counts the clients that have not ended.
Gone == {c \in Clients : client[c] = "gone"}
Counted == client_threads = CLIENT_THREADS - Cardinality(Gone)

\* Rounds are complete, and the lines come out numbered within their round.
Rounds ==
  /\ \A c \in Clients : \E n \in Nat : Base(c) = n * Loops
  /\ \A c \in Clients : \A k \in 1..Len(output[c]) : output[c][k] = (k - 1) % Loops

\* Who has an answer and has not yet picked it up.
Unclaimed == {c \in done : Waits(c)}

\* The inductive invariant.
ServerInv ==
  /\ TypeOK /\ RequestMemory
  /\ InOrder /\ Writes /\ Replies /\ Places /\ Counted /\ Rounds

-----------------------------------------------------------------------------
(* Arithmetic of rounds.                                                   *)

\* The place of a request in its round.
LEMMA RoundMod ==
  ASSUME NEW n \in Nat, NEW k \in 0..Loops - 1
  PROVE  (n * Loops + k) % Loops = k
  BY TtyAssumption, Z3

\* The next round starts where one ends.
LEMMA NextRound ==
  ASSUME NEW n \in Nat
  PROVE  n * Loops + Loops = (n + 1) * Loops
  BY TtyAssumption, Z3

\* Who calls the server.
LEMMA CallersFacts ==
  /\ Clients \subseteq Nat /\ Main \notin Clients /\ Main \in Callers /\ Clients \subseteq Callers
  /\ \A c \in Callers : c \in Clients \/ c = Main
  BY TtyAssumption DEF Clients, Main, Callers

\* What a request made by a caller is.
LEMMA RequestFacts ==
  ASSUME NEW c \in Callers, NEW operation \in {"READ", "WRITE", "QUIT"}, NEW n \in 0..Loops - 1
  PROVE  /\ RequestOf(c, operation, n) \in Requests
         /\ RequestOf(c, operation, n).by = c
         /\ RequestOf(c, operation, n).operation = operation
         /\ RequestOf(c, operation, n).loop = n
  BY DEF RequestOf, Requests

\* A request is what its three fields say.
LEMMA RequestIs ==
  ASSUME NEW r \in Requests
  PROVE  /\ r.by \in Callers /\ r.operation \in {"READ", "WRITE", "QUIT"} /\ r.loop \in 0..Loops - 1
         /\ r = RequestOf(r.by, r.operation, r.loop)
  BY DEF RequestOf, Requests

\* The synchronous request of a caller.
LEMMA SyncFacts ==
  ASSUME NEW c \in Callers
  PROVE  /\ SyncOf(c) \in Requests /\ SyncOf(c).by = c /\ Synchronous(SyncOf(c))
         /\ SyncOf(c).loop = 0
         /\ c \in Clients => SyncOf(c) = RequestOf(c, "READ", 0)
         /\ SyncOf(Main) = RequestOf(Main, "QUIT", 0)
  BY CallersFacts, TtyAssumption DEF SyncOf, RequestOf, Requests, Synchronous

-----------------------------------------------------------------------------
(* The queue.                                                              *)

\* A request is put at the end of the queue.
LEMMA QueueAppend ==
  ASSUME NEW r \in Requests, queue \in Seq(Requests), queue' = Append(queue, r)
  PROVE  /\ queue' \in Seq(Requests) /\ queue' # <<>>
         /\ Queued' = Queued \cup {r}
         /\ Len(queue') = Len(queue) + 1 /\ queue'[Len(queue) + 1] = r
         /\ \A i \in 1..Len(queue) : queue'[i] = queue[i]
  <1>1. /\ queue' \in Seq(Requests)
        /\ Len(queue') = Len(queue) + 1 /\ queue'[Len(queue) + 1] = r
        /\ \A i \in 1..Len(queue) : queue'[i] = queue[i]
    OBVIOUS
  <1>2. Len(queue) \in Nat
    OBVIOUS
  <1>3. Queued' = Queued \cup {r}
    BY <1>1, <1>2 DEF Queued
  <1> QED  BY <1>1, <1>2, <1>3

\* The server takes the first request.
LEMMA QueueTake ==
  ASSUME queue \in Seq(Requests), queue # <<>>, queue' = Tail(queue)
  PROVE  /\ queue' \in Seq(Requests) /\ Head(queue) \in Requests
         /\ Queued = Queued' \cup {Head(queue)}
         /\ Head(queue) = queue[1] /\ 1 \in 1..Len(queue)
         /\ Len(queue') = Len(queue) - 1 /\ Len(queue') \in Nat
         /\ \A i \in 1..Len(queue') : queue'[i] = queue[i + 1] /\ i + 1 \in 1..Len(queue)
  <1>1. /\ queue' \in Seq(Requests) /\ Head(queue) \in Requests
        /\ Head(queue) = queue[1] /\ 1 \in 1..Len(queue)
        /\ Len(queue') = Len(queue) - 1 /\ Len(queue') \in Nat
    OBVIOUS
  <1>2. \A i \in 1..Len(queue') : queue'[i] = queue[i + 1] /\ i + 1 \in 1..Len(queue)
    BY <1>1
  <1>3. Len(queue) \in Nat
    OBVIOUS
  <1>4. \A j \in 1..Len(queue) : j = 1 \/ (j - 1 \in 1..Len(queue') /\ queue'[j - 1] = queue[j])
    BY <1>1, <1>2, <1>3
  <1>5. Queued = Queued' \cup {Head(queue)}
    BY <1>1, <1>2, <1>4 DEF Queued
  <1> QED  BY <1>1, <1>2, <1>5

\* What tty_server_request does to the queue, when nothing of the caller that
\* is pending has to come after the request.
LEMMA RequestEffect ==
  ASSUME TypeOK, InOrder, running = 0 <=> server = "none",
         NEW r \in Requests, Request(r),
         \A s \in Pending : Ahead(s, r)
  PROVE  /\ queue' \in Seq(Requests) /\ running' = 1
         /\ server' \in {"top", "woken", "serve", "signal", "exited"}
         /\ server' = "exited" <=> server = "exited"
         /\ server' = "signal" <=> server = "signal"
         /\ server' = "serve" <=> server = "serve"
         /\ Queued' = Queued \cup {r} /\ InHand' = InHand
         /\ Pending' = Pending \cup {r}
         /\ live' = live \cup {r} /\ live' \subseteq Requests
         /\ current' = current
         /\ InOrder'
  <1>1. /\ queue' = Append(queue, r) /\ current' = current /\ running' = 1
        /\ live' = live \cup {r}
        /\ server' = IF running = 0 THEN "top"
                     ELSE IF server = "waiting" THEN "woken" ELSE server
    BY DEF Request
  <1>2. /\ queue' \in Seq(Requests) /\ Queued' = Queued \cup {r}
        /\ Len(queue') = Len(queue) + 1 /\ queue'[Len(queue) + 1] = r
        /\ \A i \in 1..Len(queue) : queue'[i] = queue[i]
    BY <1>1, QueueAppend DEF TypeOK
  <1>3. /\ server' \in {"top", "woken", "serve", "signal", "exited"}
        /\ server' = "exited" <=> server = "exited"
        /\ server' = "signal" <=> server = "signal"
        /\ server' = "serve" <=> server = "serve"
    BY <1>1 DEF TypeOK
  <1>4. InHand' = InHand
    BY <1>1, <1>3 DEF InHand
  <1>5. Pending' = Pending \cup {r}
    BY <1>2, <1>4 DEF Pending
  <1>6. InOrder'
    <2>1. ASSUME NEW i \in 1..Len(queue'), NEW j \in 1..Len(queue'), i < j
          PROVE  Ahead(queue'[i], queue'[j])
      <3>1. Len(queue) \in Nat /\ i \in 1..Len(queue)
        BY <1>2, <2>1 DEF TypeOK
      <3>2. CASE j \in 1..Len(queue)
        BY <1>2, <2>1, <3>1, <3>2 DEF InOrder
      <3>3. CASE j = Len(queue) + 1
        BY <1>2, <3>1, <3>3 DEF Pending, Queued
      <3> QED  BY <1>2, <3>1, <3>2, <3>3
    <2>2. ASSUME server' \in {"serve", "signal"}, NEW i \in 1..Len(queue')
          PROVE  Ahead(current', queue'[i])
      <3>1. Len(queue) \in Nat /\ server \in {"serve", "signal"}
        BY <1>3, <2>2 DEF TypeOK
      <3>2. CASE i \in 1..Len(queue)
        BY <1>1, <1>2, <3>1, <3>2 DEF InOrder
      <3>3. CASE i = Len(queue) + 1
        BY <1>1, <1>2, <3>1, <3>3 DEF Pending, InHand
      <3> QED  BY <1>2, <3>1, <3>2, <3>3
    <2> QED  BY <2>1, <2>2, Zenon DEF InOrder, Ahead
  <1> QED  BY <1>1, <1>2, <1>3, <1>4, <1>5, <1>6 DEF TypeOK

\* The server takes the first request: nothing pending is lost or reordered.
LEMMA TakeEffect ==
  ASSUME TypeOK, InOrder, server \in {"top", "woken"}, queue # <<>>,
         server' = "serve", current' = Head(queue), queue' = Tail(queue)
  PROVE  /\ queue' \in Seq(Requests) /\ current' \in Requests
         /\ Pending' = Pending /\ Pending' = Queued' \cup InHand' /\ Pending = Queued \cup InHand
         /\ InOrder'
  <1>1. /\ queue' \in Seq(Requests) /\ Head(queue) \in Requests
        /\ Queued = Queued' \cup {Head(queue)}
        /\ Head(queue) = queue[1] /\ 1 \in 1..Len(queue)
        /\ Len(queue') = Len(queue) - 1 /\ Len(queue') \in Nat
        /\ \A i \in 1..Len(queue') : queue'[i] = queue[i + 1] /\ i + 1 \in 1..Len(queue)
    BY QueueTake DEF TypeOK
  <1>2. InHand = {} /\ InHand' = {Head(queue)}
    BY DEF InHand
  <1>3. Pending' = Pending
    BY <1>1, <1>2 DEF Pending
  <1>4. InOrder'
    <2>1. ASSUME NEW i \in 1..Len(queue'), NEW j \in 1..Len(queue'), i < j
          PROVE  Ahead(queue'[i], queue'[j])
      <3>1. i + 1 < j + 1
        BY <2>1, <1>1
      <3> QED  BY <1>1, <3>1 DEF InOrder
    <2>2. ASSUME NEW i \in 1..Len(queue')
          PROVE  Ahead(current', queue'[i])
      <3>1. 1 < i + 1
        BY <1>1
      <3> QED  BY <1>1, <3>1 DEF InOrder
    <2> QED  BY <2>1, <2>2, Zenon DEF InOrder, Ahead
  <1> QED  BY <1>1, <1>3, <1>4 DEF Pending

-----------------------------------------------------------------------------
(* Consequences of the invariant in one state.                             *)

\* The request in hand is not queued too.
LEMMA NotTwice ==
  ASSUME TypeOK, InOrder, server \in {"serve", "signal"}
  PROVE  current \notin Queued
  BY DEF TypeOK, InOrder, Queued, Ahead, Requests

\* When the server holds a client's prompt, the client's lines are all out.
LEMMA PromptLast ==
  ASSUME TypeOK, InOrder, Writes, NEW c \in Clients,
         server \in {"serve", "signal"}, current.by = c, current.operation # "WRITE"
  PROVE  Len(output[c]) = asked[c]
  <1>1. \A k \in 0..Loops - 1 : RequestOf(c, "WRITE", k) \notin Pending
    <2> SUFFICES ASSUME NEW k \in 0..Loops - 1, RequestOf(c, "WRITE", k) \in Pending
                 PROVE  FALSE
      OBVIOUS
    <2> DEFINE w == RequestOf(c, "WRITE", k)
    <2>1. w.by = c /\ w.operation = "WRITE"
      BY DEF RequestOf
    <2>2. w # current
      BY <2>1
    <2>3. w \in Queued
      BY <2>2 DEF Pending, InHand
    <2>4. Ahead(current, w)
      BY <2>3 DEF InOrder, Queued
    <2> QED  BY <2>1, <2>4 DEF Ahead
  <1>2. loops[c] \in 0..Loops /\ asked[c] \in Nat /\ Len(output[c]) \in Nat
    BY DEF TypeOK
  <1>3. Base(c) <= Len(output[c]) /\ Len(output[c]) <= asked[c]
    BY DEF Writes
  <1>4. \A k \in 0..Loops - 1 : ~(Len(output[c]) <= Base(c) + k /\ k < loops[c])
    BY <1>1 DEF Writes
  <1>5. ~(Len(output[c]) - Base(c) < loops[c])
    <2>1. SUFFICES ASSUME Len(output[c]) - Base(c) < loops[c]
                   PROVE  FALSE
      OBVIOUS
    <2>2. Len(output[c]) - Base(c) \in 0..Loops - 1
      BY <2>1, <1>2, <1>3, TtyAssumption DEF Base
    <2> QED  BY <2>1, <2>2, <1>2, <1>4 DEF Base
  <1> QED  BY <1>2, <1>3, <1>5 DEF Base

\* The line in the server's hands is the client's next.
LEMMA NextLine ==
  ASSUME TypeOK, InOrder, Writes, server = "serve", current.operation = "WRITE"
  PROVE  /\ current.by \in Clients
         /\ current.loop = Len(output[current.by]) - Base(current.by)
         /\ current.loop < loops[current.by] /\ current.loop \in 0..Loops - 1
  <1> DEFINE c == current.by
             k == Len(output[c]) - Base(c)
             w == RequestOf(c, "WRITE", k)
  <1>1. current \in Pending
    BY DEF Pending, InHand
  <1>2. c \in Clients /\ Len(output[c]) <= Base(c) + current.loop /\ current.loop < loops[c]
    BY <1>1 DEF Writes
  <1>3. /\ loops[c] \in 0..Loops /\ asked[c] \in Nat /\ Len(output[c]) \in Nat
        /\ current.loop \in 0..Loops - 1
    BY <1>2, RequestIs DEF TypeOK
  <1>3a. Base(c) <= Len(output[c])
    BY <1>2 DEF Writes
  <1>4. k \in 0..Loops - 1 /\ k <= current.loop /\ k < loops[c] /\ Len(output[c]) <= Base(c) + k
    <2> DEFINE out == Len(output[c])
               base == Base(c)
               l == current.loop
               m == loops[c]
    <2>1. Base(c) \in Int
      BY <1>3 DEF Base
    <2>2. /\ out \in Int /\ base \in Int /\ l \in Int /\ m \in Int /\ Loops \in Int
          /\ out <= base + l /\ l < m /\ m <= Loops /\ l <= Loops - 1 /\ base <= out
      BY <1>2, <1>3, <1>3a, <2>1, TtyAssumption
    <2> HIDE DEF out, base, l, m
    <2>3. /\ out - base \in 0..Loops - 1 /\ out - base <= l /\ out - base < m
          /\ out <= base + (out - base)
      BY ONLY <2>2
    <2> QED  BY <2>3 DEF out, base, l, m
  <1>5. w \in Pending
    BY <1>2, <1>4 DEF Writes
  <1>6. w.by = c /\ w.operation = "WRITE" /\ w.loop = k
    BY DEF RequestOf
  <1>7. w \in Queued => current.loop < k
    BY <1>6 DEF InOrder, Queued, Ahead
  <1>8. w = current
    BY <1>3, <1>4, <1>5, <1>7 DEF Pending, InHand
  <1> QED  BY <1>2, <1>3, <1>6, <1>8

\* RequestMemory in terms of what is pending.
LEMMA MemoryIs ==
  RequestMemory <=> live = Pending \cup {SyncOf(c) : c \in Unclaimed}
  BY DEF RequestMemory, Pending, Unclaimed, SyncOf, Waits

\* RequestMemory after a step.
LEMMA MemoryIsPrimed ==
  RequestMemory' <=> live' = Pending' \cup {SyncOf(c) : c \in Unclaimed'}
  BY DEF RequestMemory, Pending, Unclaimed, SyncOf, Waits

-----------------------------------------------------------------------------
(* The requests.                                                           *)

\* A client asks for a line.
LEMMA ReadStep ==
  ASSUME ServerInv, NEW c \in Clients, Read(c)
  PROVE  ServerInv'
  <1> DEFINE r == RequestOf(c, "READ", 0)
  <1>1. /\ TypeOK /\ RequestMemory /\ InOrder /\ Writes /\ Replies /\ Places /\ Counted /\ Rounds
    BY DEF ServerInv
  <1>2. /\ client[c] = "read" /\ Request(r)
        /\ client' = [client EXCEPT ![c] = "reply"] /\ line' = line \ {c}
        /\ UNCHANGED <<loops, client_threads, count, lines, asked, output>>
    BY DEF Read
  <1>3. /\ r \in Requests /\ r.by = c /\ r.operation = "READ" /\ Synchronous(r) /\ r = SyncOf(c)
        /\ c \in Callers /\ c # Main
    BY CallersFacts, SyncFacts, RequestFacts, TtyAssumption DEF Synchronous
  <1>4. \A s \in Pending : Ahead(s, r)
    BY <1>1, <1>2, <1>3 DEF Replies, Waits, Ahead, Synchronous
  <1> HIDE DEF r
  <1>5. /\ queue' \in Seq(Requests) /\ running' = 1
        /\ server' \in {"top", "woken", "serve", "signal", "exited"}
        /\ server' = "exited" <=> server = "exited"
        /\ server' = "signal" <=> server = "signal"
        /\ Pending' = Pending \cup {r}
        /\ live' = live \cup {r} /\ live' \subseteq Requests
        /\ current' = current
        /\ InOrder'
    BY <1>1, <1>2, <1>3, <1>4, RequestEffect DEF Places
  <1>6. done' = done \ {c}
    BY <1>2, <1>3 DEF Request
  <1>7. /\ client' \in [Callers -> Spots]
        /\ client'[c] = "reply" /\ \A d \in Callers : d # c => client'[d] = client[d]
    BY <1>1, <1>2, <1>3 DEF TypeOK, Spots
  <1>8. TypeOK'
    BY <1>1, <1>2, <1>5, <1>6, <1>7 DEF TypeOK, Spots
  <1>9. Writes'
    BY <1>1, <1>2, <1>3, <1>5 DEF Writes, Base
  <1>10. Replies'
    BY <1>1, <1>2, <1>3, <1>5, <1>6, <1>7, CallersFacts, RequestIs DEF Replies, Waits, TypeOK
  <1>11. Places'
    BY <1>1, <1>2, <1>3, <1>5, <1>7, CallersFacts DEF Places
  <1>12. Counted'
    <2>1. Gone' = Gone
      BY <1>2, <1>7, CallersFacts DEF Gone
    <2> QED  BY <1>1, <1>2, <2>1 DEF Counted
  <1>13. Rounds'
    BY <1>1, <1>2 DEF Rounds, Base
  <1>14. RequestMemory'
    <2>1. Unclaimed' = Unclaimed
      BY <1>1, <1>2, <1>3, <1>6, <1>7 DEF Unclaimed, Waits, TypeOK
    <2> QED  BY <1>1, <1>5, <2>1, MemoryIs, MemoryIsPrimed
  <1> QED  BY <1>5, <1>8, <1>9, <1>10, <1>11, <1>12, <1>13, <1>14 DEF ServerInv

\* A client asks for output.
LEMMA WriteStep ==
  ASSUME ServerInv, NEW c \in Clients, Write(c)
  PROVE  ServerInv'
  <1> DEFINE r == RequestOf(c, "WRITE", loops[c])
  <1>1. /\ TypeOK /\ RequestMemory /\ InOrder /\ Writes /\ Replies /\ Places /\ Counted /\ Rounds
    BY DEF ServerInv
  <1>2. /\ client[c] = "write" /\ Request(r)
        /\ loops' = [loops EXCEPT ![c] = @ + 1]
        /\ client' = [client EXCEPT ![c] = IF loops[c] + 1 < Loops THEN "write" ELSE "read"]
        /\ asked' = [asked EXCEPT ![c] = @ + 1]
        /\ UNCHANGED <<line, client_threads, count, lines, output>>
    BY DEF Write
  <1>3. /\ loops[c] \in 0..Loops - 1 /\ asked[c] \in Nat /\ Len(output[c]) \in Nat
        /\ c \in Callers /\ c # Main
    <2>1. loops[c] \in 0..Loops /\ asked[c] \in Nat /\ Len(output[c]) \in Nat
      BY <1>1 DEF TypeOK
    <2>2. loops[c] < Loops
      BY <1>1, <1>2 DEF Places
    <2> QED  BY <2>1, <2>2, CallersFacts, TtyAssumption
  <1>4. r \in Requests /\ r.by = c /\ r.operation = "WRITE" /\ r.loop = loops[c] /\ ~Synchronous(r)
    BY <1>3, RequestFacts DEF Synchronous
  <1>5. \A s \in Pending : Ahead(s, r)
    BY <1>1, <1>2, <1>3, <1>4 DEF Replies, Writes, Waits, Ahead, Synchronous
  <1> HIDE DEF r
  <1>6. /\ queue' \in Seq(Requests) /\ running' = 1
        /\ server' \in {"top", "woken", "serve", "signal", "exited"}
        /\ server' = "exited" <=> server = "exited"
        /\ server' = "signal" <=> server = "signal"
        /\ Pending' = Pending \cup {r}
        /\ live' = live \cup {r} /\ live' \subseteq Requests
        /\ current' = current
        /\ InOrder'
    BY <1>1, <1>2, <1>4, <1>5, RequestEffect DEF Places
  <1>7. done' = done
    BY <1>2, <1>4 DEF Request
  <1>8. /\ client' \in [Callers -> Spots] /\ client'[c] \in {"write", "read"}
        /\ client'[c] = "write" => loops[c] + 1 < Loops
        /\ client'[c] = "read" => loops[c] + 1 = Loops
        /\ \A d \in Callers : d # c => client'[d] = client[d]
    BY <1>1, <1>2, <1>3, TtyAssumption DEF TypeOK, Spots
  <1>9. /\ loops' \in [Clients -> 0..Loops] /\ loops'[c] = loops[c] + 1
        /\ \A d \in Clients : d # c => loops'[d] = loops[d]
    BY <1>1, <1>2, <1>3, TtyAssumption DEF TypeOK
  <1>10. /\ asked' \in [Clients -> Nat] /\ asked'[c] = asked[c] + 1
         /\ \A d \in Clients : d # c => asked'[d] = asked[d]
    BY <1>1, <1>2, <1>3 DEF TypeOK
  <1>11. \A d \in Clients : Base(d)' = Base(d)
    BY <1>1, <1>3, <1>9, <1>10 DEF Base
  <1>12. TypeOK'
    BY <1>1, <1>2, <1>6, <1>7, <1>8, <1>9, <1>10 DEF TypeOK, Spots
  <1>13. Writes'
    <2>1. ASSUME NEW s \in Pending', s.operation = "WRITE"
          PROVE  s.by \in Clients /\ Len(output[s.by]) <= Base(s.by) + s.loop /\ s.loop < loops'[s.by]
      <3>1. CASE s = r
        BY <1>1, <1>3, <1>4, <1>9, <3>1 DEF Writes, Base
      <3>2. CASE s \in Pending
        <4>1. s.by \in Clients /\ Len(output[s.by]) <= Base(s.by) + s.loop /\ s.loop < loops[s.by]
          BY <1>1, <2>1, <3>2 DEF Writes
        <4>2. s.loop \in Int
          BY <1>1, <1>12, <2>1, RequestIs, <3>2, MemoryIs DEF TypeOK
        <4> QED  BY <1>3, <1>9, <4>1, <4>2
      <3> QED  BY <1>6, <3>1, <3>2
    <2>2. ASSUME NEW d \in Clients, NEW k \in 0..Loops - 1, Len(output[d]) <= Base(d) + k, k < loops'[d]
          PROVE  RequestOf(d, "WRITE", k) \in Pending'
      <3>1. CASE k < loops[d]
        BY <1>1, <1>6, <2>2, <3>1 DEF Writes
      <3>2. CASE ~(k < loops[d])
        <4>1. d = c /\ k = loops[c]
          BY <1>3, <1>9, <2>2, <3>2
        <4> QED  BY <1>6, <4>1 DEF r
      <3> QED  BY <3>1, <3>2
    <2>3. \A d \in Clients : Base(d) <= Len(output[d]) /\ Len(output[d]) <= asked'[d]
      BY <1>1, <1>3, <1>10 DEF Writes
    <2>4. \A s \in Pending' : s.operation = "WRITE" => Base(s.by)' = Base(s.by)
      BY <2>1, <1>11
    <2> QED  BY <1>2, <1>11, <2>1, <2>2, <2>3, <2>4 DEF Writes
  <1>14. Replies'
    BY <1>1, <1>2, <1>3, <1>4, <1>6, <1>7, <1>8, <1>10, CallersFacts DEF Replies, Waits, TypeOK
  <1>15. Places'
    BY <1>1, <1>2, <1>3, <1>6, <1>8, <1>9, CallersFacts, TtyAssumption DEF Places
  <1>16. Counted'
    <2>1. Gone' = Gone
      BY <1>2, <1>8, CallersFacts DEF Gone
    <2> QED  BY <1>1, <1>2, <2>1 DEF Counted
  <1>17. Rounds'
    BY <1>1, <1>2, <1>11 DEF Rounds
  <1>18. RequestMemory'
    <2>1. Unclaimed' = Unclaimed
      BY <1>1, <1>2, <1>3, <1>7, <1>8 DEF Unclaimed, Waits, TypeOK
    <2> QED  BY <1>1, <1>6, <2>1, MemoryIs, MemoryIsPrimed
  <1> QED  BY <1>6, <1>12, <1>13, <1>14, <1>15, <1>16, <1>17, <1>18 DEF ServerInv

\* Once all clients have ended nothing of theirs is pending.
LEMMA AllGone ==
  ASSUME ServerInv, client_threads = 0
  PROVE  /\ \A c \in Clients : client[c] = "gone" /\ loops[c] = 0 /\ Len(output[c]) = asked[c]
         /\ \A r \in Pending : r.by = Main
  <1>1. Gone = Clients
    <2>1. IsFiniteSet(Clients) /\ Cardinality(Clients) = CLIENT_THREADS
      BY FS_Interval, TtyAssumption DEF Clients
    <2>2. Gone \subseteq Clients
      BY DEF Gone
    <2>3. IsFiniteSet(Gone) /\ Cardinality(Gone) \in Nat
      BY <2>1, <2>2, FS_Subset, FS_CardinalityType
    <2>4. Cardinality(Gone) = CLIENT_THREADS
      BY <2>3, TtyAssumption DEF ServerInv, Counted
    <2> QED  BY <2>1, <2>2, <2>4, FS_Subset
  <1>2. \A c \in Clients : client[c] = "gone"
    BY <1>1 DEF Gone
  <1>3. \A c \in Clients : loops[c] = 0
    BY <1>2 DEF ServerInv, Places
  <1>4. \A c \in Clients : Len(output[c]) = asked[c]
    BY <1>3 DEF ServerInv, Writes, Base, TypeOK
  <1>5. ASSUME NEW r \in Pending
        PROVE  r.by = Main
    <2>1. r \in Requests
      BY MemoryIs DEF ServerInv, TypeOK
    <2>2. CASE r.operation = "WRITE"
      BY <1>3, <2>1, <2>2, RequestIs DEF ServerInv, Writes
    <2>3. CASE r.operation # "WRITE"
      BY <1>2, <2>1, <2>3, RequestIs, CallersFacts DEF ServerInv, Replies, Waits, Synchronous
    <2> QED  BY <2>2, <2>3
  <1> QED  BY <1>2, <1>3, <1>4, <1>5

\* main asks the server to quit.
LEMMA QuitStep ==
  ASSUME ServerInv, Quit
  PROVE  ServerInv'
  <1> DEFINE r == RequestOf(Main, "QUIT", 0)
  <1>1. /\ TypeOK /\ RequestMemory /\ InOrder /\ Writes /\ Replies /\ Places /\ Counted /\ Rounds
    BY DEF ServerInv
  <1>2. /\ client[Main] = "quit" /\ Request(r)
        /\ client' = [client EXCEPT ![Main] = "reply"]
        /\ UNCHANGED <<line, loops, client_threads, count, lines, asked, output>>
    BY DEF Quit
  <1>3. /\ r \in Requests /\ r.by = Main /\ r.operation = "QUIT" /\ Synchronous(r) /\ r = SyncOf(Main)
        /\ Main \in Callers /\ Main \notin Clients
    BY CallersFacts, SyncFacts, RequestFacts, TtyAssumption DEF Synchronous
  <1>4. \A s \in Pending : Ahead(s, r)
    BY <1>1, <1>2, <1>3 DEF Replies, Waits, Ahead, Synchronous
  <1> HIDE DEF r
  <1>5. /\ queue' \in Seq(Requests) /\ running' = 1
        /\ server' \in {"top", "woken", "serve", "signal", "exited"}
        /\ server' = "exited" <=> server = "exited"
        /\ server' = "signal" <=> server = "signal"
        /\ Pending' = Pending \cup {r}
        /\ live' = live \cup {r} /\ live' \subseteq Requests
        /\ current' = current
        /\ InOrder'
    BY <1>1, <1>2, <1>3, <1>4, RequestEffect DEF Places
  <1>6. done' = done \ {Main}
    BY <1>2, <1>3 DEF Request
  <1>7. /\ client' \in [Callers -> Spots]
        /\ client'[Main] = "reply" /\ \A d \in Callers : d # Main => client'[d] = client[d]
    BY <1>1, <1>2, <1>3 DEF TypeOK, Spots
  <1>8. TypeOK'
    BY <1>1, <1>2, <1>5, <1>6, <1>7 DEF TypeOK, Spots
  <1>9. Writes'
    BY <1>1, <1>2, <1>3, <1>5 DEF Writes, Base
  <1>10. Replies'
    BY <1>1, <1>2, <1>3, <1>5, <1>6, <1>7, CallersFacts, RequestIs DEF Replies, Waits, TypeOK
  <1>11. Places'
    BY <1>1, <1>2, <1>3, <1>5, <1>7, CallersFacts DEF Places
  <1>12. Counted'
    <2>1. Gone' = Gone
      BY <1>2, <1>3, <1>7, CallersFacts DEF Gone
    <2> QED  BY <1>1, <1>2, <2>1 DEF Counted
  <1>13. Rounds'
    BY <1>1, <1>2 DEF Rounds, Base
  <1>14. RequestMemory'
    <2>1. Unclaimed' = Unclaimed
      BY <1>1, <1>2, <1>3, <1>6, <1>7 DEF Unclaimed, Waits, TypeOK
    <2> QED  BY <1>1, <1>5, <2>1, MemoryIs, MemoryIsPrimed
  <1> QED  BY <1>5, <1>8, <1>9, <1>10, <1>11, <1>12, <1>13, <1>14 DEF ServerInv

-----------------------------------------------------------------------------
(* The replies.                                                            *)

\* A caller that picks up its answer frees a request nobody else has.
LEMMA FreeEffect ==
  ASSUME ServerInv, NEW c \in Callers, Replied(c), Free(SyncOf(c)),
         client' \in [Callers -> Spots],
         client'[c] \notin {"reply", "woken"},
         \A d \in Callers : d # c => client'[d] = client[d]
  PROVE  RequestMemory' /\ Pending' = Pending /\ InOrder' /\ live' \subseteq Requests
  <1>1. live' = live \ {SyncOf(c)} /\ UNCHANGED <<queue, running, server, current, done>>
    BY DEF Free
  <1>2. Pending' = Pending
    BY <1>1 DEF Pending, Queued, InHand
  <1>3. InOrder'
    BY <1>1 DEF ServerInv, InOrder, Ahead
  <1>4. client[c] = "woken" /\ c \in done /\ done \subseteq Callers
    BY DEF Replied, ServerInv, TypeOK
  <1>5. SyncOf(c) \notin Pending
    BY <1>4, SyncFacts DEF ServerInv, Replies
  <1>6. Unclaimed' = Unclaimed \ {c}
    BY <1>1, <1>4 DEF Unclaimed, Waits
  <1>7. \A d \in Unclaimed : d # c => SyncOf(d) # SyncOf(c)
    BY <1>4, SyncFacts DEF Unclaimed
  <1>8. live = Pending \cup {SyncOf(d) : d \in Unclaimed}
    BY MemoryIs DEF ServerInv
  <1>9. live' = Pending' \cup {SyncOf(d) : d \in Unclaimed'}
    BY <1>1, <1>2, <1>5, <1>6, <1>7, <1>8
  <1> QED  BY <1>1, <1>2, <1>3, <1>9, MemoryIsPrimed DEF ServerInv, TypeOK

\* A client gets its line.
LEMMA ReadReturnStep ==
  ASSUME ServerInv, NEW c \in Clients, ReadReturn(c)
  PROVE  ServerInv'
  <1>1. /\ TypeOK /\ RequestMemory /\ InOrder /\ Writes /\ Replies /\ Places /\ Counted /\ Rounds
    BY DEF ServerInv
  <1>2. /\ c \in Callers /\ c # Main /\ SyncOf(c) = RequestOf(c, "READ", 0)
    BY CallersFacts, SyncFacts
  <1>3. /\ Replied(c) /\ Free(SyncOf(c)) /\ client[c] = "woken" /\ c \in done
        /\ client' = [client EXCEPT ![c] = IF c \in line THEN "write" ELSE "leave"]
        /\ loops' = [loops EXCEPT ![c] = 0]
        /\ UNCHANGED <<line, client_threads, count, lines, asked, output>>
        /\ UNCHANGED <<queue, running, server, current, done>>
    BY <1>2 DEF ReadReturn, Free, Replied
  <1>4. /\ client' \in [Callers -> Spots] /\ client'[c] \in {"write", "leave"}
        /\ \A d \in Callers : d # c => client'[d] = client[d]
    BY <1>1, <1>2, <1>3 DEF TypeOK, Spots
  <1>5. RequestMemory' /\ Pending' = Pending /\ InOrder' /\ live' \subseteq Requests
    BY <1>2, <1>3, <1>4, FreeEffect
  <1>6. /\ loops' \in [Clients -> 0..Loops] /\ loops'[c] = 0
        /\ \A d \in Clients : d # c => loops'[d] = loops[d]
    BY <1>1, <1>3, TtyAssumption DEF TypeOK
  <1>7. Len(output[c]) = asked[c] /\ asked[c] \in Nat /\ loops[c] \in 0..Loops
    BY <1>1, <1>3 DEF Replies, Waits, TypeOK
  <1>8. Base(c)' = asked[c] /\ \A d \in Clients : d # c => Base(d)' = Base(d)
    BY <1>3, <1>6, <1>7 DEF Base
  <1>9. TypeOK'
    BY <1>1, <1>3, <1>4, <1>5, <1>6 DEF TypeOK, Spots
  <1>10. Writes'
    <2>1. ASSUME NEW s \in Pending, s.operation = "WRITE"
          PROVE  s.by \in Clients /\ s.by # c
      <3>1. s.by \in Clients /\ Len(output[s.by]) <= Base(s.by) + s.loop /\ s.loop < loops[s.by]
        BY <1>1, <2>1 DEF Writes
      <3>2. s.loop \in Int
        BY <1>1, RequestIs, MemoryIs DEF TypeOK
      <3> QED  BY <1>7, <3>1, <3>2 DEF Base
    <2>2. \A s \in Pending' :
            s.operation = "WRITE" =>
              s.by \in Clients /\ Len(output'[s.by]) <= Base(s.by)' + s.loop /\ s.loop < loops'[s.by]
      BY <1>1, <1>3, <1>5, <1>6, <1>8, <2>1 DEF Writes
    <2>3. \A d \in Clients, k \in 0..Loops - 1 :
            Len(output'[d]) <= Base(d)' + k /\ k < loops'[d] => RequestOf(d, "WRITE", k) \in Pending'
      BY <1>1, <1>3, <1>5, <1>6, <1>8 DEF Writes
    <2>4. \A d \in Clients : Base(d)' <= Len(output'[d]) /\ Len(output'[d]) <= asked'[d]
      BY <1>1, <1>3, <1>7, <1>8 DEF Writes
    <2> QED  BY <2>2, <2>3, <2>4 DEF Writes
  <1>11. Replies'
    <2>1. \A s \in Pending : Synchronous(s) => s.by \in Callers /\ s.by # c
      BY <1>1, <1>3, RequestIs, MemoryIs DEF Replies, TypeOK
    <2> QED  BY <1>1, <1>3, <1>4, <1>5, <2>1, CallersFacts DEF Replies, Waits
  <1>12. Places'
    BY <1>1, <1>2, <1>3, <1>4, <1>6, CallersFacts, TtyAssumption DEF Places
  <1>13. Counted'
    <2>1. Gone' = Gone
      BY <1>2, <1>3, <1>4, CallersFacts DEF Gone
    <2> QED  BY <1>1, <1>3, <2>1 DEF Counted
  <1>14. Rounds'
    <2>1. \E n \in Nat : asked[c] = n * Loops
      <3>1. PICK n \in Nat : Base(c) = n * Loops
        BY <1>1 DEF Rounds
      <3>2. asked[c] = n * Loops + loops[c]
        BY <3>1, <1>7 DEF Base
      <3>3. loops[c] = 0 \/ loops[c] = Loops
        BY <1>1, <1>3 DEF Places
      <3>4. CASE loops[c] = 0
        BY <3>1, <3>2, <3>4, <1>7, TtyAssumption DEF Base
      <3>5. CASE loops[c] = Loops
        <4>1. asked[c] = (n + 1) * Loops /\ n + 1 \in Nat
          BY <3>2, <3>5, NextRound
        <4> QED  BY <4>1
      <3> QED  BY <3>3, <3>4, <3>5
    <2>2. \A d \in Clients : \E n \in Nat : Base(d)' = n * Loops
      BY <1>1, <1>8, <2>1 DEF Rounds
    <2> QED  BY <1>1, <1>3, <2>2 DEF Rounds
  <1> QED  BY <1>5, <1>9, <1>10, <1>11, <1>12, <1>13, <1>14 DEF ServerInv

\* main gets its answer.
LEMMA QuitReturnStep ==
  ASSUME ServerInv, QuitReturn
  PROVE  ServerInv'
  <1>1. /\ TypeOK /\ RequestMemory /\ InOrder /\ Writes /\ Replies /\ Places /\ Counted /\ Rounds
    BY DEF ServerInv
  <1>2. Main \in Callers /\ Main \notin Clients /\ SyncOf(Main) = RequestOf(Main, "QUIT", 0)
    BY CallersFacts, SyncFacts
  <1>3. /\ Replied(Main) /\ Free(SyncOf(Main)) /\ client[Main] = "woken" /\ Main \in done
        /\ client' = [client EXCEPT ![Main] = "exit"]
        /\ UNCHANGED <<line, loops, client_threads, count, lines, asked, output>>
        /\ UNCHANGED <<queue, running, server, current, done>>
    BY <1>2 DEF QuitReturn, Free, Replied
  <1>4. /\ client' \in [Callers -> Spots] /\ client'[Main] = "exit"
        /\ \A d \in Callers : d # Main => client'[d] = client[d]
    BY <1>1, <1>2, <1>3 DEF TypeOK, Spots
  <1>5. RequestMemory' /\ Pending' = Pending /\ InOrder' /\ live' \subseteq Requests
    BY <1>2, <1>3, <1>4, FreeEffect
  <1>6. TypeOK'
    BY <1>1, <1>3, <1>4, <1>5 DEF TypeOK, Spots
  <1>7. Writes'
    BY <1>1, <1>3, <1>5 DEF Writes, Base
  <1>8. Replies'
    <2>1. \A s \in Pending : Synchronous(s) => s.by \in Callers /\ s.by # Main
      BY <1>1, <1>3, RequestIs, MemoryIs DEF Replies, TypeOK
    <2> QED  BY <1>1, <1>2, <1>3, <1>4, <1>5, <2>1, CallersFacts DEF Replies, Waits
  <1>9. Places'
    BY <1>1, <1>2, <1>3, <1>4, CallersFacts DEF Places, Replies
  <1>10. Counted'
    <2>1. Gone' = Gone
      BY <1>2, <1>3, <1>4, CallersFacts DEF Gone
    <2> QED  BY <1>1, <1>3, <2>1 DEF Counted
  <1>11. Rounds'
    BY <1>1, <1>3 DEF Rounds, Base
  <1> QED  BY <1>5, <1>6, <1>7, <1>8, <1>9, <1>10, <1>11 DEF ServerInv

-----------------------------------------------------------------------------
(* Steps of the callers that leave the server's data alone.                *)

\* A step after which the same callers wait for an answer.
LEMMA MoveEffect ==
  ASSUME ServerInv, UNCHANGED <<queue, server, current, live, done, loops, asked, output>>,
         \A d \in Callers : Waits(d)' = Waits(d),
         \A d \in Callers : client'[d] = "reply" => d \notin done
  PROVE  RequestMemory' /\ InOrder' /\ Writes' /\ Rounds' /\ Replies'
  <1>1. Pending' = Pending
    BY DEF Pending, Queued, InHand
  <1>2. InOrder' /\ Writes' /\ Rounds'
    BY <1>1 DEF ServerInv, InOrder, Writes, Rounds, Base, Ahead
  <1>3. Unclaimed' = Unclaimed
    BY DEF Unclaimed, ServerInv, TypeOK
  <1>4. RequestMemory'
    BY <1>1, <1>3, MemoryIs, MemoryIsPrimed DEF ServerInv
  <1>5. \A r \in Pending : r.by \in Callers
    BY RequestIs, MemoryIs DEF ServerInv, TypeOK
  <1>6. Replies'
    BY <1>1, <1>5, CallersFacts DEF ServerInv, Replies
  <1> QED  BY <1>2, <1>4, <1>6

\* A caller woken without an answer waits again.
LEMMA ReplyAgainStep ==
  ASSUME ServerInv, NEW c \in Callers, ReplyAgain(c)
  PROVE  ServerInv'
  <1>1. TypeOK /\ Places /\ Counted
    BY DEF ServerInv
  <1>2. /\ client[c] = "woken" /\ c \notin done /\ client' = [client EXCEPT ![c] = "reply"]
        /\ UNCHANGED <<queue, running, server, current, live, done, line, loops, client_threads, count,
                       lines, asked, output>>
    BY DEF ReplyAgain, svars
  <1>3. /\ client' \in [Callers -> Spots] /\ client'[c] = "reply"
        /\ \A d \in Callers : d # c => client'[d] = client[d]
    BY <1>1, <1>2 DEF TypeOK, Spots
  <1>4. \A d \in Callers : client[d] = "reply" => d \notin done
    BY DEF ServerInv, Replies
  <1>5. RequestMemory' /\ InOrder' /\ Writes' /\ Rounds' /\ Replies'
    BY <1>2, <1>3, <1>4, MoveEffect DEF Waits
  <1>6. TypeOK'
    BY <1>1, <1>2, <1>3 DEF TypeOK, Spots
  <1>7. Places'
    BY <1>1, <1>2, <1>3, CallersFacts DEF Places
  <1>8. Counted'
    <2>1. Gone' = Gone
      BY <1>2, <1>3, CallersFacts DEF Gone
    <2> QED  BY <1>1, <1>2, <2>1 DEF Counted
  <1> QED  BY <1>5, <1>6, <1>7, <1>8 DEF ServerInv

\* A client ends.
LEMMA LeaveStep ==
  ASSUME ServerInv, NEW c \in Clients, Leave(c)
  PROVE  ServerInv'
  <1>1. TypeOK /\ Places /\ Counted
    BY DEF ServerInv
  <1>2. /\ client[c] = "leave" /\ client_threads' = client_threads - 1
        /\ client' = [client EXCEPT ![c] = "gone",
                        ![Main] = IF client_threads - 1 <= 0 /\ @ = "waiting" THEN "recheck" ELSE @]
        /\ UNCHANGED <<queue, running, server, current, live, done, line, loops, count, lines, asked,
                       output>>
    BY DEF Leave, svars
  <1>3. c \in Callers /\ c # Main /\ Main \in Callers
    BY CallersFacts
  <1>4. /\ client' \in [Callers -> Spots] /\ client'[c] = "gone"
        /\ \A d \in Callers : d # c /\ d # Main => client'[d] = client[d]
        /\ \/ client'[Main] = client[Main] /\ (client[Main] = "waiting" => ~(client_threads - 1 <= 0))
           \/ client'[Main] = "recheck" /\ client[Main] = "waiting"
    <2> DEFINE to == IF client_threads - 1 <= 0 /\ client[Main] = "waiting" THEN "recheck" ELSE client[Main]
    <2>1. client \in [Callers -> Spots] /\ client' = [client EXCEPT ![c] = "gone", ![Main] = to]
      BY <1>1, <1>2, <1>3 DEF TypeOK, Spots
    <2>2. /\ to \in Spots
          /\ \/ to = client[Main] /\ (client[Main] = "waiting" => ~(client_threads - 1 <= 0))
             \/ to = "recheck" /\ client[Main] = "waiting"
      BY <1>3, <2>1 DEF Spots
    <2> HIDE DEF to
    <2> QED  BY <1>3, <2>1, <2>2 DEF Spots
  <1>5. \A d \in Callers : client[d] = "reply" => d \notin done
    BY DEF ServerInv, Replies
  <1>6. RequestMemory' /\ InOrder' /\ Writes' /\ Rounds' /\ Replies'
    BY <1>2, <1>3, <1>4, <1>5, MoveEffect DEF Waits
  <1>7. /\ Gone' = Gone \cup {c} /\ c \notin Gone /\ IsFiniteSet(Gone')
        /\ Cardinality(Gone') = Cardinality(Gone) + 1 /\ Cardinality(Gone) \in Nat
        /\ Cardinality(Gone') <= CLIENT_THREADS
    <2>1. IsFiniteSet(Clients) /\ Cardinality(Clients) = CLIENT_THREADS
      BY FS_Interval, TtyAssumption DEF Clients
    <2>2. Gone' = Gone \cup {c} /\ c \notin Gone /\ Gone \subseteq Clients /\ Gone' \subseteq Clients
      BY <1>2, <1>3, <1>4, CallersFacts DEF Gone
    <2>3. IsFiniteSet(Gone) /\ IsFiniteSet(Gone') /\ Cardinality(Gone) \in Nat
      BY <2>1, <2>2, FS_Subset, FS_CardinalityType
    <2>4. Cardinality(Gone \cup {c}) = Cardinality(Gone) + 1
      BY <2>2, <2>3, FS_AddElement
    <2>5. Cardinality(Gone') <= CLIENT_THREADS
      BY <2>1, <2>2, FS_Subset
    <2> QED  BY <2>2, <2>3, <2>4, <2>5
  <1>8. client_threads' \in 0..CLIENT_THREADS /\ Counted' /\ client_threads > 0
    BY <1>1, <1>2, <1>7, TtyAssumption DEF Counted, TypeOK
  <1>9. TypeOK'
    BY <1>1, <1>2, <1>4, <1>8 DEF TypeOK, Spots
  <1>10. Places'
    <2>1. \A d \in Clients :
            \/ client'[d] \in {"none", "leave", "gone"} /\ loops'[d] = 0
            \/ client'[d] \in {"read", "reply", "woken"} /\ loops'[d] \in {0, Loops}
            \/ client'[d] = "write" /\ loops'[d] < Loops
      BY <1>1, <1>2, <1>3, <1>4, CallersFacts DEF Places
    <2>2. client[Main] \notin {"quit", "reply", "woken", "exit"}
      BY <1>1, <1>8 DEF Places
    <2>3. /\ client'[Main] \in {"create", "recheck", "waiting"}
          /\ client'[Main] = "waiting" => client_threads' > 0
      BY <1>1, <1>2, <1>4, <1>8, <2>2 DEF Places, TypeOK
    <2>4. \A d \in Clients : d >= count' => client'[d] = "none"
      BY <1>1, <1>2, <1>3, <1>4, CallersFacts DEF Places
    <2> QED  BY <1>1, <1>2, <2>1, <2>3, <2>4 DEF Places
  <1> QED  BY <1>6, <1>8, <1>9, <1>10 DEF ServerInv

\* main creates a client.
LEMMA CreateStep ==
  ASSUME ServerInv, Create
  PROVE  ServerInv'
  <1>1. TypeOK /\ Places /\ Counted
    BY DEF ServerInv
  <1>2. /\ client[Main] = "create" /\ Main \in Callers
        /\ UNCHANGED <<queue, running, server, current, live, done, line, loops, client_threads, lines,
                       asked, output>>
    BY CallersFacts DEF Create, svars
  <1>3. \A d \in Callers : client[d] = "reply" => d \notin done
    BY DEF ServerInv, Replies
  <1>4. CASE count < client_threads /\ client' = [client EXCEPT ![count] = "read"] /\ count' = count + 1
    <2>1. count \in Clients /\ count \in Callers /\ count # Main /\ count' \in 0..CLIENT_THREADS
      BY <1>1, <1>4, CallersFacts, TtyAssumption DEF TypeOK, Clients
    <2>2. client[count] = "none" /\ loops[count] = 0
      BY <1>1, <2>1, CallersFacts DEF Places
    <2>3. /\ client' \in [Callers -> Spots] /\ client'[count] = "read"
          /\ \A d \in Callers : d # count => client'[d] = client[d]
      BY <1>1, <1>4, <2>1 DEF TypeOK, Spots
    <2>4. RequestMemory' /\ InOrder' /\ Writes' /\ Rounds' /\ Replies'
      BY <1>2, <1>3, <2>1, <2>2, <2>3, MoveEffect DEF Waits
    <2>5. TypeOK'
      BY <1>1, <1>2, <2>1, <2>3 DEF TypeOK, Spots
    <2>6. Places'
      <3>1. \A d \in Clients : d >= count' => client'[d] = "none"
        BY <1>1, <1>4, <2>1, <2>3, CallersFacts DEF Places
      <3> QED  BY <1>1, <1>2, <2>1, <2>2, <2>3, <3>1, CallersFacts DEF Places
    <2>7. Counted'
      <3>1. Gone' = Gone
        BY <2>1, <2>2, <2>3, CallersFacts DEF Gone
      <3> QED  BY <1>1, <1>2, <3>1 DEF Counted
    <2> QED  BY <2>4, <2>5, <2>6, <2>7 DEF ServerInv
  <1>5. CASE client' = [client EXCEPT ![Main] = "recheck"] /\ count' = count
    <2>1. /\ client' \in [Callers -> Spots] /\ client'[Main] = "recheck"
          /\ \A d \in Callers : d # Main => client'[d] = client[d]
      BY <1>1, <1>2, <1>5 DEF TypeOK, Spots
    <2>2. RequestMemory' /\ InOrder' /\ Writes' /\ Rounds' /\ Replies'
      BY <1>2, <1>3, <2>1, MoveEffect DEF Waits
    <2>3. TypeOK'
      BY <1>1, <1>2, <1>5, <2>1 DEF TypeOK, Spots
    <2>4. Places'
      BY <1>1, <1>2, <1>5, <2>1, CallersFacts DEF Places
    <2>5. Counted'
      <3>1. Gone' = Gone
        BY <1>2, <2>1, CallersFacts DEF Gone
      <3> QED  BY <1>1, <1>2, <3>1 DEF Counted
    <2> QED  BY <2>2, <2>3, <2>4, <2>5 DEF ServerInv
  <1> QED  BY <1>4, <1>5 DEF Create

\* main's steps on clients_done: the loop and a wakeup without a signal.
LEMMA MainMoves ==
  ASSUME ServerInv,
         NEW to \in {"waiting", "quit", "recheck"},
         client[Main] \in {"recheck", "waiting"},
         client' = [client EXCEPT ![Main] = to],
         to = "waiting" => client_threads > 0,
         to = "quit" => ~(client_threads > 0),
         UNCHANGED <<queue, running, server, current, live, done, line, loops, client_threads, count,
                     lines, asked, output>>
  PROVE  ServerInv'
  <1>1. TypeOK /\ Places /\ Counted
    BY DEF ServerInv
  <1>2. /\ client' \in [Callers -> Spots] /\ client'[Main] = to /\ Main \in Callers
        /\ \A d \in Callers : d # Main => client'[d] = client[d]
    BY <1>1, CallersFacts DEF TypeOK, Spots
  <1>3. \A d \in Callers : client[d] = "reply" => d \notin done
    BY DEF ServerInv, Replies
  <1>4. RequestMemory' /\ InOrder' /\ Writes' /\ Rounds' /\ Replies'
    BY <1>2, <1>3, MoveEffect DEF Waits
  <1>5. TypeOK'
    BY <1>1, <1>2 DEF TypeOK, Spots
  <1>6. to = "quit" => client_threads = 0
    BY <1>1 DEF TypeOK
  <1>7. Places'
    BY <1>1, <1>2, <1>6, CallersFacts DEF Places
  <1>8. Counted'
    <2>1. Gone' = Gone
      BY <1>2, CallersFacts DEF Gone
    <2> QED  BY <1>1, <2>1 DEF Counted
  <1> QED  BY <1>4, <1>5, <1>7, <1>8 DEF ServerInv

\* main waits for the clients.
LEMMA AwaitStep ==
  ASSUME ServerInv, Await
  PROVE  ServerInv'
  <1>1. CASE client_threads > 0
    BY <1>1, MainMoves DEF Await, svars
  <1>2. CASE ~(client_threads > 0)
    BY <1>2, MainMoves DEF Await, svars
  <1> QED  BY <1>1, <1>2

-----------------------------------------------------------------------------
(* The server.                                                             *)

\* A step that leaves callers, threads and lines alone.
LEMMA ThreadsKept ==
  ASSUME ServerInv, UNCHANGED <<client, loops, client_threads, count>>
  PROVE  /\ Counted' /\ Gone' = Gone
         /\ \A c \in Clients :
              \/ client'[c] \in {"none", "leave", "gone"} /\ loops'[c] = 0
              \/ client'[c] \in {"read", "reply", "woken"} /\ loops'[c] \in {0, Loops}
              \/ client'[c] = "write" /\ loops'[c] < Loops
         /\ client'[Main] \in {"create", "recheck", "waiting", "quit", "reply", "woken", "exit"}
         /\ client'[Main] \in {"quit", "reply", "woken", "exit"} => client_threads' = 0
         /\ \A c \in Clients : c >= count' => client'[c] = "none"
         /\ client'[Main] = "waiting" => client_threads' > 0
  <1>1. Gone' = Gone
    BY DEF Gone
  <1>2. Counted'
    BY <1>1 DEF ServerInv, Counted
  <1> QED  BY <1>1, <1>2 DEF ServerInv, Places

\* The server takes a request.
LEMMA ServerTopStep ==
  ASSUME ServerInv, ServerTop, client[Main] # "exit"
  PROVE  ServerInv'
  <1>1. /\ TypeOK /\ RequestMemory /\ InOrder /\ Writes /\ Replies /\ Places /\ Counted /\ Rounds
    BY DEF ServerInv
  <1>2. /\ server \in {"top", "woken"}
        /\ UNCHANGED <<running, live, done, line, client, loops, client_threads, count, lines, asked,
                       output>>
    BY DEF ServerTop
  <1>3. /\ queue' \in Seq(Requests) /\ current' \in Requests /\ Pending' = Pending /\ InOrder'
        /\ \/ server' = "serve"
           \/ server' = "waiting" /\ queue' = <<>>
    <2>1. CASE queue = <<>> /\ server' = "waiting" /\ UNCHANGED <<queue, current>>
      <3>1. Pending' = Pending
        BY <1>2, <2>1 DEF Pending, Queued, InHand
      <3>2. InOrder'
        BY <1>1, <2>1 DEF InOrder, Ahead
      <3> QED  BY <1>1, <2>1, <3>1, <3>2 DEF TypeOK
    <2>2. CASE queue # <<>> /\ server' = "serve" /\ current' = Head(queue) /\ queue' = Tail(queue)
      BY <1>1, <1>2, <2>2, TakeEffect
    <2> QED  BY <2>1, <2>2 DEF ServerTop
  <1>4. Unclaimed' = Unclaimed
    BY <1>2 DEF Unclaimed, Waits
  <1>5. RequestMemory'
    BY <1>1, <1>2, <1>3, <1>4, MemoryIs, MemoryIsPrimed
  <1>6. TypeOK'
    BY <1>1, <1>2, <1>3 DEF TypeOK
  <1>7. Writes' /\ Rounds'
    BY <1>1, <1>2, <1>3 DEF Writes, Rounds, Base
  <1>8. Replies'
    BY <1>1, <1>2, <1>3 DEF Replies, Waits
  <1>9. Places' /\ Counted'
    BY <1>1, <1>2, <1>3, ThreadsKept DEF Places
  <1> QED  BY <1>3, <1>5, <1>6, <1>7, <1>8, <1>9 DEF ServerInv

\* The terminal has answered: the request stays in hand until it is signalled.
LEMMA ServeSyncStep ==
  ASSUME ServerInv, ServeRead \/ ServeQuit, client[Main] # "exit"
  PROVE  ServerInv'
  <1>1. /\ TypeOK /\ RequestMemory /\ InOrder /\ Writes /\ Replies /\ Places /\ Counted /\ Rounds
    BY DEF ServerInv
  <1>2. /\ server = "serve" /\ current.operation \in {"READ", "QUIT"} /\ server' = "signal"
        /\ UNCHANGED <<queue, running, current, live, done, client, loops, client_threads, count,
                       asked, output>>
    BY DEF ServeRead, ServeQuit
  <1>3. Pending' = Pending /\ InOrder' /\ current \in Pending
    BY <1>1, <1>2 DEF Pending, Queued, InHand, InOrder, Ahead
  <1>4. line' \subseteq Clients /\ lines' \in 0..MaxLines
    <2>1. CASE ServeQuit \/ UNCHANGED <<line, lines>>
      BY <1>1, <2>1 DEF ServeQuit, TypeOK
    <2>2. CASE ServeRead /\ lines < MaxLines /\ lines' = lines + 1 /\ line' = line \cup {current.by}
      <3>1. current = SyncOf(current.by) /\ current.by \in Callers
        BY <1>1, <1>2, <1>3, RequestIs DEF Replies, Synchronous, TypeOK
      <3>2. current.by # Main
        BY <2>2, <3>1, CallersFacts, RequestFacts, TtyAssumption DEF SyncOf, ServeRead, RequestOf
      <3>3. current.by \in Clients
        BY <3>1, <3>2, CallersFacts
      <3> QED  BY <1>1, <2>2, <3>3, TtyAssumption DEF TypeOK
    <2> QED  BY <2>1, <2>2 DEF ServeRead, ServeQuit
  <1>5. Unclaimed' = Unclaimed
    BY <1>2 DEF Unclaimed, Waits
  <1>6. RequestMemory'
    BY <1>1, <1>2, <1>3, <1>5, MemoryIs, MemoryIsPrimed
  <1>7. TypeOK'
    BY <1>1, <1>2, <1>4 DEF TypeOK
  <1>8. Writes' /\ Rounds'
    BY <1>1, <1>2, <1>3 DEF Writes, Rounds, Base
  <1>9. Replies'
    BY <1>1, <1>2, <1>3 DEF Replies, Waits
  <1>10. Places' /\ Counted'
    BY <1>1, <1>2, ThreadsKept DEF Places, Synchronous
  <1> QED  BY <1>3, <1>6, <1>7, <1>8, <1>9, <1>10 DEF ServerInv

\* The server writes.
LEMMA ServeWriteStep ==
  ASSUME ServerInv, ServeWrite, client[Main] # "exit"
  PROVE  ServerInv'
  <1> DEFINE c == current.by
  <1>1. /\ TypeOK /\ RequestMemory /\ InOrder /\ Writes /\ Replies /\ Places /\ Counted /\ Rounds
    BY DEF ServerInv
  <1>2. /\ server = "serve" /\ current.operation = "WRITE" /\ server' = "top"
        /\ output' = [output EXCEPT ![c] = Append(@, current.loop)]
        /\ live' = live \ {current}
        /\ UNCHANGED <<queue, running, current, done, line, client, loops, client_threads, count, lines,
                       asked>>
    BY DEF ServeWrite
  <1>3. /\ c \in Clients /\ current.loop = Len(output[c]) - Base(c)
        /\ current.loop < loops[c] /\ current.loop \in 0..Loops - 1
    BY <1>1, <1>2, NextLine
  <1> HIDE DEF c
  <1>4. /\ output[c] \in Seq(0..Loops - 1) /\ Len(output[c]) \in Nat /\ asked[c] \in Nat
        /\ loops[c] \in 0..Loops /\ Base(c) \in Int
    BY <1>1, <1>3, TtyAssumption DEF TypeOK, Base
  <1>5. /\ output' \in [Clients -> Seq(0..Loops - 1)] /\ output'[c] = Append(output[c], current.loop)
        /\ Len(output'[c]) = Len(output[c]) + 1
        /\ \A d \in Clients : d # c => output'[d] = output[d]
    BY <1>1, <1>2, <1>3, <1>4 DEF TypeOK
  <1>6. /\ Pending' = Queued /\ Pending = Queued \cup {current} /\ current \notin Queued
        /\ Queued' = Queued
    BY <1>1, <1>2, NotTwice DEF Pending, Queued, InHand
  <1>7. InOrder'
    BY <1>1, <1>2 DEF InOrder, Ahead
  <1>8. TypeOK'
    BY <1>1, <1>2, <1>5 DEF TypeOK
  <1>9. \A d \in Clients : Base(d)' = Base(d)
    BY <1>2 DEF Base
  <1>10. Writes'
    <2>1. ASSUME NEW s \in Pending', s.operation = "WRITE"
          PROVE  s.by \in Clients /\ Len(output'[s.by]) <= Base(s.by) + s.loop /\ s.loop < loops[s.by]
      <3>1. s \in Pending /\ s \in Queued
        BY <1>6
      <3>2. s.by \in Clients /\ Len(output[s.by]) <= Base(s.by) + s.loop /\ s.loop < loops[s.by]
        BY <1>1, <2>1, <3>1 DEF Writes
      <3>3. s.by = c => current.loop < s.loop
        BY <1>1, <1>2, <2>1, <3>1 DEF InOrder, Queued, Ahead, c
      <3>4. s.loop \in Int /\ current.loop \in Int
        BY <1>1, <1>3, <3>1, RequestIs, MemoryIs DEF TypeOK
      <3>5. CASE s.by = c
        BY <1>3, <1>4, <1>5, <3>2, <3>3, <3>4, <3>5
      <3>6. CASE s.by # c
        BY <1>5, <3>2, <3>6
      <3> QED  BY <3>5, <3>6
    <2>2. ASSUME NEW d \in Clients, NEW k \in 0..Loops - 1, Len(output'[d]) <= Base(d) + k, k < loops[d]
          PROVE  RequestOf(d, "WRITE", k) \in Pending'
      <3>1. CASE d # c
        <4>1. RequestOf(d, "WRITE", k) \in Pending
          BY <1>1, <1>5, <2>2, <3>1 DEF Writes
        <4>2. RequestOf(d, "WRITE", k).by # c
          BY <3>1 DEF RequestOf
        <4> QED  BY <1>6, <4>1, <4>2 DEF c
      <3>2. CASE d = c
        <4>1. Len(output[c]) <= Base(c) + k /\ k # current.loop
          BY <1>3, <1>4, <1>5, <2>2, <3>2
        <4>2. RequestOf(d, "WRITE", k) \in Pending
          BY <1>1, <2>2, <3>2, <4>1 DEF Writes
        <4>3. RequestOf(d, "WRITE", k).loop # current.loop
          BY <4>1 DEF RequestOf
        <4> QED  BY <1>6, <4>2, <4>3
      <3> QED  BY <3>1, <3>2
    <2>3. ASSUME NEW d \in Clients
          PROVE  Base(d) <= Len(output'[d]) /\ Len(output'[d]) <= asked[d]
      <3>1. Base(d) <= Len(output[d]) /\ Len(output[d]) <= asked[d]
        BY <1>1 DEF Writes
      <3>2. CASE d = c
        BY <1>3, <1>4, <1>5, <3>1, <3>2 DEF Base
      <3> QED  BY <1>5, <3>1, <3>2
    <2>4. \A s \in Pending' : s.operation = "WRITE" => Base(s.by)' = Base(s.by)
      BY <2>1, <1>9
    <2> QED  BY <1>2, <1>9, <2>1, <2>2, <2>3, <2>4 DEF Writes
  <1>11. Replies'
    <2>1. \A s \in Pending : Synchronous(s) => s \in Pending'
      BY <1>2, <1>6 DEF Synchronous
    <2>2. \A d \in Callers : Synchronous(SyncOf(d))
      BY SyncFacts
    <2>3. \A d \in Clients : Waits(d) /\ d \in done => d # c
      <3>1. Len(output[c]) # asked[c]
        BY <1>3, <1>4 DEF Base
      <3> QED  BY <1>1, <3>1 DEF Replies
    <2> QED  BY <1>1, <1>2, <1>5, <1>6, <2>1, <2>2, <2>3 DEF Replies, Waits
  <1>12. Places' /\ Counted'
    BY <1>1, <1>2, ThreadsKept DEF Places
  <1>13. Rounds'
    <2>1. PICK n \in Nat : Base(c) = n * Loops
      BY <1>1, <1>3 DEF Rounds
    <2>2. Len(output[c]) = n * Loops + current.loop
      BY <1>3, <1>4, <2>1
    <2>3. Len(output[c]) % Loops = current.loop
      BY <1>3, <2>2, RoundMod
    <2>4. ASSUME NEW k \in 1..Len(output'[c])
          PROVE  output'[c][k] = (k - 1) % Loops
      <3>1. CASE k \in 1..Len(output[c])
        <4>1. output'[c][k] = output[c][k]
          BY <1>4, <1>5, <3>1
        <4>2. output[c][k] = (k - 1) % Loops
          BY <1>1, <1>3, <3>1 DEF Rounds
        <4> QED  BY <4>1, <4>2
      <3>2. CASE k = Len(output[c]) + 1
        <4>1. output'[c][k] = current.loop
          BY <1>4, <1>5, <3>2
        <4>2. k - 1 = Len(output[c])
          BY <1>4, <3>2
        <4> QED  BY <2>3, <4>1, <4>2
      <3> QED  BY <1>4, <1>5, <3>1, <3>2
    <2>5. \A d \in Clients : \A k \in 1..Len(output'[d]) : output'[d][k] = (k - 1) % Loops
      BY <1>1, <1>5, <2>4 DEF Rounds
    <2> QED  BY <1>1, <1>9, <2>5 DEF Rounds
  <1>14. RequestMemory'
    <2>1. Unclaimed' = Unclaimed /\ Unclaimed \subseteq Callers
      BY <1>1, <1>2 DEF Unclaimed, Waits, TypeOK
    <2>2. \A d \in Unclaimed : SyncOf(d) # current
      BY <1>2, <2>1, SyncFacts DEF Synchronous
    <2>3. live = Pending \cup {SyncOf(d) : d \in Unclaimed}
      BY <1>1, MemoryIs
    <2>4. live' = Pending' \cup {SyncOf(d) : d \in Unclaimed'}
      BY <1>2, <1>6, <2>1, <2>2, <2>3
    <2> QED  BY <2>4, MemoryIsPrimed
  <1> QED  BY <1>7, <1>8, <1>10, <1>11, <1>12, <1>13, <1>14 DEF ServerInv

\* The server answers.
LEMMA ServerSignalStep ==
  ASSUME ServerInv, ServerSignal, client[Main] # "exit"
  PROVE  ServerInv'
  <1> DEFINE c == current.by
  <1>1. /\ TypeOK /\ RequestMemory /\ InOrder /\ Writes /\ Replies /\ Places /\ Counted /\ Rounds
    BY DEF ServerInv
  <1>2. /\ server = "signal" /\ done' = done \cup {c}
        /\ server' = IF current.operation = "QUIT" THEN "exited" ELSE "top"
        /\ client' = [client EXCEPT ![c] = IF @ = "reply" THEN "woken" ELSE @]
        /\ UNCHANGED <<queue, running, current, live, line, loops, client_threads, count, lines, asked,
                       output>>
    BY DEF ServerSignal
  <1>3. Synchronous(current) /\ current \in Pending /\ current \in Requests
    BY <1>1, <1>2 DEF Places, Pending, InHand, TypeOK
  <1>4. /\ c \in Callers /\ current = SyncOf(c) /\ Waits(c) /\ c \notin done
        /\ current.operation # "WRITE"
    BY <1>1, <1>3, RequestIs DEF Replies, Synchronous
  <1>5. c = Main => current.operation = "QUIT"
    BY <1>4 DEF SyncOf, RequestOf
  <1>6. \A s \in Queued : s.by # c
    BY <1>1, <1>2, <1>4 DEF InOrder, Queued, Ahead
  <1>7. c \in Clients => Len(output[c]) = asked[c]
    BY <1>1, <1>2, <1>4, PromptLast
  <1>8. Pending' = Queued /\ Pending = Queued \cup {current} /\ Queued' = Queued
    BY <1>2 DEF Pending, Queued, InHand
  <1> HIDE DEF c
  <1>9. /\ client' \in [Callers -> Spots] /\ client'[c] = "woken"
        /\ \A d \in Callers : d # c => client'[d] = client[d]
    BY <1>1, <1>2, <1>4 DEF TypeOK, Spots, Waits
  <1>10. TypeOK'
    BY <1>1, <1>2, <1>4, <1>9 DEF TypeOK, Spots
  <1>11. InOrder'
    BY <1>1, <1>2 DEF InOrder, Ahead
  <1>12. Writes' /\ Rounds'
    BY <1>1, <1>2, <1>4, <1>8, RequestFacts DEF Writes, Rounds, Base, RequestOf
  <1>13. Replies'
    <2>1. ASSUME NEW s \in Pending', Synchronous(s)
          PROVE  s = SyncOf(s.by) /\ Waits(s.by)' /\ s.by \notin done'
      <3>1. s = SyncOf(s.by) /\ Waits(s.by) /\ s.by \notin done /\ s.by # c
        BY <1>1, <1>6, <1>8, <2>1 DEF Replies
      <3>2. s.by \in Callers
        BY <1>1, <1>8, RequestIs, MemoryIs DEF TypeOK
      <3> QED  BY <1>2, <1>9, <3>1, <3>2 DEF Waits
    <2>2. ASSUME NEW d \in Callers, Waits(d)', d \notin done'
          PROVE  SyncOf(d) \in Pending'
      <3>1. d # c /\ d \notin done /\ Waits(d)
        BY <1>2, <1>9, <2>2 DEF Waits
      <3>2. SyncOf(d) \in Pending /\ SyncOf(d).by = d
        BY <1>1, <3>1, SyncFacts DEF Replies
      <3> QED  BY <1>8, <3>1, <3>2 DEF c
    <2>3. \A d \in Callers : client'[d] = "reply" => d \notin done'
      BY <1>1, <1>2, <1>9 DEF Replies
    <2>4. \A d \in Clients : Waits(d)' /\ d \in done' => Len(output'[d]) = asked'[d]
      BY <1>1, <1>2, <1>7, <1>9, CallersFacts DEF Replies, Waits
    <2>5. Main \in done' => server' = "exited"
      BY <1>1, <1>2, <1>5 DEF Replies
    <2> QED  BY <2>1, <2>2, <2>3, <2>4, <2>5 DEF Replies
  <1>14. Places'
    <2>1. server' \in {"exited", "top"}
      BY <1>2
    <2>2. running # 0
      BY <1>1, <1>2 DEF Places
    <2>3. client[Main] = "waiting" \/ client[Main] = "recheck" \/ client[Main] = "create" => c # Main
      BY <1>4 DEF Waits
    <2> QED  BY <1>1, <1>2, <1>4, <1>9, <2>1, <2>2, <2>3, CallersFacts DEF Places, Waits
  <1>15. Counted'
    <2>1. Gone' = Gone
      BY <1>4, <1>9, CallersFacts DEF Gone, Waits
    <2> QED  BY <1>1, <1>2, <2>1 DEF Counted
  <1>16. RequestMemory'
    <2>1. Unclaimed' = Unclaimed \cup {c}
      BY <1>1, <1>2, <1>4, <1>9 DEF Unclaimed, Waits, TypeOK
    <2>2. live = Pending \cup {SyncOf(d) : d \in Unclaimed}
      BY <1>1, MemoryIs
    <2>3. live' = Pending' \cup {SyncOf(d) : d \in Unclaimed'}
      BY <1>2, <1>4, <1>8, <2>1, <2>2
    <2> QED  BY <2>3, MemoryIsPrimed
  <1> QED  BY <1>10, <1>11, <1>12, <1>13, <1>14, <1>15, <1>16 DEF ServerInv

\* A wait that returns without a signal.
LEMMA SpuriousStep ==
  ASSUME ServerInv, Spurious, client[Main] # "exit"
  PROVE  ServerInv'
  <1>1. /\ TypeOK /\ RequestMemory /\ InOrder /\ Writes /\ Replies /\ Places /\ Counted /\ Rounds
    BY DEF ServerInv
  <1>2. UNCHANGED <<queue, running, current, live, done, line, loops, client_threads, count, lines,
                    asked, output>>
    BY DEF Spurious
  <1>3. CASE server = "waiting" /\ server' = "woken" /\ UNCHANGED client
    <2>1. Pending' = Pending /\ InOrder' /\ Unclaimed' = Unclaimed
      BY <1>1, <1>2, <1>3 DEF Pending, Queued, InHand, InOrder, Ahead, Unclaimed, Waits
    <2>2. RequestMemory'
      BY <1>1, <1>2, <2>1, MemoryIs, MemoryIsPrimed
    <2>3. TypeOK'
      BY <1>1, <1>2, <1>3 DEF TypeOK
    <2>4. Writes' /\ Rounds' /\ Replies'
      BY <1>1, <1>2, <1>3, <2>1 DEF Writes, Rounds, Base, Replies, Waits
    <2>5. Places' /\ Counted'
      BY <1>1, <1>2, <1>3, ThreadsKept DEF Places
    <2> QED  BY <2>1, <2>2, <2>3, <2>4, <2>5 DEF ServerInv
  <1>4. ASSUME NEW c \in Callers, client[c] = "reply", client' = [client EXCEPT ![c] = "woken"],
               UNCHANGED server
        PROVE  ServerInv'
    <2>1. /\ client' \in [Callers -> Spots] /\ client'[c] = "woken"
          /\ \A d \in Callers : d # c => client'[d] = client[d]
      BY <1>1, <1>4 DEF TypeOK, Spots
    <2>2. RequestMemory' /\ InOrder' /\ Writes' /\ Rounds' /\ Replies'
      BY <1>1, <1>2, <1>4, <2>1, MoveEffect DEF Waits, Replies
    <2>3. TypeOK'
      BY <1>1, <1>2, <1>4, <2>1 DEF TypeOK, Spots
    <2>4. Places'
      BY <1>1, <1>2, <1>4, <2>1, CallersFacts DEF Places
    <2>5. Counted'
      <3>1. Gone' = Gone
        BY <1>4, <2>1, CallersFacts DEF Gone
      <3> QED  BY <1>1, <1>2, <3>1 DEF Counted
    <2> QED  BY <2>2, <2>3, <2>4, <2>5 DEF ServerInv
  <1>5. CASE client[Main] = "waiting" /\ client' = [client EXCEPT ![Main] = "recheck"] /\ UNCHANGED server
    BY <1>2, <1>5, MainMoves
  <1> QED  BY <1>3, <1>4, <1>5 DEF Spurious

-----------------------------------------------------------------------------
(* The invariant holds.                                                    *)

\* Init establishes the invariant.
LEMMA ServerInit == Init => ServerInv
  <1> SUFFICES ASSUME Init PROVE ServerInv
    OBVIOUS
  <1> USE TtyAssumption, CallersFacts DEF Init
  <1>1. 0 \in 0..Loops - 1 /\ 0 \in 0..Loops /\ 0 \in 0..CLIENT_THREADS /\ 0 \in 0..MaxLines
    OBVIOUS
  <1>2. current \in Requests
    BY <1>1, RequestFacts
  <1>3. Pending = {} /\ Unclaimed = {}
    BY DEF Pending, Queued, InHand, Unclaimed
  <1>4. TypeOK
    <2>1. CLIENT_THREADS \in 0..CLIENT_THREADS
      OBVIOUS
    <2>2. client \in [Callers -> Spots]
      BY DEF Spots
    <2> QED  BY <1>1, <1>2, <2>1, <2>2 DEF TypeOK, Spots
  <1>5. RequestMemory
    BY <1>3, MemoryIs
  <1>6. InOrder /\ Replies
    BY <1>3 DEF InOrder, Replies, Waits
  <1>7. Writes
    BY <1>3 DEF Writes, Base
  <1>8. Places
    BY DEF Places
  <1>9. Counted
    <2>1. Gone = {}
      BY DEF Gone
    <2> QED  BY <2>1, FS_EmptySet DEF Counted
  <1>10. Rounds
    <2>1. 0 = 0 * Loops
      OBVIOUS
    <2>2. \A c \in Clients : Base(c) = 0
      BY DEF Base
    <2>3. \A c \in Clients : Len(output[c]) = 0
      OBVIOUS
    <2> QED  BY <2>1, <2>2, <2>3 DEF Rounds
  <1> QED  BY <1>4, <1>5, <1>6, <1>7, <1>8, <1>9, <1>10 DEF ServerInv

\* A step that changes nothing preserves it.
LEMMA ServerStutter ==
  ASSUME ServerInv, UNCHANGED vars
  PROVE  ServerInv'
  <1>1. /\ UNCHANGED <<queue, running, server, current, live, done, line, client, loops, client_threads,
                       count, lines, asked, output>>
    BY DEF vars, svars
  <1>2. \A c \in Callers : client[c] = "reply" => c \notin done
    BY DEF ServerInv, Replies
  <1>3. RequestMemory' /\ InOrder' /\ Writes' /\ Rounds' /\ Replies'
    BY <1>1, <1>2, MoveEffect DEF Waits
  <1>4. TypeOK' /\ Places' /\ Counted'
    BY <1>1, ThreadsKept DEF ServerInv, TypeOK, Places
  <1> QED  BY <1>3, <1>4 DEF ServerInv

\* Every step preserves it.
LEMMA ServerNext ==
  ASSUME ServerInv, [Next]_vars
  PROVE  ServerInv'
  <1>1. CASE UNCHANGED vars
    BY <1>1, ServerStutter
  <1>2. ASSUME NEW c \in Clients, ClientStep(c)
        PROVE  ServerInv'
    BY <1>2, ReadStep, ReadReturnStep, WriteStep, LeaveStep, ReplyAgainStep, CallersFacts DEF ClientStep
  <1>3. CASE MainStep
    BY <1>3, CreateStep, AwaitStep, QuitStep, QuitReturnStep, ReplyAgainStep, CallersFacts DEF MainStep
  <1>4. CASE client[Main] # "exit" /\ (ServerStep \/ Spurious)
    BY <1>4, ServerTopStep, ServeSyncStep, ServeWriteStep, ServerSignalStep, SpuriousStep DEF ServerStep
  <1> QED  BY <1>1, <1>2, <1>3, <1>4 DEF Next

\* It holds in every state.
LEMMA ServerAlways == Spec => []ServerInv
  BY ServerInit, ServerNext, PTL DEF Spec

-----------------------------------------------------------------------------
\* For any number of clients: no lost wakeup, and the memory of requests is
\* neither leaked, nor freed twice, nor used once it is free.
THEOREM TtyCorrect == Spec => []TtyInv
  <1>1. ServerInv => TtyInv
    <2> SUFFICES ASSUME ServerInv PROVE NoneAsleep
      BY DEF ServerInv, TtyInv
    <2>1. ASSUME NEW c \in Callers, client[c] = "reply"
          PROVE  \E r \in Queued \cup InHand : r.by = c /\ Synchronous(r)
      <3>1. SyncOf(c) \in Pending
        BY <2>1 DEF ServerInv, Replies, Waits
      <3> QED  BY <3>1, SyncFacts DEF Pending
    <2> QED  BY <2>1 DEF ServerInv, Places, NoneAsleep
  <1> QED  BY <1>1, ServerAlways, PTL

\* Every client's lines come out once, in turn and before its next prompt, and
\* when main returns nothing of what was asked for is missing or left over.
THEOREM TtyOutput == Spec => []OutputComplete
  <1>1. ServerInv => OutputComplete
    <2> SUFFICES ASSUME ServerInv PROVE EchoedBeforePrompt /\ CleanExit
      BY DEF OutputComplete
    <2>1. EchoedBeforePrompt
      <3>1. ASSUME NEW c \in Clients, server = "serve", current = RequestOf(c, "READ", 0)
            PROVE  Len(output[c]) = asked[c]
        <4>1. current.by = c /\ current.operation # "WRITE"
          BY <3>1 DEF RequestOf
        <4> QED  BY <3>1, <4>1, PromptLast DEF ServerInv
      <3>2. \A c \in Clients : \A k \in 1..Len(output[c]) : output[c][k] = (k - 1) % Loops
        BY DEF ServerInv, Rounds
      <3> QED  BY <3>1, <3>2 DEF EchoedBeforePrompt
    <2>2. ASSUME client[Main] = "exit"
          PROVE  /\ \A c \in Clients : client[c] = "gone" /\ Len(output[c]) = asked[c]
                 /\ queue = <<>> /\ live = {} /\ server = "exited"
      <3>1. client_threads = 0 /\ server = "exited"
        BY <2>2 DEF ServerInv, Places
      <3>2. /\ \A c \in Clients : client[c] = "gone" /\ loops[c] = 0 /\ Len(output[c]) = asked[c]
            /\ \A r \in Pending : r.by = Main
        BY <3>1, AllGone
      <3>3. Pending = {}
        <4>1. \A r \in Pending : Synchronous(r)
          BY <3>2, CallersFacts DEF ServerInv, Writes, Synchronous
        <4> QED  BY <2>2, <3>2, <4>1 DEF ServerInv, Replies, Waits
      <3>4. Unclaimed = {}
        BY <2>2, <3>2, CallersFacts DEF Unclaimed, Waits, ServerInv, TypeOK
      <3>5. live = {}
        BY <3>3, <3>4, MemoryIs DEF ServerInv
      <3>6. queue = <<>>
        BY <3>3 DEF Pending, Queued, ServerInv, TypeOK
      <3> QED  BY <3>1, <3>2, <3>5, <3>6
    <2> QED  BY <2>1, <2>2 DEF CleanExit
  <1> QED  BY <1>1, ServerAlways, PTL
=============================================================================
