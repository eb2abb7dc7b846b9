------------------------------ MODULE TtyServer ------------------------------
(***************************************************************************)
(* The terminal server of server.c: clients and main queue requests, one   *)
(* server thread, created by the first request, serves them in turn.       *)
(*                                                                         *)
(* A request is known by who made it, its operation and, for the lines a   *)
(* client writes, its loop counter; live says which are allocated.  The    *)
(* server's mutex is held only inside an action.                           *)
(***************************************************************************)
EXTENDS Integers, Sequences

CONSTANTS
  CLIENT_THREADS,   \* clients main means to create
  Loops,            \* lines a client writes for each line it reads
  MaxLines          \* lines that are read before the input ends

ASSUME TtyAssumption ==
  /\ CLIENT_THREADS \in Nat \ {0}
  /\ Loops \in Nat \ {0}
  /\ MaxLines \in Nat

VARIABLES
  queue,            \* tty_sever.first .. last
  running,          \* tty_sever.running
  server, current,  \* where the server is, the request it has taken
  live,             \* requests allocated and not freed
  done,             \* who made a synchronous request whose done_flag is set
  line,             \* whose request's text is not empty
  client,           \* where each client is; the last one stands for main
  loops,            \* the local variable of client_routine
  client_threads,   \* the global of that name
  count,            \* the local variable of main
  lines,            \* lines read from the terminal
  asked, output     \* lines each client asked to write; what was written

svars == <<queue, running, server, current, live, done>>
vars == <<svars, line, client, loops, client_threads, count, lines, asked, output>>

Clients == 0..CLIENT_THREADS - 1
Main == CLIENT_THREADS
Callers == Clients \cup {Main}

RequestOf(c, operation, n) == [by |-> c, operation |-> operation, loop |-> n]
Requests == [by : Callers, operation : {"READ", "WRITE", "QUIT"}, loop : 0..Loops - 1]
Synchronous(r) == r.operation # "WRITE"

Init ==
  /\ queue = <<>> /\ running = 0
  /\ server = "none" /\ current = RequestOf(Main, "QUIT", 0)
  /\ live = {} /\ done = {}
  /\ line = {}
  /\ client = [c \in Callers |-> IF c = Main THEN "create" ELSE "none"]
  /\ loops = [c \in Clients |-> 0]
  /\ client_threads = CLIENT_THREADS
  /\ count = 0
  /\ lines = 0
  /\ asked = [c \in Clients |-> 0]
  /\ output = [c \in Clients |-> <<>>]

-----------------------------------------------------------------------------
(* tty_server_request.                                                     *)

\* Faulty variant: the server is not told of the request.
RequestQuietly(r) ==
  /\ running' = 1
  /\ server' = IF running = 0 THEN "top" ELSE server
  /\ queue' = Append(queue, r)
  /\ live' = live \cup {r}
  /\ done' = IF Synchronous(r) THEN done \ {r.by} ELSE done
  /\ UNCHANGED current

\* Faulty variant: the request becomes the first of the queue.
RequestFirst(r) ==
  /\ running' = 1
  /\ server' = IF running = 0 THEN "top"
               ELSE IF server = "waiting" THEN "woken" ELSE server
  /\ queue' = <<r>> \o queue
  /\ live' = live \cup {r}
  /\ done' = IF Synchronous(r) THEN done \ {r.by} ELSE done
  /\ UNCHANGED current

\* The first request creates the server.  A request is allocated, put at the
\* end of the queue and signalled; done_flag is cleared in a synchronous one.
Request(r) ==
  /\ running' = 1
  /\ server' = IF running = 0 THEN "top"
               ELSE IF server = "waiting" THEN "woken" ELSE server
  /\ queue' = Append(queue, r)
  /\ live' = live \cup {r}
  /\ done' = IF Synchronous(r) THEN done \ {r.by} ELSE done
  /\ UNCHANGED current

\* A caller back from the wait for its reply: done_flag is set.
Replied(c) == client[c] = "woken" /\ c \in done

\* done_flag is not set: it waits again.
ReplyAgain(c) ==
  /\ client[c] = "woken"
  /\ c \notin done
  /\ client' = [client EXCEPT ![c] = "reply"]
  /\ UNCHANGED <<svars, line, loops, client_threads, count, lines, asked, output>>

Free(r) == live' = live \ {r} /\ UNCHANGED <<queue, running, server, current, done>>

-----------------------------------------------------------------------------
(* client_routine.                                                         *)

Read(c) ==
  /\ client[c] = "read"
  /\ Request(RequestOf(c, "READ", 0))
  /\ client' = [client EXCEPT ![c] = "reply"]
  /\ line' = line \ {c}
  /\ UNCHANGED <<loops, client_threads, count, lines, asked, output>>

\* The reply is copied and the request freed; an empty one ends the client.
ReadReturn(c) ==
  /\ Replied(c)
  /\ Free(RequestOf(c, "READ", 0))
  /\ client' = [client EXCEPT ![c] = IF c \in line THEN "write" ELSE "leave"]
  /\ loops' = [loops EXCEPT ![c] = 0]
  /\ UNCHANGED <<line, client_threads, count, lines, asked, output>>

\* One of the lines a client writes for each line it reads; not synchronous.
Write(c) ==
  /\ client[c] = "write"
  /\ Request(RequestOf(c, "WRITE", loops[c]))
  /\ loops' = [loops EXCEPT ![c] = @ + 1]
  /\ client' = [client EXCEPT ![c] = IF loops[c] + 1 < Loops THEN "write" ELSE "read"]
  /\ asked' = [asked EXCEPT ![c] = @ + 1]
  /\ UNCHANGED <<line, client_threads, count, lines, output>>

\* Faulty variant: the last client does not tell main.
LeaveQuietly(c) ==
  /\ client[c] = "leave"
  /\ client_threads' = client_threads - 1
  /\ client' = [client EXCEPT ![c] = "gone"]
  /\ UNCHANGED <<svars, line, loops, count, lines, asked, output>>

Leave(c) ==
  /\ client[c] = "leave"
  /\ client_threads' = client_threads - 1
  /\ client' = [client EXCEPT ![c] = "gone",
                  ![Main] = IF client_threads - 1 <= 0 /\ @ = "waiting" THEN "recheck" ELSE @]
  /\ UNCHANGED <<svars, line, loops, count, lines, asked, output>>

-----------------------------------------------------------------------------
(* main.                                                                   *)

\* The loop reads client_threads without the mutex, while clients that have
\* already finished decrement it.
Create ==
  /\ client[Main] = "create"
  /\ IF count < client_threads
       THEN /\ client' = [client EXCEPT ![count] = "read"]
            /\ count' = count + 1
       ELSE /\ client' = [client EXCEPT ![Main] = "recheck"]
            /\ UNCHANGED count
  /\ UNCHANGED <<svars, line, loops, client_threads, lines, asked, output>>

\* The loop on clients_done.
Await ==
  /\ client[Main] = "recheck"
  /\ client' = [client EXCEPT ![Main] = IF client_threads > 0 THEN "waiting" ELSE "quit"]
  /\ UNCHANGED <<svars, line, loops, client_threads, count, lines, asked, output>>

Quit ==
  /\ client[Main] = "quit"
  /\ Request(RequestOf(Main, "QUIT", 0))
  /\ client' = [client EXCEPT ![Main] = "reply"]
  /\ UNCHANGED <<line, loops, client_threads, count, lines, asked, output>>

\* main returns and the process ends.
QuitReturn ==
  /\ Replied(Main)
  /\ Free(RequestOf(Main, "QUIT", 0))
  /\ client' = [client EXCEPT ![Main] = "exit"]
  /\ UNCHANGED <<line, loops, client_threads, count, lines, asked, output>>

-----------------------------------------------------------------------------
(* tty_server_routine.                                                     *)

ServerTop ==
  /\ server \in {"top", "woken"}
  /\ \/ /\ queue = <<>>
        /\ server' = "waiting"
        /\ UNCHANGED <<queue, current>>
     \/ /\ queue # <<>>
        /\ server' = "serve"
        /\ current' = Head(queue)
        /\ queue' = Tail(queue)
  /\ UNCHANGED <<running, live, done, line, client, loops, client_threads, count, lines, asked,
                 output>>

\* A line is read, empty or not; it is empty once the input has ended.
ServeRead ==
  /\ server = "serve" /\ current.operation = "READ"
  /\ server' = "signal"
  /\ \/ UNCHANGED <<line, lines>>
     \/ lines < MaxLines /\ lines' = lines + 1 /\ line' = line \cup {current.by}
  /\ UNCHANGED <<queue, running, current, live, done, client, loops, client_threads, count,
                 asked, output>>

\* A line is written and the request, which is not synchronous, freed.
ServeWrite ==
  /\ server = "serve" /\ current.operation = "WRITE"
  /\ server' = "top"
  /\ output' = [output EXCEPT ![current.by] = Append(@, current.loop)]
  /\ live' = live \ {current}
  /\ UNCHANGED <<queue, running, current, done, line, client, loops, client_threads, count, lines,
                 asked>>

ServeQuit ==
  /\ server = "serve" /\ current.operation = "QUIT"
  /\ server' = "signal"
  /\ UNCHANGED <<queue, running, current, live, done, line, client, loops, client_threads, count,
                 lines, asked, output>>

\* done_flag of a synchronous request is set and its caller signalled; after
\* REQ_QUIT the server ends.
ServerSignal ==
  /\ server = "signal"
  /\ server' = IF current.operation = "QUIT" THEN "exited" ELSE "top"
  /\ done' = done \cup {current.by}
  /\ client' = [client EXCEPT ![current.by] = IF @ = "reply" THEN "woken" ELSE @]
  /\ UNCHANGED <<queue, running, current, live, line, loops, client_threads, count, lines, asked,
                 output>>

\* POSIX lets a wait return without a signal.
Spurious ==
  /\ \/ /\ server = "waiting" /\ server' = "woken"
        /\ UNCHANGED client
     \/ /\ \E c \in Callers : client[c] = "reply" /\ client' = [client EXCEPT ![c] = "woken"]
        /\ UNCHANGED server
     \/ /\ client[Main] = "waiting" /\ client' = [client EXCEPT ![Main] = "recheck"]
        /\ UNCHANGED server
  /\ UNCHANGED <<queue, running, current, live, done, line, loops, client_threads, count, lines,
                 asked, output>>

-----------------------------------------------------------------------------
ClientStep(c) == Read(c) \/ ReadReturn(c) \/ Write(c) \/ Leave(c) \/ ReplyAgain(c)
MainStep == Create \/ Await \/ Quit \/ QuitReturn \/ ReplyAgain(Main)
ServerStep == ServerTop \/ ServeRead \/ ServeWrite \/ ServeQuit \/ ServerSignal

Next ==
  /\ client[Main] # "exit"
  /\ (\E c \in Clients : ClientStep(c)) \/ MainStep \/ ServerStep \/ Spurious

Spec == Init /\ [][Next]_vars

\* Every thread is scheduled and gets the mutexes, and the terminal answers.
FairSpec ==
  /\ Spec
  /\ \A c \in Clients : WF_vars(client[Main] # "exit" /\ ClientStep(c))
  /\ WF_vars(client[Main] # "exit" /\ MainStep)
  /\ WF_vars(client[Main] # "exit" /\ ServerStep)

-----------------------------------------------------------------------------
(* Properties.                                                             *)

\* Type invariant.
TypeOK ==
  /\ queue \in Seq(Requests)
  /\ running \in {0, 1}
  /\ server \in {"none", "top", "waiting", "woken", "serve", "signal", "exited"}
  /\ current \in Requests
  /\ live \subseteq Requests
  /\ done \subseteq Callers
  /\ line \subseteq Clients
  /\ client \in [Callers -> {"none", "read", "reply", "woken", "write", "leave", "gone",
                             "create", "waiting", "recheck", "quit", "exit"}]
  /\ loops \in [Clients -> 0..Loops]
  /\ client_threads \in 0..CLIENT_THREADS
  /\ count \in 0..CLIENT_THREADS
  /\ lines \in 0..MaxLines
  /\ asked \in [Clients -> Nat]
  /\ output \in [Clients -> Seq(0..Loops - 1)]

\* What the server has taken.
InHand == IF server \in {"serve", "signal"} THEN {current} ELSE {}
Queued == {queue[i] : i \in 1..Len(queue)}

\* The memory of requests: a request is allocated exactly while it is queued,
\* in the server's hands, or answered and not yet picked up by its caller. So
\* nothing is used after it is freed, freed twice or left behind.
RequestMemory ==
  live = Queued \cup InHand
         \cup {RequestOf(c, IF c = Main THEN "QUIT" ELSE "READ", 0) :
                 c \in {d \in done : client[d] \in {"reply", "woken"}}}

\* No lost wakeup: the server sleeps only while the queue is empty, and who
\* waits for a reply without having it has a request on its way.
NoneAsleep ==
  /\ server = "waiting" => queue = <<>>
  /\ \A c \in Callers :
       client[c] = "reply" => \E r \in Queued \cup InHand : r.by = c /\ Synchronous(r)
  /\ client[Main] = "waiting" => client_threads > 0

\* The state of server, clients and main at any moment: well typed, nobody asleep
\* who should be awake, and every request in somebody's hands.
TtyInv == TypeOK /\ NoneAsleep /\ RequestMemory

\* Requests are served in order: a client's lines come out once and in turn,
\* all of them before its next prompt.
EchoedBeforePrompt ==
  \A c \in Clients :
    /\ \A k \in 1..Len(output[c]) : output[c][k] = (k - 1) % Loops
    /\ server = "serve" /\ current = RequestOf(c, "READ", 0) => Len(output[c]) = asked[c]

\* When main returns, although it joins nobody, all clients it meant to create
\* have ended, everything was written and no request is left.
CleanExit ==
  client[Main] = "exit" =>
    /\ \A c \in Clients : client[c] = "gone" /\ Len(output[c]) = asked[c]
    /\ queue = <<>> /\ live = {} /\ server = "exited"

\* What is written comes in order, and all of it before the program ends.
OutputComplete == EchoedBeforePrompt /\ CleanExit

\* Every synchronous request is answered.
Answered == \A c \in Callers : client[c] = "reply" ~> client[c] \notin {"reply", "woken"}

\* When the loop in main has created all clients, the program ends.  (A client
\* that ends earlier shortens the loop, and then main waits for ever.)
Ends == count = CLIENT_THREADS ~> client[Main] = "exit"

\* Nobody waits for the server for ever, main included.
ServerResponds == Answered /\ Ends
=============================================================================
