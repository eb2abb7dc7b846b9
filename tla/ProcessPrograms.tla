---------------------------- MODULE ProcessPrograms ----------------------------
(***************************************************************************)
(* The programs of several processes: pipe.c (parent and child on a pipe), *)
(* server-bee.c with client-bee.c (a process for each connection, and the  *)
(* handler that reaps them) and socket-server.c with socket-client.c       *)
(* (messages one after the other until one says quit).                     *)
(*                                                                         *)
(* Main is the parent or server, the threads of the library model are      *)
(* processes, and a process that has ended is "zombie" until it is waited  *)
(* for.                                                                    *)
(***************************************************************************)
EXTENDS Pthreads

CONSTANTS
  Messages,      \* messages the writer of pipe.c sends (5)
  Connections,   \* bound: clients that come
  Addresses      \* addresses a host name stands for, of client-bee.c

ASSUME ProcessAssumption ==
  Messages \in Nat /\ Connections \in 1..LastThread /\ Addresses \in Nat \ {0}

-----------------------------------------------------------------------------
(* advancedC/pipe.c.  g.write and g.read are the processes that have the   *)
(* two ends open.                                                          *)

Reader == 1

PipeInit ==
  Start("pipe", [write |-> {Main}, read |-> {Main}, buffer |-> 0, left |-> Messages, printed |-> 0])

\* A fork that fails is taken for the return in the parent.
PipeFork ==
  \/ /\ Create(Main, Reader, "start", "parent") /\ NoSync
     /\ g' = [g EXCEPT !.write = {Main, Reader}, !.read = {Main, Reader}]
  \/ Local(Main, "start", "parent") /\ UNCHANGED g

\* The parent: close the read end, write, close, return.  Writing to a pipe that
\* nobody reads kills it by SIGPIPE.
PipeParent ==
  \/ Local(Main, "parent", "writer") /\ g' = [g EXCEPT !.read = @ \ {Main}]
  \/ /\ g.left > 0 /\ g.read # {} /\ Local(Main, "writer", "writer")
     /\ g' = [g EXCEPT !.left = @ - 1, !.buffer = @ + 1]
  \/ /\ g.left > 0 /\ g.read = {} /\ Local(Main, "writer", "killed")
     /\ g' = [g EXCEPT !.write = @ \ {Main}]
  \/ g.left = 0 /\ Local(Main, "writer", "done") /\ g' = [g EXCEPT !.write = @ \ {Main}]

\* Faulty variant: the child keeps its copy of the write end.
PipeChildWrites ==
  \/ Local(Reader, "begin", "reader") /\ UNCHANGED g
  \/ /\ g.buffer > 0 /\ Local(Reader, "reader", "reader")
     /\ g' = [g EXCEPT !.buffer = @ - 1, !.printed = @ + 1]
  \/ /\ g.buffer = 0 /\ g.write = {} /\ Local(Reader, "reader", "done")
     /\ g' = [g EXCEPT !.read = @ \ {Reader}]

\* The child: close the write end, read until the end of the stream, which
\* comes when nobody has the write end open, close, return.
PipeChild ==
  \/ Local(Reader, "begin", "reader") /\ g' = [g EXCEPT !.write = @ \ {Reader}]
  \/ /\ g.buffer > 0 /\ Local(Reader, "reader", "reader")
     /\ g' = [g EXCEPT !.buffer = @ - 1, !.printed = @ + 1]
  \/ /\ g.buffer = 0 /\ g.write = {} /\ Local(Reader, "reader", "done")
     /\ g' = [g EXCEPT !.read = @ \ {Reader}]

PipeStep(t) ==
  /\ Running("pipe") /\ UNCHANGED program
  /\ (t = Main /\ (PipeFork \/ PipeParent)) \/ (t = Reader /\ PipeChild)

\* The parent writes to a pipe that nobody reads only where it has no child, and
\* the child has printed everything when it sees the end.
PipeWhole ==
  program = "pipe" =>
    /\ pc[Main] = "writer" /\ g.left > 0 => Reader \in g.read \/ At(Reader, "none")
    /\ At(Reader, "done") => g.printed = Messages

-----------------------------------------------------------------------------
(* server-bee.c and client-bee.c.  Connection c has client c and is served *)
(* by process c.  SIGCHLD is pending or not; further ones are lost.  The   *)
(* handler runs in the parent between any two of its steps: g.back is      *)
(* where the parent goes on.  g.new is the connection it accepted last,    *)
(* g.failed the connections for which a fork or a send has failed.         *)

Conns == 1..Connections

BeeInit ==
  Start("server_bee",
        [client |-> [c \in Conns |-> "idle"], tries |-> [c \in Conns |-> 0], queue |-> <<>>,
         open |-> [c \in Conns |-> {}], sigchld |-> FALSE, back |-> "accept", new |-> None,
         failed |-> {}])

\* client-bee.c: the addresses are tried until one connects.
BeeConnect(c) ==
  /\ g.client[c] = "idle" /\ ~ At(Main, "start") /\ UNCHANGED pc
  /\ IF g.tries[c] < Addresses
     THEN \/ g' = [g EXCEPT !.client[c] = "connected", !.queue = Append(@, c)]
          \/ g' = [g EXCEPT !.tries[c] = @ + 1]
     ELSE g' = [g EXCEPT !.client[c] = "failed"]

\* recv returns what was sent, or nothing once the accepted connection is closed
\* by everyone; the client prints it and leaves.
BeeReceive(c) ==
  /\ UNCHANGED pc
  /\ \/ g.client[c] = "sent" /\ g' = [g EXCEPT !.client[c] = "received"]
     \/ /\ g.client[c] = "connected" /\ g.open[c] = {}
        /\ \A i \in 1..Len(g.queue) : g.queue[i] # c
        /\ g' = [g EXCEPT !.client[c] = "empty"]

\* The parent: accept.
BeeAccept ==
  \/ Local(Main, "start", "accept") /\ UNCHANGED g
  \/ Local(Main, "continue", "accept") /\ UNCHANGED g
  \/ /\ g.queue # <<>> /\ Local(Main, "accept", "fork")
     /\ g' = [g EXCEPT !.queue = Tail(@), !.new = Head(g.queue), !.open[Head(g.queue)] = {Main}]

\* accept fails.
BeeAcceptFails ==
  /\ Running("server_bee") /\ UNCHANGED program
  /\ Local(Main, "accept", "continue") /\ UNCHANGED g

\* The parent: fork, after which it closes its copy of the connection whether
\* there is a child or not.
BeeFork ==
  \/ /\ Create(Main, g.new, "fork", "close") /\ NoSync
     /\ g' = [g EXCEPT !.open[g.new] = @ \cup {g.new}]
  \/ Local(Main, "fork", "close") /\ g' = [g EXCEPT !.failed = @ \cup {g.new}]
  \/ Local(Main, "close", "accept") /\ g' = [g EXCEPT !.open[g.new] = @ \ {Main}]

\* The child: send, which may fail, close and exit, which raises SIGCHLD.
BeeChild(c) ==
  \/ Local(c, "begin", "sent") /\ g' = [g EXCEPT !.client[c] = "sent"]
  \/ Local(c, "begin", "sent") /\ g' = [g EXCEPT !.failed = @ \cup {c}]
  \/ Local(c, "sent", "zombie") /\ g' = [g EXCEPT !.open[c] = @ \ {c}, !.sigchld = TRUE]

\* SIGCHLD is delivered.
BeeSignal ==
  /\ g.sigchld /\ pc[Main] \in {"accept", "continue", "fork", "close"}
  /\ Goto(Main, "handler") /\ NoSync
  /\ g' = [g EXCEPT !.sigchld = FALSE, !.back = pc[Main]]

\* Faulty variant: the handler waits for one process.
HandlerOnce ==
  /\ At(Main, "handler") /\ NoSync /\ UNCHANGED g
  /\ \/ \E c \in Conns : At(c, "zombie") /\ pc' = [pc EXCEPT ![c] = "done", ![Main] = g.back]
     \/ (\A c \in Conns : ~ At(c, "zombie")) /\ Goto(Main, g.back)

\* waitpid in a loop, until no process is left that has ended.
sigchld_handler ==
  /\ At(Main, "handler") /\ NoSync /\ UNCHANGED g
  /\ \/ \E c \in Conns : At(c, "zombie") /\ Goto(c, "done")
     \/ (\A c \in Conns : ~ At(c, "zombie")) /\ Goto(Main, g.back)

BeeStep(t) ==
  /\ Running("server_bee") /\ UNCHANGED program
  /\ \/ t = Main /\ (BeeAccept \/ BeeFork \/ BeeSignal \/ sigchld_handler)
     \/ t \in Conns /\ BeeChild(t)
     \/ t \in Conns /\ (BeeConnect(t) \/ BeeReceive(t)) /\ NoSync

\* A pending SIGCHLD is delivered, whatever else the parent could do.
Delivery == BeeStep(Main) /\ BeeSignal

\* However the ends of the processes fall together with the handler, no process
\* stays a zombie without a SIGCHLD to come or the handler still in its loop; the
\* parent keeps no connection open but the one it is about to fork for or to
\* close; and a client is left without its answer only where a fork or a send
\* has failed.
NoZombieForgotten ==
  program = "server_bee" =>
    \A c \in Conns :
      /\ At(c, "zombie") => g.sigchld \/ At(Main, "handler")
      /\ Main \in g.open[c] =>
           c = g.new /\ (IF At(Main, "handler") THEN g.back ELSE pc[Main]) \in {"fork", "close"}
      /\ g.client[c] = "empty" => c \in g.failed

-----------------------------------------------------------------------------
(* socket-server.c and socket-client.c.  A client sends the length, sleeps *)
(* and sends the text, and closes; the server serves one at a time.        *)
(* g.guessed: memory that held no text of a client was taken for a quit.   *)

ChatInit ==
  \E q \in [Conns -> BOOLEAN] :
    Start("socket_server",
          [quit |-> q, queue |-> <<>>, serving |-> None, said |-> FALSE, guessed |-> FALSE,
           length |-> {}, text |-> {}, printed |-> <<>>])

\* The clients, which are the other processes.
ChatClient(c) ==
  \/ ~ At(Main, "start") /\ Local(c, "none", "begin") /\ g' = [g EXCEPT !.queue = Append(@, c)]
  \/ Local(c, "begin", "sleep") /\ g' = [g EXCEPT !.length = @ \cup {c}]
  \/ Local(c, "sleep", "close") /\ g' = [g EXCEPT !.text = @ \cup {c}]
  \/ Local(c, "close", "done") /\ UNCHANGED g

\* main: accept, serve, close, and end after a client that said quit.
ChatMain ==
  \/ Local(Main, "start", "accept") /\ UNCHANGED g
  \/ /\ g.queue # <<>> /\ Local(Main, "accept", "server")
     /\ g' = [g EXCEPT !.queue = Tail(@), !.serving = Head(g.queue)]
  \/ /\ Local(Main, "close", IF g.said THEN "exit" ELSE "accept")
     /\ g' = [g EXCEPT !.serving = None]

\* accept, whose length argument is not initialised, fails, and server() is given
\* -1.  Whether it has taken the connection makes no difference: main does not
\* come back to accept, it ends or reads on.
ChatAcceptFails ==
  /\ Running("socket_server") /\ UNCHANGED program
  /\ Local(Main, "accept", "server") /\ UNCHANGED g

\* Main compares memory that is not a text with "quit": any outcome, and a fault.
Compare(l, m) ==
  \/ Local(Main, l, m) /\ UNCHANGED g
  \/ Local(Main, l, "close") /\ g' = [g EXCEPT !.said = TRUE, !.guessed = TRUE]
  \/ Local(Main, l, "fault") /\ UNCHANGED g

\* server: read a length, or find the connection closed; read the text, which
\* blocks until it has come; print it and look whether it says quit; free it, and
\* look once more.  From -1 nothing is read, and the loop goes on all the same.
server ==
  LET c == g.serving
  IN  \/ c \in g.length /\ Local(Main, "server", "read") /\ g' = [g EXCEPT !.length = @ \ {c}]
      \/ c # None /\ c \notin g.length /\ At(c, "done") /\ Local(Main, "server", "close") /\ UNCHANGED g
      \/ /\ c \in g.text /\ Local(Main, "read", IF g.quit[c] THEN "close" ELSE "freed")
         /\ g' = [g EXCEPT !.text = @ \ {c}, !.printed = Append(@, c), !.said = g.quit[c]]
      \/ c = None /\ Local(Main, "server", "read") /\ UNCHANGED g
      \/ c = None /\ Compare("read", "freed")
      \/ Compare("freed", "server")

ChatStep(t) ==
  /\ Running("socket_server") /\ UNCHANGED program
  /\ (t = Main /\ (ChatMain \/ server)) \/ (t \in Conns /\ ChatClient(t))

\* The server ends when a client has said quit, or it has found that word in
\* memory it had freed or never written, and for no other reason, with the
\* messages of the clients it served before printed once each, whole and in the
\* order they were served.
ServedInTurn ==
  program = "socket_server" =>
    LET n == Len(g.printed)
    IN  /\ At(Main, "exit") => g.guessed \/ (n > 0 /\ g.quit[g.printed[n]])
        /\ \A i \in 1 .. n - 1 : ~ g.quit[g.printed[i]]
        /\ \A i \in 1..n : pc[g.printed[i]] \in {"close", "done"}
        /\ \A i, j \in 1..n : i # j => g.printed[i] # g.printed[j]
        /\ \A i \in 1..Len(g.queue) : \A j \in 1..n : g.queue[i] # g.printed[j]

\* The programs of several processes.
ProcessInv == PipeWhole /\ NoZombieForgotten /\ ServedInTurn

\* The reader sees the end of the stream, if there is a reader; every process of
\* server-bee.c is reaped, and every client of it hears from it, if only that the
\* connection is closed, unless accept fails again and again; and a server told to
\* quit ends, unless accept has failed and it reads from no connection for ever.
ProcessesEnd ==
  /\ program = "pipe" ~> At(Reader, "done") \/ (At(Reader, "none") /\ pc[Main] \in {"killed", "done"})
  /\ \A c \in Conns :
       /\ program = "server_bee" /\ pc[c] = "zombie" ~> At(c, "done")
       /\ \/ []<>At(Main, "continue")
          \/ program = "server_bee" /\ g.client[c] = "connected"
               ~> program = "server_bee" /\ g.client[c] \in {"received", "empty"}
       /\ program = "socket_server" /\ g.quit[c] /\ At(c, "done")
            ~> \/ pc[Main] \in {"exit", "fault"}
               \/ program = "socket_server" /\ g.serving = None /\ pc[Main] \in {"server", "read", "freed"}
=============================================================================
