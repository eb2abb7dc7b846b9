---------------------------- MODULE StreamPrograms ----------------------------
(***************************************************************************)
(* flock.c (threads that prompt and read an answer with both streams       *)
(* locked) and putchar.c (threads that write a line character by           *)
(* character, with the stream locked or not).                              *)
(*                                                                         *)
(* The mutex of the library model is the lock of stdout.  A call of printf *)
(* or putchar takes it for the time of the call, unless its caller has it. *)
(***************************************************************************)
EXTENDS Pthreads

CONSTANTS LineLength     \* characters of a line of putchar.c

ASSUME StreamAssumption == LineLength \in Nat /\ LastThread >= 3

Writers == 1..3

\* printf by a thread that has not locked stdout.
Printf(t, l, m) == mutex = None /\ Local(t, l, m)

-----------------------------------------------------------------------------
(* flock.c.  g.stdin has the lock of stdin, g.shown is the thread whose    *)
(* text was the last on the terminal, g.answer[t] the thread whose prompt  *)
(* the answer that t read was an answer to, g.joined whom main has joined. *)

FlockInit ==
  Start("flock", [stdin |-> None, shown |-> None, joined |-> 0, answer |-> [t \in Writers |-> None]])

\* Threads are joined in this order.
JoinOrder == <<3, 1, 2>>

FlockMain ==
  \/ /\ At(Main, "start") /\ NoSync /\ UNCHANGED g
     /\ pc' = [t \in Threads |-> IF t = Main THEN "say" ELSE IF t \in Writers THEN "begin" ELSE pc[t]]
  \/ /\ g.joined < 3
     /\ Printf(Main, "say", "join") /\ g' = [g EXCEPT !.shown = Main]
  \/ g.joined < 3 /\ Join(Main, JoinOrder[g.joined + 1], "join", "tell") /\ UNCHANGED g
  \/ Printf(Main, "tell", "say") /\ g' = [g EXCEPT !.shown = Main, !.joined = @ + 1]
  \/ g.joined = 3 /\ Local(Main, "say", "exit") /\ UNCHANGED g

\* Faulty variant: stdout is unlocked before the answer is read.
PromptUnlocked(t) ==
  \/ g.stdin = None /\ Local(t, "begin", "stdout") /\ g' = [g EXCEPT !.stdin = t]
  \/ Lock(t, "stdout", "prompt") /\ UNCHANGED g
  \/ Unlock(t, "prompt", "fgets") /\ g' = [g EXCEPT !.shown = t]
  \/ Local(t, "funlock", "stdin") /\ UNCHANGED g
  \/ Local(t, "stdin", "return") /\ g' = [g EXCEPT !.stdin = None]
  \/ Printf(t, "return", "done") /\ g' = [g EXCEPT !.shown = t]

\* prompt_routine but for the return of fgets, which is the user's doing.
prompt_routine(t) ==
  \/ g.stdin = None /\ Local(t, "begin", "stdout") /\ g' = [g EXCEPT !.stdin = t]
  \/ Lock(t, "stdout", "prompt") /\ UNCHANGED g
  \/ Local(t, "prompt", "fgets") /\ g' = [g EXCEPT !.shown = t]
  \/ Unlock(t, "funlock", "stdin") /\ UNCHANGED g
  \/ Local(t, "stdin", "return") /\ g' = [g EXCEPT !.stdin = None]
  \/ Printf(t, "return", "done") /\ g' = [g EXCEPT !.shown = t]

\* The user types an answer, or ends the input: fgets of t returns.
Answer ==
  /\ Running("flock") /\ UNCHANGED program
  /\ \E t \in Writers : Local(t, "fgets", "funlock") /\ g' = [g EXCEPT !.answer[t] = g.shown]

FlockStep(t) ==
  /\ Running("flock") /\ UNCHANGED program
  /\ (t = Main /\ FlockMain) \/ (t \in Writers /\ prompt_routine(t))

\* All other output is prevented until both prompt and answer are complete:
\* nothing comes between a prompt and the answer to it.
AnswersOwnPrompt ==
  program = "flock" =>
    \A t \in Writers : /\ At(t, "fgets") => g.shown = t
                       /\ g.answer[t] \in {None, t}

-----------------------------------------------------------------------------
(* putchar.c.  g.out is the thread of each character of the lines.         *)

PutcharInit == \E f \in BOOLEAN : Start("putchar", [flag |-> f, out |-> <<>>, n |-> [t \in Writers |-> 0]])

PutcharMain ==
  /\ At(Main, "start")
  /\ pc' = [t \in Threads |-> IF t = Main THEN "done" ELSE IF t \in Writers THEN "begin" ELSE pc[t]]
  /\ NoSync /\ UNCHANGED g

\* Thread t writes its next character.
Put(t) == g' = [g EXCEPT !.out = Append(@, t), !.n[t] = @ + 1]

lock_routine(t) ==
  \/ Printf(t, "begin", "flock") /\ UNCHANGED g
  \/ Lock(t, "flock", "put") /\ UNCHANGED g
  \/ g.n[t] < LineLength /\ Local(t, "put", "put") /\ Put(t)
  \/ g.n[t] = LineLength /\ Unlock(t, "put", "done") /\ UNCHANGED g

unlock_routine(t) ==
  \/ g.n[t] < LineLength /\ Printf(t, "begin", "begin") /\ Put(t)
  \/ g.n[t] = LineLength /\ Local(t, "begin", "done") /\ UNCHANGED g

PutcharStep(t) ==
  /\ Running("putchar") /\ UNCHANGED program
  /\ \/ t = Main /\ PutcharMain
     \/ t \in Writers /\ g.flag /\ lock_routine(t)
     \/ t \in Writers /\ ~ g.flag /\ unlock_routine(t)

\* With the stream locked no line is broken up by another, although the
\* characters are written without a lock of their own.
LinesWhole ==
  program = "putchar" /\ g.flag =>
    \A i, j, k \in 1..Len(g.out) : i < j /\ j < k /\ g.out[i] = g.out[k] => g.out[j] = g.out[i]

\* The programs that share the standard streams.
StreamInv == AnswersOwnPrompt /\ LinesWhole

\* They end: taking stdin before stdout everywhere, nobody waits in a circle, so
\* main of flock.c ends unless the user leaves a prompt unanswered for ever; and
\* each line of putchar.c is written.
StreamsEnd ==
  /\ program = "flock" => <>At(Main, "exit") \/ <>[](\E t \in Writers : At(t, "fgets"))
  /\ program = "putchar" ~> program = "putchar" /\ \A t \in Writers : Ended(t) /\ g.n[t] = LineLength
=============================================================================
