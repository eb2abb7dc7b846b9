----------------------------- MODULE Structures -----------------------------
(***************************************************************************)
(* What the models of the data structures of computation/ share: which     *)
(* program runs, and what it holds.  Each of them makes one call after     *)
(* the other on one structure; a call is one step.                         *)
(***************************************************************************)
EXTENDS Integers, Sequences, FiniteSets, SequencesExt

VARIABLES
  structure,   \* the program that runs
  store        \* its variables, a record

Null == 0      \* the null pointer, where nodes have numbers

\* The program p starts with v.
Begin(p, v) == structure = p /\ store = v

\* How often each element of S occurs in the sequence s.
Occurrences(S, s) == [e \in S |-> Cardinality({i \in DOMAIN s : s[i] = e})]

Ascending(s) == \A i, j \in DOMAIN s : i < j => s[i] <= s[j]
=============================================================================
