----------------------------- MODULE AbstractPipe -----------------------------
(***************************************************************************)
(* What the pipeline promises: a queue of bounded length from which values *)
(* come out in the order they were put in, increased by one per stage.     *)
(***************************************************************************)
EXTENDS Integers, Sequences

CONSTANTS Values, stages

VARIABLES
  items,    \* the values put in and not yet taken out
  results   \* the values taken out, in order

avars == <<items, results>>

AInit == items = <<>> /\ results = <<>>

Put(v) ==
  /\ Len(items) <= stages
  /\ items' = Append(items, v)
  /\ UNCHANGED results

Take ==
  /\ items # <<>>
  /\ results' = Append(results, Head(items) + stages)
  /\ items' = Tail(items)

ANext == Take \/ \E v \in Values : Put(v)

ASpec == AInit /\ [][ANext]_avars
=============================================================================
