-------------------------------- MODULE MCPipe --------------------------------
(***************************************************************************)
(* Model-checking instances of Pipe, and the refinement, whose mapping     *)
(* collects the stages that hold data.                                     *)
(***************************************************************************)
EXTENDS Pipe, FiniteSets

\* Stage i's place among the stages S, the last one first, and the k-th of them.
Place(S, i) == Cardinality({j \in S : j >= i})
Kth(S, k) == CHOOSE i \in S : Place(S, i) = k

\* The stages that hold a datum.
Occupied == {i \in All : data_ready[i] = 1}

\* The values in the pipe as main gave them: each stage has added one.
InPipe == [k \in 1..Cardinality(Occupied) |-> data[Kth(Occupied, k)] - Kth(Occupied, k)]

\* The pipeline is a first-in first-out queue of stages + 1 places that adds
\* one per stage: no value is lost, doubled, overtaken or changed.
Fifo == INSTANCE AbstractPipe WITH items <- InPipe
ImplementsFifo == Fifo!ASpec
=============================================================================
