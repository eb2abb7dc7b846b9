---------------------------- MODULE MCStructures ----------------------------
(***************************************************************************)
(* Model-checking instance of the data structures: one of them is chosen,  *)
(* and called in every order.                                              *)
(***************************************************************************)
EXTENDS TwoThreeTree, AvlTree, RedBlackTree, RunningMedian, BinomialHeap

\* Values around 0, of which the sum of two may overflow.
SmallValues == {-5, -1, 2, 5}

\* A key below the one Delete decreases to and one above.
BothSides == {-1, 1}

\* CTree has variables of its own.
TreeChosen == Begin("2-3 tree", [none |-> TRUE])

StructuresInit == Init /\ (TreeChosen \/ AvlInit \/ RbInit \/ MedianInit \/ HeapInit)

StructuresNext ==
  \/ structure = "2-3 tree" /\ Next /\ UNCHANGED <<structure, store>>
  \/ (AvlNext \/ RbNext \/ MedianNext \/ HeapNext) /\ UNCHANGED vars

StructuresSpec == StructuresInit /\ [][StructuresNext]_<<vars, structure, store>>
=============================================================================
