------------------------------ MODULE MCBarrier ------------------------------
(***************************************************************************)
(* Model-checking instances of Barrier.                                    *)
(***************************************************************************)
EXTENDS Barrier, TLC

ClientSymmetry == Permutations(Clients)
=============================================================================
