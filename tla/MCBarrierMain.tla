---------------------------- MODULE MCBarrierMain ----------------------------
(***************************************************************************)
(* Model-checking instances of BarrierMain.                                *)
(***************************************************************************)
EXTENDS BarrierMain

ASSUME ThreadsNumbered == ThreadNumbers
=============================================================================
