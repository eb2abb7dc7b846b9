----------------------------- MODULE MCTtyServer -----------------------------
(***************************************************************************)
(* Model-checking instance of TtyServer.                                   *)
(***************************************************************************)
EXTENDS TtyServer
=============================================================================
