------------------------------ MODULE MCSuspend ------------------------------
(***************************************************************************)
(* Model-checking instances of Suspend.  The runs use FairSpec, so they    *)
(* declare no symmetry.                                                    *)
(***************************************************************************)
EXTENDS Suspend
=============================================================================
