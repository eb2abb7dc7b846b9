--------------------------- MODULE AbstractBarrier ---------------------------
(***************************************************************************)
(* What a barrier promises, without mutex, condition variable or counters: *)
(* callers gather in groups of threshold; the one that completes a group   *)
(* returns at once with -1, the others only after the group is complete,   *)
(* with 0.                                                                 *)
(***************************************************************************)
EXTENDS Naturals, Integers, FiniteSets

CONSTANTS Clients, threshold

VARIABLES
  gathered,   \* callers of a group that is not complete yet
  released,   \* callers of complete groups that have not returned yet
  result      \* what a client's last call returned

avars == <<gathered, released, result>>

AInit == gathered = {} /\ released = {} /\ result = [t \in Clients |-> 0]

Gather(t) ==
  /\ t \notin gathered \cup released
  /\ Cardinality(gathered) + 1 < threshold
  /\ gathered' = gathered \cup {t}
  /\ UNCHANGED <<released, result>>

Complete(t) ==
  /\ t \notin gathered \cup released
  /\ Cardinality(gathered) + 1 = threshold
  /\ gathered' = {}
  /\ released' = released \cup gathered
  /\ result' = [result EXCEPT ![t] = -1]

Leave(t) ==
  /\ t \in released
  /\ released' = released \ {t}
  /\ result' = [result EXCEPT ![t] = 0]
  /\ UNCHANGED gathered

ANext == \E t \in Clients : Gather(t) \/ Complete(t) \/ Leave(t)

ASpec == AInit /\ [][ANext]_avars
=============================================================================
