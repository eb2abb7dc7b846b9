------------------------------- MODULE MCAlarm -------------------------------
(***************************************************************************)
(* Model-checking instance of Alarm: alarms due in the past, now and       *)
(* later, entered at any moment.                                           *)
(***************************************************************************)
EXTENDS Alarm

SomeSeconds == {-1, 0, 2}
=============================================================================
