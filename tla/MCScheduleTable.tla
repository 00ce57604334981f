--------------------------- MODULE MCScheduleTable ---------------------------
(* ScheduleTable for TLC: the API and a set that runs.                     *)
EXTENDS ScheduleTable
=============================================================================
