------------------------------- MODULE Calendar -------------------------------
(***************************************************************************)
(* The day that the daily jobs of tasks/jobs.py compare dates with         *)
(* (utcnow().date() as each run reads it).                                 *)
(***************************************************************************)
EXTENDS Integers

CONSTANT LastDay    \* the day the calendar of the model ends
ASSUME LastDayAssumption == LastDay \in Nat

VARIABLE today

DayPasses ==
  /\ today < LastDay
  /\ today' = today + 1
=============================================================================
