---------------------------- MODULE MCScheduler ----------------------------
(***************************************************************************)
(* A small instance of Scheduler: two schedules, one of which has two      *)
(* occurrences that a late wake-up folds into one run.                     *)
(***************************************************************************)
EXTENDS Scheduler

MCFires == [s \in Schedules |-> IF s = "hourly" THEN {1, 2} ELSE {1}]
=============================================================================
