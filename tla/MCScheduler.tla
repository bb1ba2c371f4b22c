---------------------------- MODULE MCScheduler -----------------------------
(* Two tasks of the main program, so that one is in execution while the   *)
(* other comes due, and one of an interrupt handler between them.         *)
EXTENDS Scheduler
=============================================================================
