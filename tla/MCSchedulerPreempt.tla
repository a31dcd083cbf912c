------------------------- MODULE MCSchedulerPreempt -------------------------
(* Model-checking instance of SchedulerPreempt.                            *)
EXTENDS SchedulerPreempt

=============================================================================
