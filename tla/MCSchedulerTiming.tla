------------------------- MODULE MCSchedulerTiming -------------------------
(* Time stamps for the runs of SchedulerTiming. *)
EXTENDS SchedulerTiming

MCTimes == 0 .. MaxTime
=============================================================================
