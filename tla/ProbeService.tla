---------------------------- MODULE ProbeService ----------------------------
(***************************************************************************)
(* What scheduler.Run promises its caller: probes are recorded until the   *)
(* context is cancelled; those already under way may still be recorded     *)
(* while the scheduler stops; once Run has returned nothing is recorded    *)
(* any more; and after the cancellation it does return.                    *)
(***************************************************************************)
EXTENDS Integers, Sequences

CONSTANTS Key, Result, Cap

VARIABLES log,     \* the retained results per key, as in SampleLog
          state    \* "running", "stopping" or "stopped"

vars == <<log, state>>

SL == INSTANCE SampleLog

Init == SL!Init /\ state = "running"

Record == /\ state # "stopped"
          /\ SL!Next
          /\ UNCHANGED state

Cancel == /\ state = "running"
          /\ state' = "stopping"
          /\ UNCHANGED log

Return == /\ state = "stopping"
          /\ state' = "stopped"
          /\ UNCHANGED log

Next == Record \/ Cancel \/ Return

Spec == Init /\ [][Next]_vars

FairSpec == Spec /\ (state = "stopping" ~> state = "stopped")
=============================================================================
