--------------------------- MODULE MCControlJobs ---------------------------
(* A small instance of ControlJobs for TLC. *)
EXTENDS ControlJobs

Load(jobs, triggers, faults) ==
  [jobs |-> jobs, triggers |-> triggers, faults |-> faults]

(* Many requests for recovery, or clients that switch and recover beside it. *)
Some == {Load(0, 2, 1), Load(1, 1, 1), Load(2, 0, 1)}
=============================================================================
