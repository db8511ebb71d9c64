----------------------- MODULE MCCommandConvergence -----------------------
(* Small instances of CommandConvergence for TLC. *)
EXTENDS CommandConvergence
=============================================================================
