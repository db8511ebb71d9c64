---------------------------- MODULE MCWriteGate ----------------------------
(* Small instances of WriteGate for TLC. *)
EXTENDS WriteGate
=============================================================================
