------------------------- MODULE MCWirelessRecovery -------------------------
(* A small instance of WirelessRecovery for TLC. *)
EXTENDS WirelessRecovery

Rungs == <<1, 2, 2>>

Load(faults, lapses, stops, configured) ==
  [faults |-> faults, lapses |-> lapses, stops |-> stops, configured |-> configured]

Some == {Load(1, 1, 1, TRUE), Load(0, 2, 0, TRUE), Load(0, 1, 1, FALSE)}

(* One lapse of a link that is otherwise in order. *)
Lapse == {Load(0, 1, 0, TRUE)}
=============================================================================
