---------------------------- MODULE MCLcdTarget ----------------------------
(* A small instance of LcdTarget for TLC. *)
EXTENDS LcdTarget

Waits == <<1, 1>>

Load(save, retry, dim, poll, fault, unplug) ==
  [saves |-> save, retries |-> retry, dims |-> dim, polls |-> poll,
   faults |-> fault, unplugs |-> unplug]

Some ==
  {Load(0, 0, 0, 0, 3, 0), Load(0, 1, 0, 0, 2, 0),   (* transfers that break  *)
   Load(1, 0, 0, 0, 1, 0), Load(0, 0, 1, 0, 1, 0),   (* while the user edits  *)
   Load(1, 0, 1, 0, 0, 0), Load(1, 0, 0, 1, 0, 0), Load(0, 0, 0, 1, 1, 0),
   Load(1, 0, 0, 0, 0, 1), Load(0, 0, 0, 0, 1, 1)}   (* and is away           *)

=============================================================================
