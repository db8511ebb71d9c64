---------------------------- MODULE AtomicSwitch ----------------------------
(***************************************************************************)
(* What a switch of the service mode promises: the host selection, the     *)
(* startup enablement and the settings of the destination account change   *)
(* together or not at all, whatever fails on the way.  Enablement that was *)
(* made for the current boot or session only expires with it.              *)
(* ServiceSwitch implements this specification.                            *)
(***************************************************************************)

CONSTANTS User, System, None

Modes == {User, System}
Startups == {"disabled", "enabled", "runtime"}

VARIABLES
  selection,  (* the selected mode, if any                                    *)
  startup,    (* what is enabled for startup                                  *)
  files       (* the settings in effect for the destination of the switch     *)

vars == <<selection, startup, files>>

Only(m) == [o \in Modes |-> IF o = m THEN "enabled" ELSE "disabled"]

Init ==
  /\ selection \in Modes \cup {None}
  /\ startup \in [Modes -> Startups]
  /\ files = "own"

(* Another switch looks at its own destination. *)
Request ==
  /\ files' = "own"
  /\ UNCHANGED <<selection, startup>>

(* All at once: the mode selected and enabled alone, and the settings copied *)
(* when that was asked for.                                                  *)
Switch(m) ==
  /\ selection' = m
  /\ startup' = Only(m)
  /\ files' \in {"own", "copied"}

(* The user's session, or the boot, ends. *)
Expire(ms) ==
  /\ startup' = [m \in Modes |->
       IF m \in ms /\ startup[m] = "runtime" THEN "disabled" ELSE startup[m]]
  /\ UNCHANGED <<selection, files>>

Next ==
  \/ Request
  \/ \E m \in Modes : Switch(m)
  \/ \E ms \in {{User}, Modes} : Expire(ms)

Spec == Init /\ [][Next]_vars

=============================================================================
