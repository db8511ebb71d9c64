----------------------------- MODULE LaunchGate -----------------------------
(***************************************************************************)
(* How a daemon gets to drive the hardware: the host service selection     *)
(* with its startup gate (lianli-control/src/service_selection.rs), the    *)
(* start-up sequence of the daemon (lianli-daemon/src/main.rs) and the     *)
(* flock on the shared PID file (lianli-daemon/src/pidlock.rs).  Several   *)
(* daemons may be on their way at once, by different routes; the gate is   *)
(* read before and again after the lock is taken.                          *)
(*                                                                         *)
(* The units are Type=simple with Restart=on-failure: systemd reports a    *)
(* unit active and running as soon as its process was spawned, and starts  *)
(* it again after an error exit, but not after exit code 0.                *)
(***************************************************************************)

EXTENDS Naturals

CONSTANTS
  User, System, (* the two service modes, and the routes of their units        *)
  Manual,       (* the route of a daemon started from a terminal in user mode  *)
  Routes,       (* the routes taken into account                               *)
  Coordinator,  (* the switch coordinator, when it has the hardware reserved   *)
  None

Modes == {User, System}
Other(m) == IF m = User THEN System ELSE User

ASSUME RoutesAssumption ==
  /\ User # System /\ Manual \notin Modes
  /\ Modes \subseteq Routes /\ Routes \subseteq Modes \cup {Manual}
  /\ Coordinator \notin Routes
  /\ None \notin Routes \cup {Coordinator}

VARIABLES
  gate,       (* /etc/lianli/service-selection.json                           *)
  daemon,     (* the process of each route                                    *)
  hardware,   (* who holds the flock on the daemon PID file                   *)
  session     (* identity of the user's runtime directory, 0: logged out      *)

launch == <<gate, daemon, hardware, session>>

Gates == [selection : Modes \cup {None}, paused : BOOLEAN]

(* none: no process and the unit idle; launched: not at the gate yet;        *)
(* checked: found the gate open; locked: holds the PID file; serving: drives *)
(* the hardware and answers IPC; stopping: shutting down; retry: systemd     *)
(* will start the unit again.                                                *)
DaemonStates ==
  {"none", "launched", "checked", "locked", "serving", "stopping", "retry"}

ScopeOf(r) == IF r = System THEN System ELSE User

(* inactive or failed, without a main process. *)
Idle(m) == daemon[m] = "none"

(* active/running, whatever the process has come to. *)
Running(m) == daemon[m] \in {"launched", "checked", "locked", "serving"}

(* A unit of the user manager can be inspected in a session only. *)
Known(m) == m = System \/ session # 0

(* Record::allows: the gate is not paused for a switch and the selection, if *)
(* there is one, names this mode.                                            *)
Allowed(r) == ~gate.paused /\ gate.selection \in {None, ScopeOf(r)}

Becomes(r, s) == daemon' = [daemon EXCEPT ![r] = s]

Releases(r) == hardware' = IF hardware = r THEN None ELSE hardware

(* A unit that stays failed. *)
StaysFailed(r) == "failed"

(* An error exit: Restart=on-failure concerns the units only. *)
AfterFailure(r) == IF r = Manual THEN "none" ELSE "retry"

(* main: a blocked launch exits with code 0 and stays inactive. *)
CheckGate(r) ==
  /\ daemon[r] = "launched"
  /\ Becomes(r, IF Allowed(r) THEN "checked" ELSE "none")
  /\ UNCHANGED <<gate, hardware, session>>

(* PidLock::acquire: a non-blocking exclusive flock, an error when held. *)
AcquirePidLock(r) ==
  /\ daemon[r] = "checked"
  /\ IF hardware = None
     THEN hardware' = r /\ Becomes(r, "locked")
     ELSE Becomes(r, AfterFailure(r)) /\ UNCHANGED hardware
  /\ UNCHANGED <<gate, session>>

(* A recheck that trusts the first look at the gate. *)
RecheckSkipped(r) ==
  /\ daemon[r] = "locked"
  /\ Becomes(r, "serving")
  /\ UNCHANGED <<gate, hardware, session>>

(* main: the selection may have changed while the lock was out of reach. *)
RecheckGate(r) ==
  /\ daemon[r] = "locked"
  /\ IF Allowed(r)
     THEN Becomes(r, "serving") /\ UNCHANGED hardware
     ELSE Becomes(r, "none") /\ Releases(r)
  /\ UNCHANGED <<gate, session>>

(* A graceful shutdown ends and the kernel releases the flock. *)
ExitCleanly(r) ==
  /\ daemon[r] = "stopping"
  /\ Becomes(r, "none")
  /\ Releases(r)
  /\ UNCHANGED <<gate, session>>

(* RestartSec is over. *)
AutoRestart(r) ==
  /\ daemon[r] = "retry"
  /\ Becomes(r, "launched")
  /\ UNCHANGED <<gate, hardware, session>>

(* What a daemon does by itself. *)
DaemonStep(r) ==
  \/ CheckGate(r)
  \/ AcquirePidLock(r)
  \/ RecheckGate(r)
  \/ ExitCleanly(r)
  \/ AutoRestart(r)

(* systemctl start, enabled startup or a terminal: nothing else is asked. *)
Launch(r) ==
  /\ daemon[r] = "none"
  /\ Known(ScopeOf(r))
  /\ Becomes(r, "launched")
  /\ UNCHANGED <<gate, hardware, session>>

(* systemctl stop, or SIGTERM from the terminal. *)
StopByHand(r) ==
  /\ daemon[r] \notin {"none", "stopping"}
  /\ IF daemon[r] = "serving"
     THEN Becomes(r, "stopping") /\ UNCHANGED hardware
     ELSE Becomes(r, "none") /\ Releases(r)
  /\ UNCHANGED <<gate, session>>

(* The process ends with an error. *)
DaemonFails(r) ==
  /\ daemon[r] \in {"launched", "checked", "locked", "serving", "stopping"}
  /\ Becomes(r, AfterFailure(r))
  /\ Releases(r)
  /\ UNCHANGED <<gate, session>>

-----------------------------------------------------------------------------

LaunchTypeOK ==
  /\ gate \in Gates
  /\ daemon \in [Routes -> DaemonStates]
  /\ hardware \in Routes \cup {Coordinator, None}
  /\ session \in Nat

(* A daemon that drives the hardware is of the mode the host selected: the   *)
(* selection is only changed while the hardware is reserved or owned by the  *)
(* daemon selected, and a daemon that waited behind an old selection leaves. *)
OnlySelectedServes ==
  \A r \in Routes : daemon[r] \in {"serving", "stopping"} =>
    gate.selection \in {None, ScopeOf(r)} /\ hardware = r

=============================================================================
