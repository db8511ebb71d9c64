---------------------------- MODULE ServiceSwitch ----------------------------
(***************************************************************************)
(* Switching the hardware service between the user and the system account  *)
(* (lianli-control/src: native_switch.rs, switch_journal.rs,               *)
(* system_recovery.rs, service_operation.rs, service_startup.rs,           *)
(* service_selection.rs, account_publication.rs), over the daemons of      *)
(* LaunchGate.                                                             *)
(*                                                                         *)
(* One coordinator at a time, under the service operation lock, drives a   *)
(* switch or its recovery; every phase is written to a durable journal     *)
(* first.  The settings of the destination account are rewritten by a      *)
(* helper process under that account, which inherits the operation lock    *)
(* and the hardware lock and may outlive the coordinator.  The coordinator *)
(* or the helper may die at any step; the user may log out and in, the     *)
(* host may reboot, daemons may be started, stopped or fail meanwhile.     *)
(*                                                                         *)
(* What the helper does to the files is the transaction StateTransaction   *)
(* describes, seen through AtomicState.                                    *)
(***************************************************************************)

EXTENDS LaunchGate

CONSTANTS
  Scenarios   (* named limits of a behaviour: from which hosts it starts, which *)
              (* routes are started and stopped by hand, and how often what     *)
              (* is counted below happens                                       *)

Startups == {"disabled", "enabled", "runtime"}
Policies == [Modes -> Startups]

ASSUME ScenariosAssumption ==
  \A n \in DOMAIN Scenarios : Scenarios[n] \in
    [sources : SUBSET Modes,
     hosts : SUBSET [startup : Policies, selection : Modes \cup {None}],
     byHand : SUBSET Routes, commands : Nat, faults : Nat, logins : Nat,
     boots : Nat, switches : Nat]

VARIABLES
  startup,    (* systemctl enablement of the two units                        *)
  journal,    (* /var/lib/lianli-control/switch.json                          *)
  coord,      (* the coordinator process                                      *)
  helper,     (* the publish-state process under the destination account      *)
  files,      (* the settings of the destination account                      *)
  txn,        (* the transaction pending beside them                          *)
  boot,       (* the boot id                                                  *)
  submitted,  (* offline starts of the system service not yet accounted for   *)
  scenario,   (* the limits of this behaviour                                 *)
  commands, faults, logins, switches

disk == <<startup, journal, files, txn>>
bounds == <<scenario, commands, faults, logins, switches>>
switching == <<startup, journal, coord, helper, files, txn, boot, submitted>>
vars == <<launch, switching, bounds>>

Limit == Scenarios[scenario]

Forward == {"Preparing", "Ready", "StoppingSource", "SourceStopped",
            "Publishing", "Published", "SelectingDestination",
            "StartingDestination", "VerifyingDestination"}
Backward == {"StoppingDestination", "RestoringDestination",
             "RestoringStartup", "StartingSource", "VerifyingSource"}
Deferred == {"RestoringSystem", "SystemRestored", "StoppingRecoveredSystem"}
Terminal == {"Complete", "RolledBack"}
Phases == Forward \cup Backward \cup Deferred \cup Terminal

Record == [phase : Phases, source : Modes, wasRunning : BOOLEAN,
           previous : Modes \cup {None}, startup : Policies, carry : BOOLEAN,
           boot : Nat, runtime : Nat, destinationBackup : BOOLEAN,
           rollbackBackup : BOOLEAN, startBoot : Nat]

(* The next step of the coordinator. *)
Places ==
  {"none", "prepare", "ready", "pause", "stop", "awaitStop", "reserve", "publish",
   "recover", "restore", "ready?", "proceed", "done?", "select", "startup", "release",
   "start", "awaitStart", "verify", "archive", "begin", "loop", "live",
   "reserveSystem", "dispatch"}

(* run: what the coordinator executes; at: the next step of it; the other    *)
(* fields are its local variables (runtime None before it is computed).      *)
Coordinators ==
  [run : {"none", "switch", "rollback", "resume"}, at : Places,
   shouldRun : BOOLEAN, runtime : Nat \cup {None}, dispatched : BOOLEAN,
   nested : BOOLEAN]

Helpers == [action : {"publish", "recover", "restore"},
            state : {"ready", "working", "done"}]

ASSUME NoneAssumption ==
  None \notin Record \cup Helpers \cup {"publish", "restore"}

Absent == [run |-> "none", at |-> "none", shouldRun |-> FALSE,
           runtime |-> None, dispatched |-> FALSE, nested |-> FALSE]

Pending == journal # None
Destination == Other(journal.source)

At(run, at) == coord.run = run /\ coord.at = at

Goto(at) == coord' = [coord EXCEPT !.at = at]

(* Journal::advance, and the place the coordinator goes on from. *)
Advance(phase, at) ==
  /\ journal' = [journal EXCEPT !.phase = phase]
  /\ Goto(at)

-----------------------------------------------------------------------------
(* What the journal says about the running state and the enablement to       *)
(* restore, in the boot and session of the recovery.                         *)

SameBoot == journal.boot = boot
SameRuntime == journal.runtime = session

(* A source that starts only when it is enabled, whatever ran before. *)
SourceEnabled == journal.startup[journal.source] = "enabled"

(* Record::source_should_run. *)
SourceShouldRun ==
  IF SameBoot /\ (journal.source = User => SameRuntime)
  THEN journal.wasRunning
  ELSE journal.startup[journal.source] = "enabled"

(* Record::restoration_policy: enablement made for this boot or session only *)
(* expires with it.                                                          *)
RestorationPolicy ==
  [m \in Modes |->
     IF /\ journal.startup[m] = "runtime"
        /\ ~SameBoot \/ (m = User /\ ~SameRuntime)
     THEN "disabled" ELSE journal.startup[m]]

Only(m) == [o \in Modes |-> IF o = m THEN "enabled" ELSE "disabled"]

(* The enablement and the selection the current run is to establish. *)
DesiredStartup == IF coord.run = "switch" THEN Only(Destination)
                  ELSE RestorationPolicy

DesiredSelection ==
  CASE coord.run = "switch"   -> Destination
    [] coord.run = "rollback" -> journal.previous
    [] OTHER                  -> journal.source

(* Offline recovery reads and changes the system unit only. *)
Managed == IF coord.run = "resume" THEN {System} ELSE Modes

-----------------------------------------------------------------------------
(* What the steps of the coordinator verify before they change anything.     *)

(* A reservation that only asks systemd whether a daemon runs. *)
UnitsIdle == session # 0 /\ \A m \in Modes : Idle(m)

(* reserve: both units idle, no owner, and the flock is free. *)
CanReserve ==
  /\ session # 0
  /\ \A m \in Modes : Idle(m)
  /\ hardware = None

(* verify_daemon: the mode runs, answers, owns the hardware, alone. *)
Verified(m) ==
  /\ session # 0
  /\ daemon[m] = "serving" /\ hardware = m
  /\ Idle(Other(m))

(* service_operation::preflight and reserve_idle of a start. *)
CanStart(m) ==
  /\ session # 0
  /\ Idle(m) /\ Idle(Other(m))
  /\ hardware = None
  /\ Allowed(m)
  /\ startup[Other(m)] = "disabled"

(* ... and of a stop: the running unit owns the hardware and answers. *)
CanStop(m) == Known(m) /\ daemon[m] = "serving" /\ hardware = m

(* native_switch::initial_state, for the source of a switch.  *)
InitialState(source, running) ==
  /\ session # 0
  /\ Idle(Other(source))
  /\ startup[User] = "disabled" \/ startup[System] = "disabled"
  /\ IF running THEN Verified(source)
                ELSE Idle(source) /\ hardware = None

(* system_recovery::verify_live_source. *)
LiveSource ==
  /\ daemon[System] = "serving" /\ hardware = System
  /\ SourceShouldRun
  /\ startup[System] = RestorationPolicy[System]

(* rollback: nothing moved since the startup selection was restored. *)
SelectionRestored ==
  /\ session # 0
  /\ startup = RestorationPolicy
  /\ gate = [selection |-> journal.previous, paused |-> FALSE]

(* rollback: the session is the one the running state was decided for. *)
RuntimeKept == coord.run = "rollback" => coord.runtime = session

(* ServiceOperationLock::acquire: a helper alive still holds it. *)
OperationFree == coord.run = "none" /\ helper = None

-----------------------------------------------------------------------------

SwitchInit ==
  /\ scenario \in DOMAIN Scenarios
  /\ \E host \in Limit.hosts :
       /\ gate = [selection |-> host.selection, paused |-> FALSE]
       /\ startup = host.startup
  /\ daemon = [r \in Routes |-> "none"]
  /\ hardware = None
  /\ session = 1
  /\ journal = None
  /\ coord = Absent
  /\ helper = None
  /\ files = "own"
  /\ txn = None
  /\ boot = 1
  /\ submitted = 0
  /\ commands = 0 /\ faults = 0 /\ logins = 1 /\ switches = 0

(* execute_for, up to the journal. *)
RequestSwitch(source, running, carry) ==
  /\ switches < Limit.switches
  /\ switches' = switches + 1
  /\ OperationFree
  /\ ~Pending
  /\ ~gate.paused
  /\ InitialState(source, running)
  /\ running => gate.selection \in {None, source}
  /\ journal' = [phase |-> "Preparing", source |-> source,
                 wasRunning |-> running, previous |-> gate.selection,
                 startup |-> startup, carry |-> carry, boot |-> boot,
                 runtime |-> session, destinationBackup |-> FALSE,
                 rollbackBackup |-> FALSE, startBoot |-> 0]
  /\ coord' = [Absent EXCEPT !.run = "switch", !.at = "prepare"]
  /\ files' = "own"
  /\ UNCHANGED <<launch, startup, helper, txn, boot, submitted,
                 scenario, commands, faults, logins>>

(* recover_matching: a terminal record is archived, any other rolled back. *)
RequestRecovery ==
  /\ OperationFree
  /\ Pending
  /\ coord' = [Absent EXCEPT !.run = "rollback",
                 !.at = IF journal.phase \in Terminal THEN "archive" ELSE "begin"]
  /\ UNCHANGED <<launch, disk, helper, boot, submitted, bounds>>

-----------------------------------------------------------------------------
(* The forward switch: execute_for once the journal exists.                  *)

(* Preparation of the copied settings, and the checks that nothing changed.  *)
Prepare ==
  /\ At("switch", "prepare")
  /\ InitialState(journal.source, journal.wasRunning)
  /\ startup = journal.startup
  /\ Advance("Ready", "ready")
  /\ UNCHANGED <<launch, startup, helper, files, txn, boot, submitted, bounds>>

AnnounceStop ==
  /\ At("switch", "ready")
  /\ SameRuntime
  /\ Advance("StoppingSource", "pause")
  /\ UNCHANGED <<launch, startup, helper, files, txn, boot, submitted, bounds>>

(* A switch that goes on with the gate left open. *)
PauseForgotten ==
  /\ coord.at = "pause"
  /\ journal.phase = "StoppingDestination" => Known(Destination)
  /\ IF coord.run = "switch" /\ ~journal.wasRunning
     THEN Advance("SourceStopped", "reserve")
     ELSE Goto("stop") /\ UNCHANGED journal
  /\ UNCHANGED <<launch, startup, helper, files, txn, boot, submitted, bounds>>

(* Journal::pause_launches, of the switch and of a rollback. *)
PauseLaunches ==
  /\ coord.at = "pause"
  /\ journal.phase = "StoppingDestination" => Known(Destination)
  /\ gate' = [gate EXCEPT !.paused = TRUE]
  /\ IF coord.run = "switch" /\ ~journal.wasRunning
     THEN Advance("SourceStopped", "reserve")
     ELSE Goto("stop") /\ UNCHANGED journal
  /\ UNCHANGED <<daemon, hardware, session, startup, helper, files, txn, boot,
                 submitted, bounds>>

(* The mode to stop: the source, and the destination when a switch to it is  *)
(* undone (stop_destination) rather than a source restored offline           *)
(* (stop_recovered_system).                                                  *)
StopTarget == IF journal.phase = "StoppingDestination" THEN Destination
                                                       ELSE journal.source

(* A rollback finds the mode idle already. *)
FoundStopped ==
  /\ At("rollback", "stop")
  /\ Known(StopTarget) /\ Idle(StopTarget)
  /\ Goto("reserve")
  /\ UNCHANGED <<launch, disk, helper, boot, submitted, bounds>>

DispatchStop ==
  /\ coord.at = "stop"
  /\ CanStop(StopTarget)
  /\ journal.phase = "StoppingRecoveredSystem" => Verified(System)
  /\ Becomes(StopTarget, "stopping")
  /\ Goto("awaitStop")
  /\ UNCHANGED <<gate, hardware, session, disk, helper, boot, submitted, bounds>>

ConfirmStop ==
  /\ coord.at = "awaitStop"
  /\ Idle(StopTarget) /\ hardware = None
  /\ IF coord.run = "switch"
     THEN Advance("SourceStopped", "reserve")
     ELSE Goto("reserve") /\ UNCHANGED journal
  /\ UNCHANGED <<launch, startup, helper, files, txn, boot, submitted, bounds>>

(* reserve before the settings are touched or the startup selection changes. *)
Reserve ==
  /\ coord.at = "reserve"
  /\ CanReserve
  /\ \/ /\ coord.run = "switch"
        /\ hardware' = Coordinator
        /\ IF journal.carry THEN Advance("Publishing", "publish")
                            ELSE Advance("Published", "select")
     \/ /\ coord.run = "rollback"
        /\ journal.phase \in {"StoppingDestination", "RestoringDestination"}
        /\ hardware' = Coordinator
        /\ Advance("RestoringDestination", "recover")
     \/ /\ coord.run = "rollback" /\ journal.phase = "RestoringStartup"
        /\ hardware' = Coordinator
        /\ Goto("startup")
        /\ UNCHANGED journal
  /\ UNCHANGED <<gate, daemon, session, startup, helper, files, txn, boot,
                 submitted, bounds>>

(* reserve only to see that nothing runs; the reservation is dropped.        *)
ConfirmIdle ==
  /\ At("rollback", "reserve")
  /\ CanReserve
  /\ \/ /\ journal.phase = "StoppingRecoveredSystem"
        /\ journal' = [journal EXCEPT !.phase = "StoppingDestination",
                                      !.startBoot = 0]
        /\ submitted' = 0
        /\ Goto("begin")
     \/ /\ journal.phase = "StartingSource"
        /\ Advance("VerifyingSource", "begin")
        /\ UNCHANGED submitted
     \/ /\ journal.phase = "VerifyingSource"
        /\ Advance("RolledBack", "archive")
        /\ UNCHANGED submitted
  /\ UNCHANGED <<launch, startup, helper, files, txn, boot, bounds>>

SelectDestination ==
  /\ At("switch", "select")
  /\ Advance("SelectingDestination", "startup")
  /\ UNCHANGED <<launch, startup, helper, files, txn, boot, submitted, bounds>>

-----------------------------------------------------------------------------
(* account_publication: the helper prepares the transaction and reports it   *)
(* ready; only when the coordinator has recorded its backup in the switch    *)
(* journal may it go on.                                                     *)

(* The destination's settings once the pending transaction is undone. *)
Undone == CASE txn = "publish" -> "own"
            [] txn = "restore" -> "copied"
            [] OTHER           -> files

(* What an action of the helper leaves behind. *)
Outcome(action) == CASE action = "publish" -> "copied"
                     [] action = "restore" -> "own"
                     [] action = "recover" -> Undone

(* begin_publication, prepare_restore or resume_restore leave a journal      *)
(* pending; recovery works on the one it finds.                              *)
SpawnHelper ==
  /\ coord.at \in {"publish", "recover", "restore"}
  /\ helper = None
  /\ coord.at # "recover" => txn = None
  /\ helper' = [action |-> coord.at, state |-> "ready"]
  /\ txn' = IF coord.at = "recover" THEN txn ELSE coord.at
  /\ Goto("ready?")
  /\ UNCHANGED <<launch, startup, journal, files, boot, submitted, bounds>>

(* A helper authorized before its backup is recorded. *)
RecordNothing ==
  /\ coord.at = "ready?" /\ helper # None
  /\ Goto("proceed")
  /\ UNCHANGED <<launch, disk, helper, boot, submitted, bounds>>

(* Journal::backup. *)
RecordBackup ==
  /\ coord.at = "ready?" /\ helper # None
  /\ journal' = CASE helper.action = "publish" ->
                       [journal EXCEPT !.destinationBackup = TRUE]
                  [] helper.action = "restore" ->
                       [journal EXCEPT !.rollbackBackup = TRUE]
                  [] OTHER -> journal
  /\ Goto("proceed")
  /\ UNCHANGED <<launch, startup, helper, files, txn, boot, submitted, bounds>>

Authorize ==
  /\ coord.at = "proceed" /\ helper # None
  /\ helper' = [helper EXCEPT !.state = "working"]
  /\ Goto("done?")
  /\ UNCHANGED <<launch, disk, boot, submitted, bounds>>

(* The helper writes the files one by one ... *)
HelperWrites ==
  /\ helper # None /\ helper.state = "working"
  /\ files \notin {"mixed", Outcome(helper.action)}
  /\ files' = "mixed"
  /\ UNCHANGED <<launch, startup, journal, coord, helper, txn, boot, submitted,
                 bounds>>

(* ... and commits the transaction, whether or not the coordinator lives. *)
HelperCompletes ==
  /\ helper # None /\ helper.state = "working"
  /\ files' = Outcome(helper.action)
  /\ txn' = None
  /\ helper' = [helper EXCEPT !.state = "done"]
  /\ UNCHANGED <<launch, startup, journal, coord, boot, submitted, bounds>>

(* A helper that lost its coordinator before Proceed, or has nothing left to *)
(* do, exits; one in the midst of it may be killed (PR_SET_PDEATHSIG).       *)
OrphanExits ==
  /\ helper # None
  /\ coord.run = "none"
  /\ helper' = None
  /\ hardware' = None
  /\ UNCHANGED <<gate, daemon, session, disk, coord, boot, submitted, bounds>>

(* execute returns: the helper has exited.  Restoration goes on with the     *)
(* recorded backup, then the reservation is dropped.                         *)
HelperReturns ==
  /\ coord.at = "done?" /\ helper # None /\ helper.state = "done"
  /\ helper' = None
  /\ \/ /\ helper.action = "publish"
        /\ Advance("Published", "select")
        /\ UNCHANGED hardware
     \/ /\ helper.action = "recover" /\ journal.destinationBackup
        /\ Goto("restore")
        /\ UNCHANGED <<journal, hardware>>
     \/ /\ helper.action = "restore" \/ ~journal.destinationBackup
        /\ helper.action # "publish"
        /\ Advance("RestoringStartup", "begin")
        /\ hardware' = None
  /\ UNCHANGED <<gate, daemon, session, startup, files, txn, boot, submitted,
                 bounds>>

-----------------------------------------------------------------------------
(* service_startup::apply and restore_system: with the gate paused, what has *)
(* to change is disabled everywhere before anything is enabled.              *)

Established == \A m \in Managed : startup[m] = DesiredStartup[m]

ChangeStartup(m) ==
  /\ coord.at = "startup"
  /\ session # 0 \/ coord.run = "resume"
  /\ gate.paused
  /\ m \in Managed
  /\ startup[m] # DesiredStartup[m]
  /\ \/ /\ startup[m] # "disabled"
        /\ startup' = [startup EXCEPT ![m] = "disabled"]
     \/ /\ \A o \in Managed : startup[o] \in {"disabled", DesiredStartup[o]}
        /\ startup[m] = "disabled"
        /\ startup' = [startup EXCEPT ![m] = DesiredStartup[m]]
  /\ UNCHANGED <<launch, journal, coord, helper, files, txn, boot, submitted,
                 bounds>>

(* A gate that stays paused until its source was seen running. *)
OpenGateLater ==
  /\ coord.at = "startup"
  /\ session # 0 \/ coord.run = "resume"
  /\ Established
  /\ gate' = [selection |-> DesiredSelection, paused |-> coord.run = "resume"]
  /\ Goto("release")
  /\ UNCHANGED <<daemon, hardware, session, disk, helper, boot, submitted,
                 bounds>>

(* service_selection::resume: the gate of this switch, or the selection it   *)
(* would write, must be found.                                               *)
OpenGate ==
  /\ coord.at = "startup"
  /\ session # 0 \/ coord.run = "resume"
  /\ Established
  /\ gate.paused \/ gate.selection = DesiredSelection
  /\ gate' = [selection |-> DesiredSelection, paused |-> FALSE]
  /\ Goto("release")
  /\ UNCHANGED <<daemon, hardware, session, disk, helper, boot, submitted,
                 bounds>>

(* The next phase is recorded and the reservation dropped. *)
Release ==
  /\ coord.at = "release" /\ coord.run # "resume"
  /\ hardware' = None
  /\ IF coord.run = "switch" THEN Advance("StartingDestination", "start")
                             ELSE Advance("StartingSource", "begin")
  /\ UNCHANGED <<gate, daemon, session, startup, helper, files, txn, boot,
                 submitted, bounds>>

-----------------------------------------------------------------------------
(* native_switch::start: an idle service is started through                  *)
(* service_operation, one found starting or running is waited for.           *)

StartTarget == IF coord.run = "switch" THEN Destination ELSE journal.source

DispatchStart ==
  /\ coord.at = "start"
  /\ RuntimeKept
  /\ CanStart(StartTarget)
  /\ Becomes(StartTarget, "launched")
  /\ Goto("awaitStart")
  /\ UNCHANGED <<gate, hardware, session, disk, helper, boot, submitted, bounds>>

Started ==
  /\ coord.at \in {"start", "awaitStart"}
  /\ coord.at = "start" => RuntimeKept
  /\ Verified(StartTarget)
  /\ IF coord.run = "switch" THEN Advance("VerifyingDestination", "verify")
     ELSE IF journal.phase = "RestoringStartup" THEN Advance("StartingSource", "begin")
     ELSE Advance("VerifyingSource", "begin")
  /\ UNCHANGED <<launch, startup, helper, files, txn, boot, submitted, bounds>>

(* The instance is recorded and the switch complete, or the source verified  *)
(* once more and the rollback complete.                                      *)
Finalize ==
  /\ coord.at = "verify"
  /\ IF coord.run = "switch"
     THEN Advance("Complete", "archive")
     ELSE Verified(journal.source) /\ Advance("RolledBack", "archive")
  /\ UNCHANGED <<launch, startup, helper, files, txn, boot, submitted, bounds>>

(* cleanup_preparation and finish. *)
Archive ==
  /\ coord.at = "archive"
  /\ journal' = None
  /\ coord' = Absent
  /\ UNCHANGED <<launch, startup, helper, files, txn, boot, submitted, bounds>>

-----------------------------------------------------------------------------
(* rollback, at the phase it finds or has reached.                           *)

(* A system restoration that was interrupted is finished first. *)
BeginRestoringSystem ==
  /\ At("rollback", "begin") /\ journal.phase = "RestoringSystem"
  /\ coord' = [coord EXCEPT !.run = "resume", !.nested = TRUE]
  /\ UNCHANGED <<launch, disk, helper, boot, submitted, bounds>>

(* Deferred cleanup: the restored system source has to stop once more. *)
BeginDeferred ==
  /\ At("rollback", "begin")
  /\ journal.phase \in {"SystemRestored", "StoppingRecoveredSystem"}
  /\ session # 0 /\ Idle(User)
  /\ Advance("StoppingRecoveredSystem", "pause")
  /\ UNCHANGED <<launch, startup, helper, files, txn, boot, submitted, bounds>>

(* A discard of settings already published. *)
DiscardPublished ==
  /\ At("rollback", "begin")
  /\ journal.phase \in {"Preparing", "Ready", "Published"}
  /\ Advance("RolledBack", "archive")
  /\ UNCHANGED <<launch, startup, helper, files, txn, boot, submitted, bounds>>

(* Nothing was touched yet: only the preparation is discarded. *)
BeginDiscard ==
  /\ At("rollback", "begin") /\ journal.phase \in {"Preparing", "Ready"}
  /\ Advance("RolledBack", "archive")
  /\ UNCHANGED <<launch, startup, helper, files, txn, boot, submitted, bounds>>

(* A recovery that insists on the session of the switch. *)
DecidedForRecorded ==
  [coord EXCEPT !.runtime = journal.runtime, !.shouldRun = SourceShouldRun]

(* The session and the running state to restore are decided once.  *)
Deciding == IF coord.runtime # None THEN coord
            ELSE [coord EXCEPT !.runtime = session,
                               !.shouldRun = SourceShouldRun]

BeginRestore ==
  /\ At("rollback", "begin")
  /\ \/ /\ journal.phase \in (Forward \ {"Preparing", "Ready"})
                               \cup {"StoppingDestination"}
        /\ journal' = [journal EXCEPT !.phase = "StoppingDestination"]
        /\ coord' = [Deciding EXCEPT !.at = "pause"]
     \/ /\ journal.phase = "RestoringDestination"
        /\ coord' = [Deciding EXCEPT !.at = "reserve"]
        /\ UNCHANGED journal
     \/ /\ journal.phase = "RestoringStartup"
        /\ Known(journal.source)
        /\ IF Deciding.shouldRun /\ ~Idle(journal.source)
           THEN SelectionRestored /\ coord' = [Deciding EXCEPT !.at = "start"]
           ELSE coord' = [Deciding EXCEPT !.at = "reserve"]
        /\ UNCHANGED journal
     \/ /\ journal.phase = "StartingSource"
        /\ Deciding.runtime = session
        /\ SelectionRestored
        /\ coord' = [Deciding EXCEPT
                       !.at = IF Deciding.shouldRun THEN "start" ELSE "reserve"]
        /\ UNCHANGED journal
     \/ /\ journal.phase = "VerifyingSource"
        /\ Deciding.runtime = session
        /\ coord' = [Deciding EXCEPT
                       !.at = IF Deciding.shouldRun THEN "verify" ELSE "reserve"]
        /\ UNCHANGED journal
  /\ UNCHANGED <<launch, startup, helper, files, txn, boot, submitted, bounds>>

-----------------------------------------------------------------------------
(* system_recovery: a previous system source is brought back although the    *)
(* user's manager or home is unavailable.                                    *)

Eligible ==
  /\ journal.source = System
  /\ journal.phase \notin {"Preparing", "Ready"} \cup Terminal

BeginResume ==
  /\ At("resume", "begin")
  /\ Eligible
  /\ Advance("RestoringSystem", "loop")
  /\ UNCHANGED <<launch, startup, helper, files, txn, boot, submitted, bounds>>

(* The source is already running: its gate is reopened without stopping it. *)
ReopenLive ==
  /\ At("resume", "loop")
  /\ LiveSource
  /\ gate.paused \/ gate.selection = System
  /\ gate' = [selection |-> System, paused |-> FALSE]
  /\ Goto("live")
  /\ UNCHANGED <<daemon, hardware, session, disk, helper, boot, submitted,
                 bounds>>

(* resume returns: to the rollback that asked for it, or for this attempt.   *)
Resumed ==
  /\ journal' = [journal EXCEPT !.phase = "SystemRestored"]
  /\ coord' = IF coord.nested
              THEN [Absent EXCEPT !.run = "rollback", !.at = "begin"]
              ELSE Absent

ConfirmLive ==
  /\ At("resume", "live")
  /\ daemon[System] = "serving" /\ hardware = System
  /\ gate.selection = System
  /\ Resumed
  /\ UNCHANGED <<launch, startup, helper, files, txn, boot, submitted, bounds>>

(* An idle source: the gate is paused, the hardware reserved, the system     *)
(* enablement restored and the system selected.                              *)
PauseForSystem ==
  /\ At("resume", "loop")
  /\ Idle(System) /\ ~coord.dispatched
  /\ hardware = None
  /\ gate' = [gate EXCEPT !.paused = TRUE]
  /\ Goto("reserveSystem")
  /\ UNCHANGED <<daemon, hardware, session, disk, helper, boot, submitted,
                 bounds>>

ReserveForSystem ==
  /\ At("resume", "reserveSystem")
  /\ hardware = None
  /\ hardware' = Coordinator
  /\ Goto("startup")
  /\ UNCHANGED <<gate, daemon, session, disk, helper, boot, submitted, bounds>>

(* A start whose submission was already tried: nothing is looked at. *)
SubmitAgain ==
  /\ At("resume", "release")
  /\ hardware' = None
  /\ IF SourceShouldRun
     THEN /\ journal' = [journal EXCEPT !.startBoot = boot]
          /\ Goto("dispatch")
     ELSE Resumed
  /\ UNCHANGED <<gate, daemon, session, startup, helper, files, txn, boot,
                 submitted, bounds>>

(* submit_system_start: the submission is recorded before it is made, once   *)
(* in a boot.                                                                *)
SubmitStart ==
  /\ At("resume", "release")
  /\ hardware' = None
  /\ IF SourceShouldRun
     THEN /\ journal.startBoot # boot
          /\ journal' = [journal EXCEPT !.startBoot = boot]
          /\ Goto("dispatch")
     ELSE Resumed
  /\ UNCHANGED <<gate, daemon, session, startup, helper, files, txn, boot,
                 submitted, bounds>>

(* systemctl start: nothing happens to a unit that is not idle. *)
DispatchSystemStart ==
  /\ At("resume", "dispatch")
  /\ Becomes(System, IF Idle(System) THEN "launched" ELSE daemon[System])
  /\ submitted' = submitted + 1
  /\ coord' = [coord EXCEPT !.at = "loop", !.dispatched = TRUE]
  /\ UNCHANGED <<gate, hardware, session, disk, helper, boot, bounds>>

-----------------------------------------------------------------------------
(* Failures and the environment.                                             *)

(* The checks of a step refuse it.  Where the code waits, it refuses when    *)
(* its deadline has passed and nothing is moving any more.                   *)
Settled == \A r \in Routes : daemon[r] \in {"none", "serving"}

RunningUnexpectedly ==
  /\ Running(System)
  /\ ~SourceShouldRun \/ startup[System] # RestorationPolicy[System]

BeginRefused ==
  IF coord.run = "resume" THEN ~Eligible ELSE
  CASE journal.phase \in {"SystemRestored", "StoppingRecoveredSystem"} ->
         session = 0 \/ ~Idle(User)
    [] journal.phase = "RestoringStartup" ->
         \/ ~Known(journal.source)
         \/ /\ Deciding.shouldRun /\ ~Idle(journal.source)
            /\ ~SelectionRestored
    [] journal.phase = "StartingSource" ->
         Deciding.runtime # session \/ ~SelectionRestored
    [] journal.phase = "VerifyingSource" -> Deciding.runtime # session
    [] OTHER -> FALSE

Refused ==
  CASE coord.at = "prepare" -> \/ ~InitialState(journal.source, journal.wasRunning)
                               \/ startup # journal.startup
    [] coord.at = "ready"   -> ~SameRuntime
    [] coord.at = "begin"   -> BeginRefused
    [] coord.at = "pause"   -> /\ journal.phase = "StoppingDestination"
                               /\ ~Known(Destination)
    [] coord.at = "stop"    ->
         \/ ~Known(StopTarget)
         \/ /\ Idle(StopTarget) /\ coord.run = "switch"
         \/ Running(StopTarget) /\ ~CanStop(StopTarget)
         \/ /\ journal.phase = "StoppingRecoveredSystem"
            /\ Running(System) /\ ~Verified(System)
    [] coord.at = "awaitStop" -> ~Idle(StopTarget) /\ Settled
    [] coord.at = "reserve" -> ~CanReserve
    [] coord.at \in {"publish", "restore"} -> txn # None
    [] coord.at \in {"ready?", "proceed", "done?"} -> helper = None
    [] coord.at = "startup" ->
         \/ session = 0 /\ coord.run # "resume"
         \/ ~gate.paused /\ (~Established \/ gate.selection # DesiredSelection)
    [] coord.at = "release" ->
         coord.run = "resume" /\ SourceShouldRun /\ journal.startBoot = boot
    [] coord.at = "start" ->
         \/ ~RuntimeKept
         \/ Idle(StartTarget) /\ ~CanStart(StartTarget)
         \/ ~Verified(StartTarget) /\ ~Idle(StartTarget) /\ Settled
    [] coord.at = "awaitStart" -> ~Verified(StartTarget) /\ Settled
    [] coord.at = "verify" -> coord.run # "switch" /\ ~Verified(journal.source)
    [] coord.at = "loop" ->
         \/ RunningUnexpectedly
         \/ Idle(System) /\ ~coord.dispatched /\ hardware # None
         \/ Idle(System) /\ coord.dispatched
         \/ /\ daemon[System] = "serving" /\ ~gate.paused
            /\ gate.selection # System
    [] coord.at = "reserveSystem" -> hardware # None
    [] coord.at = "live" -> ~(daemon[System] = "serving" /\ gate.selection = System)
    [] OTHER -> FALSE

(* The next thing to run after an error: a failed switch is rolled back, a   *)
(* rollback that fails leaves the journal pending, and a system source is    *)
(* then restored offline.                                                    *)
StepFails ==
  /\ coord.run # "none"
  /\ \/ Refused /\ UNCHANGED faults
     \/ faults < Limit.faults /\ faults' = faults + 1
  /\ helper' = None
  /\ hardware' = IF hardware = Coordinator THEN None ELSE hardware
  /\ coord' =
       IF coord.at = "archive" THEN Absent
       ELSE IF coord.run = "switch"
       THEN [Absent EXCEPT !.run = "rollback", !.at = "begin"]
       ELSE IF (coord.run = "rollback" \/ coord.nested) /\ Eligible
       THEN [Absent EXCEPT !.run = "resume", !.at = "begin"]
       ELSE Absent
  /\ UNCHANGED <<gate, daemon, session, disk, boot, submitted,
                 scenario, commands, logins, switches>>

(* A crash that gives the hardware away under a helper still at work.        *)
CrashUnlocks ==
  /\ coord.run # "none"
  /\ faults < Limit.faults /\ faults' = faults + 1
  /\ coord' = Absent
  /\ hardware' = IF hardware = Coordinator THEN None ELSE hardware
  /\ UNCHANGED <<gate, daemon, session, disk, helper, boot, submitted,
                 scenario, commands, logins, switches>>

(* The coordinator is killed; a helper it had authorized goes on, and keeps  *)
(* both locks through the descriptors it inherited.                          *)
Crash ==
  /\ coord.run # "none"
  /\ faults < Limit.faults /\ faults' = faults + 1
  /\ coord' = Absent
  /\ hardware' = IF hardware = Coordinator /\ helper = None THEN None ELSE hardware
  /\ UNCHANGED <<gate, daemon, session, disk, helper, boot, submitted,
                 scenario, commands, logins, switches>>

(* The helper is killed, or gives up, under a living coordinator. *)
HelperFails ==
  /\ helper # None /\ coord.run # "none"
  /\ faults < Limit.faults /\ faults' = faults + 1
  /\ helper' = None
  /\ UNCHANGED <<launch, disk, coord, boot, submitted, scenario, commands,
                 logins, switches>>

(* Runtime enablement of the modes ends with its directory. *)
Expire(ms) ==
  startup' = [m \in Modes |->
    IF m \in ms /\ startup[m] = "runtime" THEN "disabled" ELSE startup[m]]

Kill(routes) ==
  /\ daemon' = [r \in Routes |-> IF r \in routes THEN "none" ELSE daemon[r]]
  /\ hardware' = IF hardware \in routes THEN None ELSE hardware

Logout ==
  /\ session # 0
  /\ session' = 0
  /\ Kill(Routes \ {System})
  /\ Expire({User})
  /\ UNCHANGED <<gate, journal, coord, helper, files, txn, boot, submitted,
                 bounds>>

(* A new runtime directory; the user manager starts what is enabled. *)
Login ==
  /\ session = 0
  /\ logins < Limit.logins
  /\ logins' = logins + 1
  /\ session' = logins + 1
  /\ daemon' = [daemon EXCEPT ![User] =
                  IF startup[User] = "enabled" THEN "launched" ELSE "none"]
  /\ UNCHANGED <<gate, hardware, switching, scenario, commands, faults,
                 switches>>

Reboot ==
  /\ boot < Limit.boots
  /\ boot' = boot + 1
  /\ session' = 0
  /\ Expire(Modes)
  /\ daemon' = [r \in Routes |-> IF r = System /\ startup[System] = "enabled"
                                 THEN "launched" ELSE "none"]
  /\ hardware' = None
  /\ coord' = Absent
  /\ helper' = None
  /\ submitted' = 0
  /\ UNCHANGED <<gate, journal, files, txn, bounds>>

ByHand(r) ==
  /\ r \in Limit.byHand
  /\ commands < Limit.commands /\ commands' = commands + 1
  /\ Launch(r) \/ StopByHand(r)
  /\ UNCHANGED <<switching, scenario, faults, logins, switches>>

DaemonFault(r) ==
  /\ faults < Limit.faults /\ faults' = faults + 1
  /\ DaemonFails(r)
  /\ UNCHANGED <<switching, scenario, commands, logins, switches>>

-----------------------------------------------------------------------------

(* The coordinator goes on by itself. *)
CoordinatorStep ==
  \/ Prepare \/ AnnounceStop \/ PauseLaunches
  \/ FoundStopped \/ DispatchStop \/ ConfirmStop
  \/ Reserve \/ ConfirmIdle \/ SelectDestination
  \/ SpawnHelper \/ RecordBackup \/ Authorize \/ HelperReturns
  \/ \E m \in Modes : ChangeStartup(m)
  \/ OpenGate \/ Release \/ DispatchStart \/ Started \/ Finalize \/ Archive
  \/ BeginRestoringSystem \/ BeginDeferred \/ BeginDiscard \/ BeginRestore
  \/ BeginResume \/ ReopenLive \/ ConfirmLive
  \/ PauseForSystem \/ ReserveForSystem \/ SubmitStart \/ DispatchSystemStart

HelperStep == HelperWrites \/ HelperCompletes \/ OrphanExits

Request ==
  \E source \in Limit.sources, running, carry \in BOOLEAN :
    RequestSwitch(source, running, carry)

Environment ==
  \/ \E r \in Routes : ByHand(r) \/ DaemonFault(r)
  \/ Logout \/ Login \/ Reboot
  \/ Crash \/ HelperFails

Daemon(r) == DaemonStep(r) /\ UNCHANGED <<switching, bounds>>

SwitchNext ==
  \/ Request \/ RequestRecovery
  \/ CoordinatorStep \/ StepFails \/ HelperStep
  \/ \E r \in Routes : Daemon(r)
  \/ Environment

(* A coordinator runs until it returns, helpers and daemons make progress,   *)
(* and recovery is requested again (at boot, at login, by the GUI) as long   *)
(* as there is a journal.                                                    *)
SwitchFairness ==
  /\ WF_vars(CoordinatorStep)
  /\ WF_vars(Refused /\ StepFails)
  /\ WF_vars(HelperStep)
  /\ \A r \in Routes : WF_vars(Daemon(r))
  /\ WF_vars(RequestRecovery)

SwitchSpec == SwitchInit /\ [][SwitchNext]_vars
FairSwitchSpec == SwitchSpec /\ SwitchFairness

-----------------------------------------------------------------------------

(* The type of every variable. *)
SwitchTypeOK ==
  /\ LaunchTypeOK
  /\ startup \in Policies
  /\ journal \in Record \cup {None}
  /\ coord \in Coordinators
  /\ helper \in Helpers \cup {None}
  /\ files \in {"own", "copied", "mixed"}
  /\ txn \in {"publish", "restore", None}
  /\ boot \in Nat /\ submitted \in Nat
  /\ scenario \in DOMAIN Scenarios
  /\ {commands, faults, logins, switches} \subseteq Nat

(* The settings of the destination are only rewritten while no daemon can    *)
(* drive the hardware, even by a helper whose coordinator is dead.           *)
RewrittenWhileStopped ==
  helper # None /\ helper.state = "working" =>
    hardware = Coordinator /\ \A r \in Routes : daemon[r] # "serving"

(* The destination is held back: as long as a transaction is pending beside  *)
(* its settings, the gate keeps its daemon from starting; and it does not    *)
(* drive the hardware while its settings are restored or the system source   *)
(* runs in its place.  Nobody is held back for good: a gate that is paused   *)
(* has the journal beside it whose recovery opens it.                        *)
DestinationHeldBack ==
  /\ gate.paused => Pending
  /\ txn # None => Pending /\ ~Allowed(Destination)
  /\ Pending /\ journal.phase \in {"RestoringDestination", "SystemRestored"} =>
       daemon[Destination] # "serving"

(* Whatever changed in the destination's settings can be undone: the journal *)
(* names the backup before the first file is written.                        *)
ChangedSettingsHaveBackup ==
  files # "own" /\ Pending => journal.destinationBackup

(* "An uncertain submission is not automatically repeated during the same    *)
(* boot" (docs/service-modes.md): one offline start, until that service was  *)
(* seen running and was stopped cleanly.                                     *)
SubmittedOnce == submitted <= 1

(* The host as a recovery would leave it: as recorded, unless the switch is  *)
(* complete.                                                                 *)
Undecided == Pending /\ journal.phase # "Complete"

Abstract == INSTANCE AtomicSwitch WITH
  selection <- IF Undecided THEN journal.previous ELSE gate.selection,
  startup <- IF Undecided THEN RestorationPolicy ELSE startup,
  files <- IF Undecided THEN "own" ELSE files

(* A switch is atomic: selection, enablement and settings change together or *)
(* are all as before.                                                        *)
SwitchIsAtomic == Abstract!Spec

(* A pending switch of an idle source is finished or undone, unless somebody *)
(* starts or stops daemons by hand or the user stays logged out.             *)
SwitchResolves ==
  (Pending /\ Limit.commands = 0) ~> (~Pending \/ session = 0)

(* What can go wrong at most, counted. *)
Troubles == UNION {0..(Scenarios[s].faults + Scenarios[s].commands) : s \in DOMAIN Scenarios}

(* The one submission of this boot came to nothing: whoever recorded it went *)
(* before the start was dispatched, or the daemon it started is gone.        *)
StartSpent ==
  /\ journal.startBoot = boot
  /\ IF submitted = 0 THEN coord.at # "dispatch" ELSE daemon[System] = "none"

(* A previous system source serves again although the user's session does    *)
(* not come back, whatever fails meanwhile: unless the switch succeeded, or  *)
(* a new boot is not to start it, or its one start in this boot came to      *)
(* nothing, and then because something failed or was done by hand since.     *)
SystemSourceReturns ==
  \A n \in Troubles :
    (/\ Pending /\ Eligible /\ SourceShouldRun /\ journal.startBoot # boot
     /\ faults + commands = n) ~>
       \/ daemon[System] = "serving"
       \/ ~Pending /\ gate.selection = User
       \/ Pending /\ ~SourceShouldRun
       \/ Pending /\ StartSpent /\ faults + commands > n

(* "Within the original boot and user runtime directory, recovery retains    *)
(* the recorded running state" (docs/service-modes.md): once the startup     *)
(* selection is restored, a source that ran is running again.                *)
RecordedStateRetained ==
  (/\ Pending /\ journal.phase = "StartingSource"
   /\ journal.wasRunning /\ SameBoot /\ SameRuntime) ~>
     \/ \E m \in Modes : daemon[m] = "serving"
     \/ Pending /\ ~(SameBoot /\ SameRuntime)
     \/ session = 0

(* Deferred cleanup "briefly stops the restored system daemon cleanly ...    *)
(* and restores the original ... running state" (docs/service-modes.md).     *)
DeferredStopIsBrief ==
  (Pending /\ journal.phase = "StoppingRecoveredSystem" /\ SourceShouldRun) ~>
     \/ daemon[System] = "serving"
     \/ ~Pending
     \/ ~SourceShouldRun

=============================================================================
