------------------------- MODULE ServiceSwitchProofs -------------------------
(***************************************************************************)
(* One daemon drives the hardware and it is the selected one, settings are  *)
(* rewritten only behind its back, and a switch is atomic: for any hosts,   *)
(* any routes, and any numbers of commands, faults, sessions, boots and     *)
(* switches.                                                                *)
(***************************************************************************)
EXTENDS ServiceSwitch, TLAPS

(* Who holds the PID file, and the daemon that got it is the selected one.   *)
LockInv ==
  \A r \in Routes :
    /\ daemon[r] \in {"locked", "serving", "stopping"} => hardware = r
    /\ daemon[r] \in {"serving", "stopping"} => gate.selection \in {None, ScopeOf(r)}

(* What the coordinator does in each phase of the journal. *)
TableInv ==
  /\ Pending /\ journal.phase \in Deferred => journal.source = System
  /\ coord.run # "none" => Pending
  /\ coord.run = "none" => coord.at = "none"
  /\ coord.run = "switch" =>
       \/ coord.at = "prepare" /\ journal.phase = "Preparing"
       \/ coord.at = "ready" /\ journal.phase = "Ready"
       \/ coord.at \in {"pause", "stop", "awaitStop"} /\ journal.phase = "StoppingSource"
       \/ coord.at = "reserve" /\ journal.phase = "SourceStopped"
       \/ coord.at \in {"publish", "ready?", "proceed", "done?"} /\ journal.phase = "Publishing"
       \/ coord.at = "select" /\ journal.phase = "Published"
       \/ coord.at \in {"startup", "release"} /\ journal.phase = "SelectingDestination"
       \/ coord.at \in {"start", "awaitStart"} /\ journal.phase = "StartingDestination"
       \/ coord.at = "verify" /\ journal.phase = "VerifyingDestination"
       \/ coord.at = "archive" /\ journal.phase = "Complete"
  /\ coord.run = "rollback" =>
       \/ coord.at = "begin" /\ journal.phase \notin Terminal
       \/ /\ coord.at \in {"pause", "stop", "awaitStop"}
          /\ journal.phase \in {"StoppingDestination", "StoppingRecoveredSystem"}
       \/ /\ coord.at = "reserve"
          /\ journal.phase \in {"StoppingDestination", "StoppingRecoveredSystem",
               "RestoringDestination", "RestoringStartup", "StartingSource", "VerifyingSource"}
       \/ /\ coord.at \in {"recover", "restore", "ready?", "proceed", "done?"}
          /\ journal.phase = "RestoringDestination"
       \/ coord.at \in {"startup", "release"} /\ journal.phase = "RestoringStartup"
       \/ /\ coord.at \in {"start", "awaitStart"}
          /\ journal.phase \in {"RestoringStartup", "StartingSource"}
       \/ coord.at = "verify" /\ journal.phase = "VerifyingSource"
       \/ coord.at = "archive" /\ journal.phase \in Terminal
  /\ coord.run = "resume" =>
       /\ journal.source = System
       /\ \/ coord.at = "begin" /\ journal.phase \notin Terminal
          \/ /\ coord.at \in {"loop", "live", "reserveSystem", "startup", "release", "dispatch"}
             /\ journal.phase = "RestoringSystem"

(* While the coordinator or its helper needs the hardware idle, it is theirs. *)
HoldInv ==
  /\ coord.at \in {"publish", "recover", "restore", "ready?", "proceed", "done?",
                    "select", "startup", "release"}
       => hardware = Coordinator
  /\ helper # None => hardware = Coordinator

(* A helper works on the files of its phase, and has its backup recorded. *)
HelperInv ==
  /\ coord.at = "restore" => journal.destinationBackup
  /\ helper # None =>
       /\ Pending
       /\ journal.phase =
            (IF helper.action = "publish" THEN "Publishing" ELSE "RestoringDestination")
       /\ coord.run # "none" => coord.at \in {"ready?", "proceed", "done?"}
       /\ coord.run # "none" /\ coord.at # "done?" => helper.state = "ready"
       /\ helper.action = "restore" => journal.destinationBackup
       /\ helper.action = "publish" /\ (helper.state # "ready" \/ coord.at = "proceed") =>
            journal.destinationBackup
       /\ helper.state = "done" =>
            /\ txn = None
            /\ helper.action = "publish" => files = "copied"
            /\ helper.action = "restore" => files = "own"

(* The settings of the destination, phase by phase. *)
FilesInv ==
  /\ files # "own" /\ Pending => journal.destinationBackup
  /\ txn # None =>
       /\ Pending
       /\ journal.phase \in {"Publishing", "StoppingDestination", "RestoringDestination"}
                              \cup Deferred
  /\ txn = "restore" => journal.destinationBackup
  /\ Pending /\ journal.phase \in {"Preparing", "Ready", "StoppingSource",
         "SourceStopped", "RestoringStartup", "StartingSource", "VerifyingSource",
         "RolledBack"}
       => files = "own"
  /\ Pending /\ journal.phase \in {"Published", "SelectingDestination",
                                   "StartingDestination", "VerifyingDestination"}
       => files # "mixed"

(* Where launches are paused, and what keeps the destination from launching. *)
GateInv ==
  /\ txn # None => gate.paused \/ gate.selection = journal.source
  /\ Pending /\ journal.phase = "RestoringDestination" =>
       gate.paused /\ daemon[Destination] # "serving"
  /\ Pending /\ journal.phase = "SystemRestored" =>
       gate.selection = System /\ daemon[User] # "serving"
  /\ coord.run = "switch" /\ coord.at \in {"stop", "awaitStop", "reserve", "publish",
                                          "ready?", "proceed", "done?"}
       => gate.paused
  /\ coord.run = "rollback" /\ coord.at \in {"stop", "awaitStop", "reserve"} =>
       journal.phase # "StoppingDestination" \/ gate.paused
  /\ coord.run = "resume" /\ coord.at = "release" => gate.selection = System

(* One submission, which the journal accounts for. *)
SubmitInv ==
  /\ \/ submitted = 0
     \/ /\ submitted = 1
        /\ Pending /\ journal.phase \in Deferred /\ journal.startBoot = boot
        /\ coord.at # "dispatch"
  /\ coord.at = "dispatch" => journal.startBoot = boot

(* The host is as recorded before anything was changed and once all is       *)
(* restored, and as asked for once the destination is selected.              *)
AsRecorded ==
  /\ gate.selection = journal.previous /\ ~gate.paused
  /\ startup = RestorationPolicy

HostInv ==
  /\ session <= logins
  /\ Pending => /\ journal.boot <= boot
                /\ journal.runtime <= logins /\ journal.runtime # 0
  /\ Pending /\ journal.phase \in {"Preparing", "Ready", "StartingSource",
                                   "VerifyingSource", "RolledBack"} => AsRecorded
  /\ coord.run = "rollback" /\ coord.at \in {"release", "start", "awaitStart"} => AsRecorded
  /\ coord.run = "switch" /\ coord.at \in {"release", "start", "awaitStart", "verify"} =>
       gate.selection = Destination /\ ~gate.paused /\ startup = Only(Destination)
  /\ gate.paused => Pending /\ journal.phase # "Complete"

IInv ==
  /\ SwitchTypeOK /\ LockInv /\ TableInv /\ HoldInv /\ HelperInv /\ FilesInv
  /\ GateInv /\ SubmitInv /\ HostInv

-----------------------------------------------------------------------------
(* The enablement to restore depends on what the journal recorded, on the    *)
(* boot and on the session, not on the phase.                                *)
LEMMA PolicyKept ==
  ASSUME journal'.startup = journal.startup, journal'.boot = journal.boot,
         journal'.runtime = journal.runtime, boot' = boot, session' = session
  PROVE  RestorationPolicy' = RestorationPolicy
BY DEF RestorationPolicy, SameBoot, SameRuntime

(* The journal keeps what it recorded of the host. *)
SameHost ==
  /\ Pending' /\ journal' \in Record
  /\ journal'.source = journal.source /\ journal'.wasRunning = journal.wasRunning
  /\ journal'.previous = journal.previous /\ journal'.startup = journal.startup
  /\ journal'.boot = journal.boot /\ journal'.runtime = journal.runtime

(* Where the coordinator goes on. *)
Goes(run, at) == coord' \in Coordinators /\ coord'.run = run /\ coord'.at = at

(* The phase and the place go on, and nothing else. *)
Keeps(phase, at) ==
  /\ SameHost
  /\ journal'.phase = phase
  /\ journal'.destinationBackup = journal.destinationBackup
  /\ journal'.startBoot = journal.startBoot
  /\ Goes(coord.run, at)

(* The absence of a journal, a helper or a transaction is none of these. *)
LEMMA NotRecord == None \notin Record /\ None \notin Helpers /\ None \notin {"publish", "restore"}
BY NoneAssumption

(* No coordinator runs. *)
LEMMA AbsentType == Absent \in Coordinators /\ Absent.run = "none" /\ Absent.at = "none"
BY DEF Absent, Coordinators, Places

(* What a coordinator that has begun is. *)
LEMMA BeginType ==
  ASSUME NEW run \in {"switch", "rollback", "resume"}, NEW at \in Places
  PROVE  /\ [Absent EXCEPT !.run = run, !.at = at] \in Coordinators
         /\ [Absent EXCEPT !.run = run, !.at = at].run = run
         /\ [Absent EXCEPT !.run = run, !.at = at].at = at
BY DEF Absent, Coordinators

(* advance writes the phase and goes on. *)
LEMMA AdvanceEffect ==
  ASSUME SwitchTypeOK, Pending, NEW phase \in Phases, NEW at \in Places, Advance(phase, at)
  PROVE  Keeps(phase, at)
<1>1. journal \in Record /\ coord \in Coordinators
  BY DEF SwitchTypeOK, Pending
<1>2. journal' = [journal EXCEPT !.phase = phase] /\ coord' = [coord EXCEPT !.at = at]
  BY DEF Advance, Goto
<1>3. journal' \in Record
  BY <1>1, <1>2 DEF Record
<1>4. coord' \in Coordinators
  BY <1>1, <1>2 DEF Coordinators
<1>5. journal' # None
  BY <1>3, NotRecord
<1> QED
  BY <1>1, <1>2, <1>3, <1>4, <1>5 DEF Keeps, SameHost, Goes, Pending, Record, Coordinators

(* Only the place changes. *)
LEMMA GotoEffect ==
  ASSUME SwitchTypeOK, Pending, NEW at \in Places, Goto(at), UNCHANGED journal
  PROVE  Keeps(journal.phase, at)
<1>1. journal \in Record /\ coord \in Coordinators
  BY DEF SwitchTypeOK, Pending
<1>2. coord' = [coord EXCEPT !.at = at]
  BY DEF Goto
<1>3. coord' \in Coordinators
  BY <1>1, <1>2 DEF Coordinators
<1> QED
  BY <1>1, <1>2, <1>3 DEF Keeps, SameHost, Goes, Pending, Coordinators

(* The running state to restore is decided, wherever that is. *)
LEMMA DecidingEffect ==
  ASSUME SwitchTypeOK, Pending, NEW at \in Places, coord' = [Deciding EXCEPT !.at = at]
  PROVE  Goes(coord.run, at)
<1>1. journal \in Record /\ coord \in Coordinators /\ session \in Nat
  BY DEF SwitchTypeOK, LaunchTypeOK, Pending
<1>2. SourceShouldRun \in BOOLEAN
  BY <1>1 DEF SourceShouldRun, Record
<1>3. Deciding \in Coordinators /\ Deciding.run = coord.run
  BY <1>1, <1>2 DEF Deciding, Coordinators
<1> HIDE DEF Deciding
<1>4. [Deciding EXCEPT !.at = at] \in Coordinators
  BY <1>3 DEF Coordinators
<1> QED
  BY <1>3, <1>4 DEF Goes, Coordinators

(* What there is to restore is enablement of the two units. *)
LEMMA PolicyType ==
  ASSUME journal \in Record
  PROVE  RestorationPolicy \in Policies /\ DesiredStartup \in Policies
<1>1. journal.startup \in Policies
  BY DEF Record
<1>2. RestorationPolicy \in Policies
  BY <1>1 DEF RestorationPolicy, Policies, Startups
<1>3. Only(Destination) \in Policies
  BY DEF Only, Policies, Startups
<1> QED
  BY <1>2, <1>3 DEF DesiredStartup

(* A journal written now restores what is enabled now. *)
LEMMA PolicyRecorded ==
  ASSUME startup \in Policies, startup' = startup, journal'.startup = startup,
         journal'.boot = boot', journal'.runtime = session'
  PROVE  RestorationPolicy' = startup'
BY DEF RestorationPolicy, SameBoot, SameRuntime, Policies

(* resume returns, and the system source is restored. *)
LEMMA ResumedEffect ==
  ASSUME SwitchTypeOK, Pending, Resumed
  PROVE  /\ SameHost /\ journal'.phase = "SystemRestored"
         /\ journal'.destinationBackup = journal.destinationBackup
         /\ journal'.startBoot = journal.startBoot
         /\ Goes("rollback", "begin") \/ Goes("none", "none")
<1>1. journal \in Record
  BY DEF SwitchTypeOK, Pending
<1>2. journal' = [journal EXCEPT !.phase = "SystemRestored"]
  BY DEF Resumed
<1>3. journal' \in Record
  BY <1>1, <1>2 DEF Record, Phases, Deferred
<1>4. Goes("rollback", "begin") \/ Goes("none", "none")
  BY AbsentType, BeginType DEF Resumed, Goes, Places
<1> QED
  BY <1>1, <1>2, <1>3, <1>4, NotRecord DEF SameHost, Pending, Record

(* A daemon takes the hardware when it is free, gives up its own, and serves *)
(* only when it was let pass.                                                *)
DaemonMoves ==
  /\ daemon' \in [Routes -> DaemonStates]
  /\ hardware' \in Routes \cup {Coordinator, None}
  /\ hardware = Coordinator => hardware' = Coordinator
  /\ \A r \in Routes :
       /\ daemon'[r] \in {"locked", "serving", "stopping"} => hardware' = r
       /\ daemon'[r] = "serving" => daemon[r] = "serving" \/ Allowed(r)
       /\ daemon'[r] = "stopping" => daemon[r] \in {"serving", "stopping"}

(* A switch begins: the journal records the host. *)
LEMMA RequestSwitchEffect ==
  ASSUME IInv, NEW source \in Modes, NEW running \in BOOLEAN, NEW carry \in BOOLEAN,
         RequestSwitch(source, running, carry)
  PROVE  /\ Pending' /\ journal' \in Record /\ journal'.phase = "Preparing"
         /\ journal'.source = source /\ journal'.previous = gate.selection
         /\ journal'.boot = boot /\ journal'.runtime = session
         /\ RestorationPolicy' = startup /\ Goes("switch", "prepare")
<1>1. /\ session \in Nat /\ boot \in Nat /\ startup \in Policies
      /\ gate.selection \in Modes \cup {None}
  BY DEF IInv, SwitchTypeOK, LaunchTypeOK, Gates
<1>2. /\ journal' = [phase |-> "Preparing", source |-> source,
               wasRunning |-> running, previous |-> gate.selection,
               startup |-> startup, carry |-> carry, boot |-> boot,
               runtime |-> session, destinationBackup |-> FALSE,
               rollbackBackup |-> FALSE, startBoot |-> 0]
      /\ UNCHANGED <<boot, session, startup>>
  BY DEF RequestSwitch, launch
<1>3. journal' \in Record
  BY <1>1, <1>2 DEF Record, Phases, Forward
<1>4. Goes("switch", "prepare")
  BY BeginType DEF RequestSwitch, Goes, Places
<1>5. RestorationPolicy' = startup
  BY <1>1, <1>2, PolicyRecorded
<1> QED
  BY <1>2, <1>3, <1>4, <1>5, NotRecord DEF Pending

(* The invariant is kept. *)
LEMMA RequestSwitchKeeps ==
  ASSUME IInv, NEW source \in Modes, NEW running \in BOOLEAN, NEW carry \in BOOLEAN,
         RequestSwitch(source, running, carry)
  PROVE  IInv'
<1>1. SwitchTypeOK'
  <2>1. switches' \in Nat
    BY DEF IInv, SwitchTypeOK, RequestSwitch
  <2>2. files' = "own" /\ UNCHANGED <<launch, startup, helper, txn, boot, submitted, scenario, commands, faults, logins>>
    BY DEF RequestSwitch
  <2> QED
    BY <2>1, <2>2, RequestSwitchEffect DEF IInv, SwitchTypeOK, LaunchTypeOK, launch,
      Goes
<1>2. LockInv'
  BY DEF IInv, LockInv, RequestSwitch, launch
<1>3. TableInv'
  BY RequestSwitchEffect DEF IInv, TableInv, RequestSwitch, Deferred
<1>4. HoldInv'
  BY DEF IInv, HoldInv, RequestSwitch, launch
<1>5. HelperInv'
  BY DEF IInv, HelperInv, RequestSwitch
<1>6. FilesInv'
  BY NotRecord DEF IInv, FilesInv, RequestSwitch
<1>7. GateInv'
  BY DEF IInv, FilesInv, GateInv, RequestSwitch
<1>8. SubmitInv'
  BY DEF IInv, SubmitInv, RequestSwitch
<1>9. HostInv'
  BY RequestSwitchEffect DEF IInv, SwitchTypeOK, HostInv, RequestSwitch,
    InitialState, launch, AsRecorded
<1> QED
  BY <1>1, <1>2, <1>3, <1>4, <1>5, <1>6, <1>7, <1>8, <1>9 DEF IInv

(* Recovery takes up a journal. *)
LEMMA RequestRecoveryEffect ==
  ASSUME IInv, RequestRecovery
  PROVE  \/ journal.phase \in Terminal /\ Goes("rollback", "archive")
         \/ journal.phase \notin Terminal /\ Goes("rollback", "begin")
<1>1. CASE journal.phase \in Terminal
  BY <1>1, BeginType DEF RequestRecovery, Goes, Places
<1>2. CASE journal.phase \notin Terminal
  BY <1>2, BeginType DEF RequestRecovery, Goes, Places
<1> QED
  BY <1>1, <1>2

(* The invariant is kept. *)
LEMMA RequestRecoveryKeeps ==
  ASSUME IInv, RequestRecovery
  PROVE  IInv'
<1>1. SwitchTypeOK'
  BY RequestRecoveryEffect DEF IInv, SwitchTypeOK, RequestRecovery, Goes,
    LaunchTypeOK, launch, disk, bounds
<1>2. LockInv'
  BY DEF IInv, LockInv, RequestRecovery, launch
<1>3. TableInv'
  BY DEF IInv, TableInv, RequestRecovery, Pending, disk
<1>4. HoldInv'
  BY DEF IInv, HoldInv, RequestRecovery, launch
<1>5. HelperInv'
  BY DEF IInv, HelperInv, RequestRecovery, OperationFree
<1>6. FilesInv'
  BY DEF IInv, FilesInv, RequestRecovery, Pending, disk
<1>7. GateInv'
  BY DEF IInv, GateInv, RequestRecovery, Destination, launch, disk
<1>8. SubmitInv'
  BY DEF IInv, SubmitInv, RequestRecovery, Pending, disk
<1>9. HostInv'
  BY PolicyKept DEF IInv, HostInv, RequestRecovery, Pending, launch, disk, bounds,
    AsRecorded
<1> QED
  BY <1>1, <1>2, <1>3, <1>4, <1>5, <1>6, <1>7, <1>8, <1>9 DEF IInv

(* The settings to carry over are prepared. *)
LEMMA PrepareEffect ==
  ASSUME IInv, Prepare
  PROVE  Keeps("Ready", "ready")
BY AdvanceEffect DEF Prepare, IInv, TableInv, At, Forward, Phases, Places

(* The invariant is kept. *)
LEMMA PrepareKeeps ==
  ASSUME IInv, Prepare
  PROVE  IInv'
<1>1. SwitchTypeOK'
  BY PrepareEffect DEF IInv, SwitchTypeOK, Prepare, Keeps, SameHost, Goes,
    LaunchTypeOK, launch, bounds
<1>2. LockInv'
  BY DEF IInv, LockInv, Prepare, launch
<1>3. TableInv'
  BY PrepareEffect DEF IInv, TableInv, Prepare, Keeps, SameHost, Goes, At, Deferred
<1>4. HoldInv'
  BY PrepareEffect DEF IInv, HoldInv, Prepare, Keeps, Goes, launch
<1>5. HelperInv'
  BY PrepareEffect DEF IInv, HelperInv, Prepare, Keeps, Goes, At
<1>6. FilesInv'
  BY PrepareEffect DEF IInv, TableInv, FilesInv, Prepare, Keeps, At, Deferred
<1>7. GateInv'
  BY PrepareEffect DEF IInv, GateInv, Prepare, Keeps, SameHost, Goes, launch
<1>8. SubmitInv'
  BY PrepareEffect DEF IInv, TableInv, SubmitInv, Prepare, Keeps, Goes, At, Deferred
<1>9. HostInv'
  BY PrepareEffect, PolicyKept DEF IInv, TableInv, HostInv, Prepare, Keeps, SameHost,
    Goes, At, launch, bounds, AsRecorded
<1> QED
  BY <1>1, <1>2, <1>3, <1>4, <1>5, <1>6, <1>7, <1>8, <1>9 DEF IInv

(* The journal announces the stop. *)
LEMMA AnnounceStopEffect ==
  ASSUME IInv, AnnounceStop
  PROVE  Keeps("StoppingSource", "pause")
BY AdvanceEffect DEF AnnounceStop, IInv, TableInv, At, Forward, Phases, Places

(* The invariant is kept. *)
LEMMA AnnounceStopKeeps ==
  ASSUME IInv, AnnounceStop
  PROVE  IInv'
<1>1. SwitchTypeOK'
  BY AnnounceStopEffect DEF IInv, SwitchTypeOK, AnnounceStop, Keeps, SameHost, Goes,
    LaunchTypeOK, launch, bounds
<1>2. LockInv'
  BY DEF IInv, LockInv, AnnounceStop, launch
<1>3. TableInv'
  BY AnnounceStopEffect DEF IInv, TableInv, AnnounceStop, Keeps, SameHost, Goes, At,
    Deferred
<1>4. HoldInv'
  BY AnnounceStopEffect DEF IInv, HoldInv, AnnounceStop, Keeps, Goes, launch
<1>5. HelperInv'
  BY AnnounceStopEffect DEF IInv, HelperInv, AnnounceStop, Keeps, Goes, At
<1>6. FilesInv'
  BY AnnounceStopEffect DEF IInv, TableInv, FilesInv, AnnounceStop, Keeps, At,
    Deferred
<1>7. GateInv'
  BY AnnounceStopEffect DEF IInv, GateInv, AnnounceStop, Keeps, SameHost, Goes,
    launch
<1>8. SubmitInv'
  BY AnnounceStopEffect DEF IInv, TableInv, SubmitInv, AnnounceStop, Keeps, Goes, At,
    Deferred
<1>9. HostInv'
  BY AnnounceStopEffect DEF IInv, TableInv, HostInv, AnnounceStop, Keeps, SameHost,
    Goes, At, launch, bounds
<1> QED
  BY <1>1, <1>2, <1>3, <1>4, <1>5, <1>6, <1>7, <1>8, <1>9 DEF IInv

(* Launches are paused. *)
LEMMA PauseLaunchesEffect ==
  ASSUME IInv, PauseLaunches
  PROVE  \/ coord.run = "switch" /\ Keeps("SourceStopped", "reserve")
         \/ coord.run # "none" /\ Keeps(journal.phase, "stop")
BY AdvanceEffect, GotoEffect DEF PauseLaunches, IInv, TableInv, Forward, Phases,
  Places

(* The invariant is kept. *)
LEMMA PauseLaunchesKeeps ==
  ASSUME IInv, PauseLaunches
  PROVE  IInv'
<1>1. SwitchTypeOK'
  BY RoutesAssumption, PauseLaunchesEffect DEF IInv, SwitchTypeOK, LockInv, TableInv,
    HoldInv, HelperInv, FilesInv, GateInv, SubmitInv, HostInv, PauseLaunches, Keeps,
    SameHost, Goes, LaunchTypeOK, Gates, Helpers, Pending, Destination, Other, Modes,
    At, launch, switching, disk, bounds, Terminal, Forward, Backward, Deferred,
    Phases
<1>2. LockInv'
  BY DEF IInv, LockInv, PauseLaunches
<1>3. TableInv'
  BY PauseLaunchesEffect DEF IInv, TableInv, PauseLaunches, Keeps, SameHost, Goes,
    Deferred
<1>4. HoldInv'
  BY PauseLaunchesEffect DEF IInv, HoldInv, PauseLaunches, Keeps, Goes
<1>5. HelperInv'
  BY PauseLaunchesEffect DEF IInv, HelperInv, PauseLaunches, Keeps, Goes
<1>6. FilesInv'
  BY PauseLaunchesEffect DEF IInv, TableInv, FilesInv, PauseLaunches, Keeps, Pending,
    Deferred
<1>7. GateInv'
  BY PauseLaunchesEffect DEF IInv, TableInv, GateInv, PauseLaunches, Keeps, Goes,
    Destination
<1>8. SubmitInv'
  BY PauseLaunchesEffect DEF IInv, TableInv, SubmitInv, PauseLaunches, Keeps, Goes,
    Pending, Deferred
<1>9. HostInv'
  <2>1. Pending /\ coord.at = "pause" /\ coord.run \in {"switch", "rollback"}
    BY DEF IInv, SwitchTypeOK, TableInv, PauseLaunches, Coordinators
  <2>2. journal.phase \in {"StoppingSource", "StoppingDestination", "StoppingRecoveredSystem"}
    BY <2>1 DEF IInv, TableInv
  <2>3. SameHost /\ coord'.run = coord.run /\ coord'.at \in {"stop", "reserve"}
    BY PauseLaunchesEffect DEF Keeps, Goes
  <2>4. journal'.phase \in {"SourceStopped", "StoppingSource", "StoppingDestination",
                           "StoppingRecoveredSystem"}
    BY <2>2, PauseLaunchesEffect DEF Keeps
  <2>5. session' = session /\ logins' = logins /\ boot' = boot
    BY DEF PauseLaunches, bounds
  <2> QED
    BY <2>1, <2>3, <2>4, <2>5 DEF IInv, HostInv, SameHost
<1> QED
  BY <1>1, <1>2, <1>3, <1>4, <1>5, <1>6, <1>7, <1>8, <1>9 DEF IInv

(* The mode is idle already. *)
LEMMA FoundStoppedEffect ==
  ASSUME IInv, FoundStopped
  PROVE  Keeps(journal.phase, "reserve")
BY GotoEffect DEF FoundStopped, disk, IInv, TableInv, At, Places

(* The invariant is kept. *)
LEMMA FoundStoppedKeeps ==
  ASSUME IInv, FoundStopped
  PROVE  IInv'
<1>1. SwitchTypeOK'
  BY FoundStoppedEffect DEF IInv, SwitchTypeOK, FoundStopped, Keeps, Goes,
    LaunchTypeOK, launch, disk, bounds
<1>2. LockInv'
  BY DEF IInv, LockInv, FoundStopped, launch
<1>3. TableInv'
  BY FoundStoppedEffect DEF IInv, TableInv, FoundStopped, Keeps, Goes, Pending, At,
    disk
<1>4. HoldInv'
  BY FoundStoppedEffect DEF IInv, HoldInv, FoundStopped, Keeps, Goes, launch
<1>5. HelperInv'
  BY FoundStoppedEffect DEF IInv, HelperInv, FoundStopped, Keeps, Goes, At
<1>6. FilesInv'
  BY DEF IInv, FilesInv, FoundStopped, Pending, disk
<1>7. GateInv'
  BY FoundStoppedEffect DEF IInv, GateInv, FoundStopped, Keeps, Goes, Pending,
    Destination, At, launch, disk
<1>8. SubmitInv'
  BY FoundStoppedEffect DEF IInv, SubmitInv, FoundStopped, Keeps, Goes, Pending, disk
<1>9. HostInv'
  BY FoundStoppedEffect, PolicyKept DEF IInv, HostInv, FoundStopped, Keeps, Goes,
    Pending, launch, disk, bounds, AsRecorded
<1> QED
  BY <1>1, <1>2, <1>3, <1>4, <1>5, <1>6, <1>7, <1>8, <1>9 DEF IInv

(* The mode is told to stop. *)
LEMMA DispatchStopEffect ==
  ASSUME IInv, DispatchStop
  PROVE  Keeps(journal.phase, "awaitStop")
BY GotoEffect DEF DispatchStop, disk, IInv, TableInv, Places

(* The invariant is kept. *)
LEMMA DispatchStopKeeps ==
  ASSUME IInv, DispatchStop
  PROVE  IInv'
<1>1. SwitchTypeOK'
  <2>1. daemon' \in [Routes -> DaemonStates]
    BY DEF IInv, SwitchTypeOK, LaunchTypeOK, DispatchStop, Becomes, DaemonStates
  <2> QED
    BY <2>1, DispatchStopEffect DEF IInv, SwitchTypeOK, DispatchStop, Keeps, Goes,
      LaunchTypeOK, disk, bounds
<1>2. LockInv'
  BY DEF IInv, LockInv, DispatchStop, CanStop, Becomes
<1>3. TableInv'
  BY DispatchStopEffect DEF IInv, TableInv, DispatchStop, Keeps, Goes, Pending, disk
<1>4. HoldInv'
  BY DispatchStopEffect DEF IInv, HoldInv, DispatchStop, Keeps, Goes
<1>5. HelperInv'
  BY DispatchStopEffect DEF IInv, HelperInv, DispatchStop, Keeps, Goes, Pending, disk
<1>6. FilesInv'
  BY DEF IInv, FilesInv, DispatchStop, Pending, disk
<1>7. GateInv'
  BY DispatchStopEffect DEF IInv, GateInv, DispatchStop, Becomes, Keeps, Goes,
    Pending, Destination, disk
<1>8. SubmitInv'
  BY DispatchStopEffect DEF IInv, SubmitInv, DispatchStop, Keeps, Goes, Pending, disk
<1>9. HostInv'
  BY DispatchStopEffect, PolicyKept DEF IInv, HostInv, DispatchStop, Keeps, Goes,
    Pending, disk, bounds, AsRecorded
<1> QED
  BY <1>1, <1>2, <1>3, <1>4, <1>5, <1>6, <1>7, <1>8, <1>9 DEF IInv

(* The mode has stopped. *)
LEMMA ConfirmStopEffect ==
  ASSUME IInv, ConfirmStop
  PROVE  \/ coord.run = "switch" /\ Keeps("SourceStopped", "reserve")
         \/ coord.run = "rollback" /\ Keeps(journal.phase, "reserve")
<1>1. Pending /\ coord.run \in {"switch", "rollback"}
  BY DEF IInv, SwitchTypeOK, Coordinators, TableInv, ConfirmStop
<1>2. CASE coord.run = "switch"
  BY <1>2, <1>1, AdvanceEffect DEF IInv, ConfirmStop, Phases, Forward, Places
<1>3. CASE coord.run = "rollback"
  BY <1>3, <1>1, GotoEffect DEF IInv, ConfirmStop, Places
<1> QED
  BY <1>1, <1>2, <1>3

(* The invariant is kept. *)
LEMMA ConfirmStopKeeps ==
  ASSUME IInv, ConfirmStop
  PROVE  IInv'
<1>1. SwitchTypeOK'
  BY ConfirmStopEffect DEF IInv, SwitchTypeOK, ConfirmStop, Keeps, SameHost, Goes,
    LaunchTypeOK, launch, bounds
<1>2. LockInv'
  BY DEF IInv, LockInv, ConfirmStop, launch
<1>3. TableInv'
  BY ConfirmStopEffect DEF IInv, TableInv, ConfirmStop, Keeps, SameHost, Goes,
    Deferred
<1>4. HoldInv'
  BY RoutesAssumption, ConfirmStopEffect DEF IInv, HoldInv, ConfirmStop, Keeps, Goes
<1>5. HelperInv'
  BY ConfirmStopEffect DEF IInv, HelperInv, ConfirmStop, Keeps, Goes
<1>6. FilesInv'
  BY ConfirmStopEffect DEF IInv, TableInv, FilesInv, ConfirmStop, Keeps, Pending,
    Deferred
<1>7. GateInv'
  BY ConfirmStopEffect DEF IInv, GateInv, ConfirmStop, Keeps, Goes, Pending,
    Destination, launch
<1>8. SubmitInv'
  BY ConfirmStopEffect DEF IInv, TableInv, SubmitInv, ConfirmStop, Keeps, Goes,
    Pending, Deferred
<1>9. HostInv'
  BY ConfirmStopEffect DEF IInv, TableInv, HostInv, ConfirmStop, Keeps, SameHost,
    Goes, launch, bounds
<1> QED
  BY <1>1, <1>2, <1>3, <1>4, <1>5, <1>6, <1>7, <1>8, <1>9 DEF IInv

(* The hardware is reserved. *)
LEMMA ReserveEffect ==
  ASSUME IInv, Reserve
  PROVE  \/ /\ coord.run = "switch"
            /\ Keeps("Publishing", "publish") \/ Keeps("Published", "select")
         \/ /\ coord.run = "rollback"
            /\ journal.phase \in {"StoppingDestination", "RestoringDestination"}
            /\ Keeps("RestoringDestination", "recover")
         \/ /\ coord.run = "rollback" /\ journal.phase = "RestoringStartup"
            /\ Keeps("RestoringStartup", "startup")
BY AdvanceEffect, GotoEffect DEF Reserve, IInv, TableInv, Forward, Backward, Phases,
  Places

(* The invariant is kept. *)
LEMMA ReserveKeeps ==
  ASSUME IInv, Reserve
  PROVE  IInv'
<1>1. SwitchTypeOK'
  BY ReserveEffect DEF IInv, SwitchTypeOK, Reserve, Keeps, SameHost, Goes,
    LaunchTypeOK, bounds
<1>2. LockInv'
  BY RoutesAssumption DEF IInv, LockInv, Reserve, CanReserve
<1>3. TableInv'
  BY ReserveEffect DEF IInv, TableInv, Keeps, SameHost, Goes, Deferred
<1>4. HoldInv'
  BY DEF IInv, HoldInv, Reserve
<1>5. HelperInv'
  BY ReserveEffect DEF IInv, HelperInv, Reserve, Keeps, Goes
<1>6. FilesInv'
  BY ReserveEffect DEF IInv, TableInv, FilesInv, Reserve, Keeps, SameHost, Deferred
<1>7. GateInv'
  BY ReserveEffect DEF IInv, TableInv, GateInv, Reserve, CanReserve, Idle, Keeps,
    Goes, Destination, Other, Modes
<1>8. SubmitInv'
  BY ReserveEffect DEF IInv, TableInv, SubmitInv, Reserve, Keeps, Goes, Deferred
<1>9. HostInv'
  BY ReserveEffect DEF IInv, TableInv, HostInv, Reserve, Keeps, SameHost, Goes,
    bounds
<1> QED
  BY <1>1, <1>2, <1>3, <1>4, <1>5, <1>6, <1>7, <1>8, <1>9 DEF IInv

(* Nothing runs. *)
LEMMA ConfirmIdleEffect ==
  ASSUME IInv, ConfirmIdle
  PROVE  \/ /\ journal.phase = "StoppingRecoveredSystem" /\ SameHost
            /\ journal'.phase = "StoppingDestination" /\ submitted' = 0
            /\ journal'.destinationBackup = journal.destinationBackup
            /\ Goes("rollback", "begin")
         \/ /\ journal.phase = "StartingSource" /\ Keeps("VerifyingSource", "begin")
            /\ submitted' = submitted
         \/ /\ journal.phase = "VerifyingSource" /\ Keeps("RolledBack", "archive")
            /\ submitted' = submitted
<1>1. journal \in Record /\ coord \in Coordinators /\ coord.run = "rollback" /\ Pending
  BY DEF IInv, SwitchTypeOK, TableInv, ConfirmIdle, At, Pending
<1>2. CASE journal.phase = "StoppingRecoveredSystem"
  <2>1. /\ journal' = [journal EXCEPT !.phase = "StoppingDestination", !.startBoot = 0]
        /\ coord' = [coord EXCEPT !.at = "begin"] /\ submitted' = 0
    BY <1>2 DEF ConfirmIdle, Goto
  <2>2. journal' \in Record
    BY <1>1, <2>1 DEF Record, Phases, Backward
  <2>3. coord' \in Coordinators
    BY <1>1, <2>1 DEF Coordinators, Places
  <2> QED
    BY <1>1, <1>2, <2>1, <2>2, <2>3, NotRecord DEF SameHost, Goes, Pending, Record, Coordinators
<1>3. CASE journal.phase # "StoppingRecoveredSystem"
  BY <1>1, <1>3, AdvanceEffect
  DEF ConfirmIdle, IInv, Phases, Backward, Terminal, Places
<1> QED
  BY <1>2, <1>3

(* The invariant is kept. *)
LEMMA ConfirmIdleKeeps ==
  ASSUME IInv, ConfirmIdle
  PROVE  IInv'
<1>1. SwitchTypeOK'
  BY ConfirmIdleEffect DEF IInv, SwitchTypeOK, ConfirmIdle, Keeps, SameHost, Goes,
    LaunchTypeOK, launch, bounds
<1>2. LockInv'
  BY DEF IInv, LockInv, ConfirmIdle, launch
<1>3. TableInv'
  BY ConfirmIdleEffect DEF IInv, TableInv, ConfirmIdle, Keeps, SameHost, Goes, At,
    Terminal, Deferred
<1>4. HoldInv'
  BY ConfirmIdleEffect DEF IInv, HoldInv, ConfirmIdle, Keeps, Goes, launch
<1>5. HelperInv'
  BY ConfirmIdleEffect DEF IInv, HelperInv, ConfirmIdle, Keeps, Goes
<1>6. FilesInv'
  BY ConfirmIdleEffect DEF IInv, TableInv, FilesInv, ConfirmIdle, Keeps, SameHost,
    At, Deferred
<1>7. GateInv'
  BY ConfirmIdleEffect DEF IInv, GateInv, ConfirmIdle, Keeps, SameHost, Goes, launch
<1>8. SubmitInv'
  BY ConfirmIdleEffect DEF IInv, SubmitInv, Keeps, Goes, Deferred
<1>9. HostInv'
  BY ConfirmIdleEffect, PolicyKept DEF IInv, TableInv, HostInv, ConfirmIdle, Keeps,
    SameHost, Goes, At, launch, bounds, AsRecorded
<1> QED
  BY <1>1, <1>2, <1>3, <1>4, <1>5, <1>6, <1>7, <1>8, <1>9 DEF IInv

(* The destination is to be selected. *)
LEMMA SelectDestinationEffect ==
  ASSUME IInv, SelectDestination
  PROVE  Keeps("SelectingDestination", "startup")
BY AdvanceEffect DEF SelectDestination, IInv, TableInv, At, Forward, Phases, Places

(* The invariant is kept. *)
LEMMA SelectDestinationKeeps ==
  ASSUME IInv, SelectDestination
  PROVE  IInv'
<1>1. SwitchTypeOK'
  BY SelectDestinationEffect DEF IInv, SwitchTypeOK, SelectDestination, Keeps,
    SameHost, Goes, LaunchTypeOK, launch, bounds
<1>2. LockInv'
  BY DEF IInv, LockInv, SelectDestination, launch
<1>3. TableInv'
  BY SelectDestinationEffect DEF IInv, TableInv, SelectDestination, Keeps, SameHost,
    Goes, At, Deferred
<1>4. HoldInv'
  BY DEF IInv, HoldInv, SelectDestination, At, launch
<1>5. HelperInv'
  BY SelectDestinationEffect DEF IInv, HelperInv, SelectDestination, Keeps, Goes, At
<1>6. FilesInv'
  BY SelectDestinationEffect DEF IInv, TableInv, FilesInv, SelectDestination, Keeps,
    At, Deferred
<1>7. GateInv'
  BY SelectDestinationEffect DEF IInv, GateInv, SelectDestination, Keeps, SameHost,
    Goes, launch
<1>8. SubmitInv'
  BY SelectDestinationEffect DEF IInv, TableInv, SubmitInv, SelectDestination, Keeps,
    Goes, At, Deferred
<1>9. HostInv'
  BY SelectDestinationEffect DEF IInv, TableInv, HostInv, SelectDestination, Keeps,
    SameHost, Goes, At, launch, bounds
<1> QED
  BY <1>1, <1>2, <1>3, <1>4, <1>5, <1>6, <1>7, <1>8, <1>9 DEF IInv

(* A helper starts with a transaction pending. *)
LEMMA SpawnHelperEffect ==
  ASSUME IInv, SpawnHelper
  PROVE  /\ Keeps(journal.phase, "ready?") /\ coord.run # "none"
         /\ \/ /\ coord.at = "publish" /\ journal.phase = "Publishing"
               /\ helper' = [action |-> "publish", state |-> "ready"] /\ txn' = "publish"
            \/ /\ coord.at = "restore" /\ journal.phase = "RestoringDestination"
               /\ helper' = [action |-> "restore", state |-> "ready"] /\ txn' = "restore"
            \/ /\ coord.at = "recover" /\ journal.phase = "RestoringDestination"
               /\ helper' = [action |-> "recover", state |-> "ready"] /\ txn' = txn
<1>1. coord.run # "none" /\ Pending /\ coord.at \in {"publish", "recover", "restore"}
  BY DEF IInv, TableInv, SpawnHelper
<1>2. Keeps(journal.phase, "ready?")
  BY <1>1, GotoEffect DEF IInv, SpawnHelper, Places
<1>3. CASE coord.at = "publish"
  BY <1>1, <1>2, <1>3 DEF IInv, SwitchTypeOK, Coordinators, TableInv, SpawnHelper
<1>4. CASE coord.at = "restore"
  BY <1>1, <1>2, <1>4 DEF IInv, SwitchTypeOK, Coordinators, TableInv, SpawnHelper
<1>5. CASE coord.at = "recover"
  BY <1>1, <1>2, <1>5 DEF IInv, SwitchTypeOK, Coordinators, TableInv, SpawnHelper
<1> QED
  BY <1>1, <1>3, <1>4, <1>5

(* The invariant is kept. *)
LEMMA SpawnHelperKeeps ==
  ASSUME IInv, SpawnHelper
  PROVE  IInv'
<1>1. SwitchTypeOK'
  <2>1. helper' \in Helpers /\ txn' \in {"publish", "restore", None}
    BY SpawnHelperEffect DEF IInv, SwitchTypeOK, Helpers
  <2> QED
    BY <2>1, SpawnHelperEffect DEF IInv, SwitchTypeOK, SpawnHelper, Keeps, Goes,
      LaunchTypeOK, launch, bounds
<1>2. LockInv'
  BY DEF IInv, LockInv, SpawnHelper, launch
<1>3. TableInv'
  BY SpawnHelperEffect DEF IInv, TableInv, SpawnHelper, Keeps, Goes, Pending
<1>4. HoldInv'
  BY DEF IInv, HoldInv, SpawnHelper, launch
<1>5. HelperInv'
  BY SpawnHelperEffect DEF IInv, HelperInv, Keeps, SameHost, Goes
<1>6. FilesInv'
  BY SpawnHelperEffect DEF IInv, HelperInv, FilesInv, SpawnHelper, Keeps, SameHost,
    Pending
<1>7. GateInv'
  <2>1. gate.paused
    BY SpawnHelperEffect DEF IInv, SwitchTypeOK, Coordinators, TableInv, GateInv,
      SpawnHelper, Pending
  <2> QED
    BY <2>1, SpawnHelperEffect DEF IInv, GateInv, SpawnHelper, Keeps, Goes, Pending,
      Destination, launch
<1>8. SubmitInv'
  BY SpawnHelperEffect DEF IInv, SubmitInv, SpawnHelper, Keeps, Goes, Deferred
<1>9. HostInv'
  BY SpawnHelperEffect DEF IInv, HostInv, SpawnHelper, Keeps, Goes, Pending, launch,
    bounds
<1> QED
  BY <1>1, <1>2, <1>3, <1>4, <1>5, <1>6, <1>7, <1>8, <1>9 DEF IInv

(* The backup of the helper is recorded. *)
LEMMA RecordBackupEffect ==
  ASSUME IInv, RecordBackup
  PROVE  /\ SameHost /\ journal'.phase = journal.phase /\ Goes(coord.run, "proceed")
         /\ coord.run # "none" /\ helper \in Helpers
         /\ journal'.startBoot = journal.startBoot
         /\ journal.destinationBackup => journal'.destinationBackup
         /\ helper.action = "publish" => journal'.destinationBackup
<1>1. /\ journal \in Record /\ coord \in Coordinators /\ coord.run # "none"
      /\ helper \in Helpers
  BY DEF IInv, SwitchTypeOK, TableInv, RecordBackup, Pending
<1>2. /\ journal' \in {journal, [journal EXCEPT !.destinationBackup = TRUE],
                     [journal EXCEPT !.rollbackBackup = TRUE]}
      /\ helper.action = "publish" => journal' = [journal EXCEPT !.destinationBackup = TRUE]
      /\ coord' = [coord EXCEPT !.at = "proceed"]
  BY DEF RecordBackup, Goto
<1>3. coord' \in Coordinators
  BY <1>1, <1>2 DEF Coordinators, Places
<1>4. journal' \in Record
  BY <1>1, <1>2 DEF Record
<1> QED
  BY <1>1, <1>2, <1>3, <1>4, NotRecord DEF SameHost, Goes, Pending, Record, Coordinators

(* The invariant is kept. *)
LEMMA RecordBackupKeeps ==
  ASSUME IInv, RecordBackup
  PROVE  IInv'
<1>1. SwitchTypeOK'
  BY RecordBackupEffect DEF IInv, SwitchTypeOK, RecordBackup, SameHost, Goes,
    LaunchTypeOK, launch, bounds
<1>2. LockInv'
  BY DEF IInv, LockInv, RecordBackup, launch
<1>3. TableInv'
  BY RecordBackupEffect DEF IInv, TableInv, RecordBackup, SameHost, Goes
<1>4. HoldInv'
  BY DEF IInv, HoldInv, RecordBackup, launch
<1>5. HelperInv'
  BY RecordBackupEffect DEF IInv, HelperInv, RecordBackup, SameHost, Goes
<1>6. FilesInv'
  BY RecordBackupEffect DEF IInv, HelperInv, FilesInv, RecordBackup, SameHost
<1>7. GateInv'
  BY RecordBackupEffect DEF IInv, HelperInv, GateInv, RecordBackup, Goes,
    Destination, launch
<1>8. SubmitInv'
  BY RecordBackupEffect DEF IInv, SubmitInv, RecordBackup, SameHost, Goes
<1>9. HostInv'
  BY RecordBackupEffect DEF IInv, HelperInv, HostInv, RecordBackup, SameHost, Goes,
    launch, bounds
<1> QED
  BY <1>1, <1>2, <1>3, <1>4, <1>5, <1>6, <1>7, <1>8, <1>9 DEF IInv

(* The helper may go on. *)
LEMMA AuthorizeEffect ==
  ASSUME IInv, Authorize
  PROVE  /\ Keeps(journal.phase, "done?") /\ coord.run # "none"
         /\ helper' \in Helpers /\ helper'.action = helper.action /\ helper'.state = "working"
BY GotoEffect DEF Authorize, disk, IInv, TableInv, Places, SwitchTypeOK, Helpers

(* The invariant is kept. *)
LEMMA AuthorizeKeeps ==
  ASSUME IInv, Authorize
  PROVE  IInv'
<1>1. SwitchTypeOK'
  BY AuthorizeEffect DEF IInv, SwitchTypeOK, Authorize, Keeps, Goes, LaunchTypeOK,
    launch, disk, bounds
<1>2. LockInv'
  BY DEF IInv, LockInv, Authorize, launch
<1>3. TableInv'
  BY AuthorizeEffect DEF IInv, TableInv, Authorize, Keeps, Goes, Pending, disk
<1>4. HoldInv'
  BY DEF IInv, HoldInv, Authorize, launch
<1>5. HelperInv'
  BY AuthorizeEffect DEF IInv, HelperInv, Authorize, Keeps, Goes, Pending, disk
<1>6. FilesInv'
  BY DEF IInv, FilesInv, Authorize, Pending, disk
<1>7. GateInv'
  BY AuthorizeEffect DEF IInv, GateInv, Authorize, Keeps, Goes, Pending, Destination,
    launch, disk
<1>8. SubmitInv'
  BY AuthorizeEffect DEF IInv, SubmitInv, Authorize, Keeps, Goes, Pending, disk
<1>9. HostInv'
  BY AuthorizeEffect, PolicyKept DEF IInv, HostInv, Authorize, Keeps, Goes, Pending,
    launch, disk, bounds, AsRecorded
<1> QED
  BY <1>1, <1>2, <1>3, <1>4, <1>5, <1>6, <1>7, <1>8, <1>9 DEF IInv

(* The helper has exited. *)
LEMMA HelperReturnsEffect ==
  ASSUME IInv, HelperReturns
  PROVE  /\ helper \in Helpers /\ coord.run # "none"
         /\ \/ helper.action = "publish" /\ Keeps("Published", "select")
            \/ /\ helper.action = "recover" /\ journal.destinationBackup
               /\ Keeps("RestoringDestination", "restore")
            \/ /\ helper.action # "publish"
               /\ helper.action = "restore" \/ ~journal.destinationBackup
               /\ Keeps("RestoringStartup", "begin")
BY AdvanceEffect, GotoEffect DEF HelperReturns, IInv, TableInv, Forward, Backward,
  Phases, Places, SwitchTypeOK, HelperInv

(* The invariant is kept. *)
LEMMA HelperReturnsKeeps ==
  ASSUME IInv, HelperReturns
  PROVE  IInv'
<1>1. SwitchTypeOK'
  BY HelperReturnsEffect DEF IInv, SwitchTypeOK, HelperReturns, Keeps, SameHost,
    Goes, LaunchTypeOK, bounds
<1>2. LockInv'
  BY RoutesAssumption DEF IInv, LockInv, HoldInv, HelperReturns
<1>3. TableInv'
  BY HelperReturnsEffect DEF IInv, TableInv, HelperInv, HelperReturns, Keeps,
    SameHost, Goes, Terminal, Deferred
<1>4. HoldInv'
  BY HelperReturnsEffect DEF IInv, HoldInv, HelperReturns, Keeps, Goes
<1>5. HelperInv'
  BY HelperReturnsEffect DEF IInv, HelperInv, HelperReturns, Keeps, Goes
<1>6. FilesInv'
  BY HelperReturnsEffect DEF IInv, HelperInv, FilesInv, HelperReturns, Keeps
<1>7. GateInv'
  BY HelperReturnsEffect DEF IInv, GateInv, HelperReturns, Keeps, SameHost, Goes,
    Pending, Destination
<1>8. SubmitInv'
  BY HelperReturnsEffect DEF IInv, HelperInv, SubmitInv, HelperReturns, Keeps, Goes,
    Deferred
<1>9. HostInv'
  BY HelperReturnsEffect DEF IInv, HelperInv, HostInv, HelperReturns, Keeps,
    SameHost, Goes, bounds
<1> QED
  BY <1>1, <1>2, <1>3, <1>4, <1>5, <1>6, <1>7, <1>8, <1>9 DEF IInv

(* One unit is enabled or disabled. *)
LEMMA ChangeStartupKeeps ==
  ASSUME IInv, NEW m \in Modes, ChangeStartup(m)
  PROVE  IInv'
<1>1. SwitchTypeOK'
  <2>1. Pending /\ journal \in Record
    BY DEF IInv, SwitchTypeOK, TableInv, ChangeStartup, Pending
  <2>2. startup' \in Policies
    BY <2>1, PolicyType DEF IInv, SwitchTypeOK, ChangeStartup, Policies, Startups
  <2> QED
    BY <2>1, <2>2 DEF IInv, SwitchTypeOK, ChangeStartup, LaunchTypeOK, launch, bounds
<1>2. LockInv'
  BY DEF IInv, LockInv, ChangeStartup, launch
<1>3. TableInv'
  BY DEF IInv, TableInv, ChangeStartup, Pending
<1>4. HoldInv'
  BY DEF IInv, HoldInv, ChangeStartup, launch
<1>5. HelperInv'
  BY DEF IInv, HelperInv, ChangeStartup, Pending
<1>6. FilesInv'
  BY DEF IInv, FilesInv, ChangeStartup, Pending
<1>7. GateInv'
  BY DEF IInv, GateInv, ChangeStartup, Pending, Destination, launch
<1>8. SubmitInv'
  BY DEF IInv, SubmitInv, ChangeStartup, Pending
<1>9. HostInv'
  BY DEF IInv, SwitchTypeOK, TableInv, HostInv, ChangeStartup, Coordinators, Pending,
    launch, bounds
<1> QED
  BY <1>1, <1>2, <1>3, <1>4, <1>5, <1>6, <1>7, <1>8, <1>9 DEF IInv

(* The gate opens for the selection to establish. *)
LEMMA OpenGateEffect ==
  ASSUME IInv, OpenGate
  PROVE  /\ Keeps(journal.phase, "release") /\ Pending /\ journal \in Record
         /\ coord.run \in {"switch", "rollback", "resume"}
         /\ gate' \in Gates /\ ~gate'.paused
         /\ coord.run = "switch" => gate'.selection = Destination /\ startup = Only(Destination)
         /\ coord.run = "rollback" =>
              gate'.selection = journal.previous /\ startup = RestorationPolicy
         /\ coord.run = "resume" => gate'.selection = journal.source
<1>1. Pending /\ journal \in Record /\ coord.run \in {"switch", "rollback", "resume"}
  BY DEF IInv, SwitchTypeOK, Coordinators, TableInv, OpenGate, Pending
<1>2. Keeps(journal.phase, "release")
  BY <1>1, GotoEffect DEF IInv, OpenGate, disk, Places
<1>3. DesiredSelection \in Modes \cup {None}
  BY <1>1 DEF DesiredSelection, Record, Destination, Other, Modes
<1>4. gate' \in Gates /\ ~gate'.paused /\ gate'.selection = DesiredSelection
  BY <1>3 DEF OpenGate, Gates
<1>5. coord.run # "resume" => startup = DesiredStartup
  <2>1. DesiredStartup \in Policies /\ startup \in Policies
    BY <1>1, PolicyType DEF IInv, SwitchTypeOK
  <2>2. coord.run # "resume" => \A m \in Modes : startup[m] = DesiredStartup[m]
    BY DEF OpenGate, Established, Managed
  <2> QED
    BY <2>1, <2>2 DEF Policies
<1> QED
  BY <1>1, <1>2, <1>4, <1>5 DEF DesiredSelection, DesiredStartup

(* The invariant is kept. *)
LEMMA OpenGateKeeps ==
  ASSUME IInv, OpenGate
  PROVE  IInv'
<1>1. SwitchTypeOK'
  BY OpenGateEffect DEF IInv, SwitchTypeOK, OpenGate, Keeps, Goes, LaunchTypeOK,
    disk, bounds
<1>2. LockInv'
  BY RoutesAssumption DEF IInv, LockInv, HoldInv, OpenGate
<1>3. TableInv'
  BY OpenGateEffect DEF IInv, TableInv, OpenGate, Keeps, Goes, Pending, disk
<1>4. HoldInv'
  BY DEF IInv, HoldInv, OpenGate
<1>5. HelperInv'
  BY OpenGateEffect DEF IInv, HelperInv, OpenGate, Keeps, Goes
<1>6. FilesInv'
  BY DEF IInv, FilesInv, OpenGate, Pending, disk
<1>7. GateInv'
  BY OpenGateEffect DEF IInv, TableInv, FilesInv, GateInv, OpenGate, Keeps, Goes,
    disk, Deferred
<1>8. SubmitInv'
  BY OpenGateEffect DEF IInv, SubmitInv, OpenGate, Keeps, Goes, Pending, disk
<1>9. HostInv'
  BY OpenGateEffect, PolicyKept DEF IInv, TableInv, HostInv, OpenGate, Keeps, Goes,
    Destination, disk, bounds, AsRecorded
<1> QED
  BY <1>1, <1>2, <1>3, <1>4, <1>5, <1>6, <1>7, <1>8, <1>9 DEF IInv

(* The reservation is dropped. *)
LEMMA ReleaseEffect ==
  ASSUME IInv, Release
  PROVE  \/ coord.run = "switch" /\ Keeps("StartingDestination", "start")
         \/ coord.run = "rollback" /\ Keeps("StartingSource", "begin")
BY AdvanceEffect DEF Release, IInv, TableInv, Forward, Backward, Phases, Places,
  Coordinators, SwitchTypeOK

(* The invariant is kept. *)
LEMMA ReleaseKeeps ==
  ASSUME IInv, Release
  PROVE  IInv'
<1>1. SwitchTypeOK'
  BY ReleaseEffect DEF IInv, SwitchTypeOK, Release, Keeps, SameHost, Goes,
    LaunchTypeOK, bounds
<1>2. LockInv'
  BY RoutesAssumption DEF IInv, LockInv, HoldInv, Release
<1>3. TableInv'
  BY ReleaseEffect DEF IInv, TableInv, Keeps, SameHost, Goes, Terminal, Deferred
<1>4. HoldInv'
  BY ReleaseEffect DEF IInv, HoldInv, HelperInv, Release, Keeps, Goes
<1>5. HelperInv'
  BY ReleaseEffect DEF IInv, HelperInv, Release, Keeps, Goes
<1>6. FilesInv'
  BY ReleaseEffect DEF IInv, TableInv, FilesInv, Release, Keeps, Deferred
<1>7. GateInv'
  BY ReleaseEffect DEF IInv, GateInv, Release, Keeps, SameHost, Goes
<1>8. SubmitInv'
  BY ReleaseEffect DEF IInv, TableInv, SubmitInv, Release, Keeps, Goes, Deferred
<1>9. HostInv'
  BY ReleaseEffect, PolicyKept DEF IInv, TableInv, HostInv, Release, Keeps, SameHost,
    Goes, Destination, bounds, AsRecorded
<1> QED
  BY <1>1, <1>2, <1>3, <1>4, <1>5, <1>6, <1>7, <1>8, <1>9 DEF IInv

(* The mode is started. *)
LEMMA DispatchStartEffect ==
  ASSUME IInv, DispatchStart
  PROVE  Keeps(journal.phase, "awaitStart")
BY GotoEffect DEF DispatchStart, disk, IInv, TableInv, Places

(* The invariant is kept. *)
LEMMA DispatchStartKeeps ==
  ASSUME IInv, DispatchStart
  PROVE  IInv'
<1>1. SwitchTypeOK'
  <2>1. daemon' \in [Routes -> DaemonStates]
    BY DEF IInv, SwitchTypeOK, LaunchTypeOK, DispatchStart, Becomes, DaemonStates
  <2> QED
    BY <2>1, DispatchStartEffect DEF IInv, SwitchTypeOK, DispatchStart, Keeps, Goes,
      LaunchTypeOK, disk, bounds
<1>2. LockInv'
  BY DEF IInv, LockInv, DispatchStart, Becomes
<1>3. TableInv'
  BY DispatchStartEffect DEF IInv, TableInv, DispatchStart, Keeps, Goes, Pending,
    disk
<1>4. HoldInv'
  BY DispatchStartEffect DEF IInv, HoldInv, DispatchStart, Keeps, Goes
<1>5. HelperInv'
  BY DispatchStartEffect DEF IInv, HelperInv, DispatchStart, Keeps, Goes, Pending,
    disk
<1>6. FilesInv'
  BY DEF IInv, FilesInv, DispatchStart, Pending, disk
<1>7. GateInv'
  BY DispatchStartEffect DEF IInv, GateInv, DispatchStart, Becomes, Keeps, Goes,
    Pending, Destination, disk
<1>8. SubmitInv'
  BY DispatchStartEffect DEF IInv, SubmitInv, DispatchStart, Keeps, Goes, Pending,
    disk
<1>9. HostInv'
  BY DispatchStartEffect, PolicyKept DEF IInv, HostInv, DispatchStart, Keeps, Goes,
    Pending, Destination, disk, bounds, AsRecorded
<1> QED
  BY <1>1, <1>2, <1>3, <1>4, <1>5, <1>6, <1>7, <1>8, <1>9 DEF IInv

(* The mode runs. *)
LEMMA StartedEffect ==
  ASSUME IInv, Started
  PROVE  \/ coord.run = "switch" /\ Keeps("VerifyingDestination", "verify")
         \/ /\ coord.run = "rollback" /\ journal.phase = "RestoringStartup"
            /\ Keeps("StartingSource", "begin")
         \/ /\ coord.run = "rollback" /\ journal.phase = "StartingSource"
            /\ Keeps("VerifyingSource", "begin")
<1>1. /\ Pending
      /\ \/ coord.run = "switch"
         \/ coord.run = "rollback" /\ journal.phase \in {"RestoringStartup", "StartingSource"}
  BY DEF IInv, SwitchTypeOK, Coordinators, TableInv, Started
<1>2. CASE coord.run = "switch"
  BY <1>1, <1>2, AdvanceEffect DEF IInv, Started, Phases, Forward, Places
<1>3. CASE coord.run = "rollback" /\ journal.phase = "RestoringStartup"
  BY <1>1, <1>3, AdvanceEffect DEF IInv, Started, Phases, Backward, Places
<1>4. CASE coord.run = "rollback" /\ journal.phase = "StartingSource"
  BY <1>1, <1>4, AdvanceEffect DEF IInv, Started, Phases, Backward, Places
<1> QED
  BY <1>1, <1>2, <1>3, <1>4

(* The invariant is kept. *)
LEMMA StartedKeeps ==
  ASSUME IInv, Started
  PROVE  IInv'
<1>1. SwitchTypeOK'
  BY StartedEffect DEF IInv, SwitchTypeOK, Started, Keeps, SameHost, Goes,
    LaunchTypeOK, launch, bounds
<1>2. LockInv'
  BY DEF IInv, LockInv, Started, launch
<1>3. TableInv'
  BY StartedEffect DEF IInv, TableInv, Keeps, SameHost, Goes, Terminal, Deferred
<1>4. HoldInv'
  BY StartedEffect DEF IInv, HoldInv, Started, Keeps, Goes, launch
<1>5. HelperInv'
  BY StartedEffect DEF IInv, HelperInv, Started, Keeps, Goes
<1>6. FilesInv'
  BY StartedEffect DEF IInv, TableInv, FilesInv, Started, Keeps, Deferred
<1>7. GateInv'
  BY StartedEffect DEF IInv, GateInv, Started, Keeps, SameHost, Goes, launch
<1>8. SubmitInv'
  BY StartedEffect DEF IInv, TableInv, SubmitInv, Started, Keeps, Goes, Deferred
<1>9. HostInv'
  BY StartedEffect, PolicyKept DEF IInv, TableInv, HostInv, Started, Keeps, SameHost,
    Goes, Destination, launch, bounds, AsRecorded
<1> QED
  BY <1>1, <1>2, <1>3, <1>4, <1>5, <1>6, <1>7, <1>8, <1>9 DEF IInv

(* The switch, or its rollback, is complete. *)
LEMMA FinalizeEffect ==
  ASSUME IInv, Finalize
  PROVE  \/ coord.run = "switch" /\ Keeps("Complete", "archive")
         \/ coord.run = "rollback" /\ Keeps("RolledBack", "archive")
BY AdvanceEffect DEF Finalize, IInv, TableInv, Terminal, Phases, Places,
  SwitchTypeOK, Coordinators

(* The invariant is kept. *)
LEMMA FinalizeKeeps ==
  ASSUME IInv, Finalize
  PROVE  IInv'
<1>1. SwitchTypeOK'
  BY FinalizeEffect DEF IInv, SwitchTypeOK, Finalize, Keeps, SameHost, Goes,
    LaunchTypeOK, launch, bounds
<1>2. LockInv'
  BY DEF IInv, LockInv, Finalize, launch
<1>3. TableInv'
  BY FinalizeEffect DEF IInv, TableInv, Keeps, SameHost, Goes, Terminal, Deferred
<1>4. HoldInv'
  BY FinalizeEffect DEF IInv, HoldInv, Finalize, Keeps, Goes, launch
<1>5. HelperInv'
  BY FinalizeEffect DEF IInv, HelperInv, Finalize, Keeps, Goes
<1>6. FilesInv'
  BY FinalizeEffect DEF IInv, TableInv, FilesInv, Finalize, Keeps, Deferred
<1>7. GateInv'
  BY FinalizeEffect DEF IInv, GateInv, Finalize, Keeps, SameHost, Goes, launch
<1>8. SubmitInv'
  BY FinalizeEffect DEF IInv, TableInv, SubmitInv, Finalize, Keeps, Goes, Deferred
<1>9. HostInv'
  BY FinalizeEffect, PolicyKept DEF IInv, TableInv, HostInv, Finalize, Keeps,
    SameHost, Goes, launch, bounds, AsRecorded
<1> QED
  BY <1>1, <1>2, <1>3, <1>4, <1>5, <1>6, <1>7, <1>8, <1>9 DEF IInv

(* The journal is archived. *)
LEMMA ArchiveEffect ==
  ASSUME IInv, Archive
  PROVE  /\ Pending /\ journal.phase \in Terminal /\ coord.run \in {"switch", "rollback"}
         /\ coord' = Absent /\ journal' = None
BY DEF IInv, SwitchTypeOK, Coordinators, TableInv, Archive, Terminal

(* The invariant is kept. *)
LEMMA ArchiveKeeps ==
  ASSUME IInv, Archive
  PROVE  IInv'
<1>1. SwitchTypeOK'
  BY AbsentType DEF IInv, SwitchTypeOK, Archive, LaunchTypeOK, launch, bounds
<1>2. LockInv'
  BY DEF IInv, LockInv, Archive, launch
<1>3. TableInv'
  BY AbsentType DEF IInv, TableInv, Archive, Pending
<1>4. HoldInv'
  BY AbsentType DEF IInv, HoldInv, Archive, launch
<1>5. HelperInv'
  BY ArchiveEffect, AbsentType DEF IInv, HelperInv, Archive
<1>6. FilesInv'
  BY ArchiveEffect, NotRecord DEF IInv, FilesInv, Archive, Pending, Terminal,
    Deferred
<1>7. GateInv'
  BY ArchiveEffect, AbsentType DEF IInv, FilesInv, GateInv, Archive, Pending,
    Terminal, Deferred
<1>8. SubmitInv'
  BY ArchiveEffect, AbsentType DEF IInv, SubmitInv, Archive, Terminal, Deferred
<1>9. HostInv'
  BY ArchiveEffect, AbsentType DEF IInv, HostInv, Archive, Pending, Terminal,
    AsRecorded, launch, bounds
<1> QED
  BY <1>1, <1>2, <1>3, <1>4, <1>5, <1>6, <1>7, <1>8, <1>9 DEF IInv

(* An interrupted restoration of the system source comes first. *)
LEMMA BeginRestoringSystemEffect ==
  ASSUME IInv, BeginRestoringSystem
  PROVE  Goes("resume", "begin")
BY DEF IInv, SwitchTypeOK, BeginRestoringSystem, Coordinators, Goes, At

(* The invariant is kept. *)
LEMMA BeginRestoringSystemKeeps ==
  ASSUME IInv, BeginRestoringSystem
  PROVE  IInv'
<1>1. SwitchTypeOK'
  BY BeginRestoringSystemEffect DEF IInv, SwitchTypeOK, BeginRestoringSystem, Goes,
    LaunchTypeOK, launch, disk, bounds
<1>2. LockInv'
  BY DEF IInv, LockInv, BeginRestoringSystem, launch
<1>3. TableInv'
  BY DEF IInv, TableInv, BeginRestoringSystem, Pending, At, disk, Deferred
<1>4. HoldInv'
  BY DEF IInv, HoldInv, BeginRestoringSystem, launch
<1>5. HelperInv'
  BY DEF IInv, HelperInv, BeginRestoringSystem, disk
<1>6. FilesInv'
  BY DEF IInv, FilesInv, BeginRestoringSystem, Pending, disk
<1>7. GateInv'
  BY DEF IInv, GateInv, BeginRestoringSystem, At, launch, disk
<1>8. SubmitInv'
  BY DEF IInv, SubmitInv, BeginRestoringSystem, Pending, disk
<1>9. HostInv'
  BY DEF IInv, HostInv, BeginRestoringSystem, Pending, launch, disk, bounds
<1> QED
  BY <1>1, <1>2, <1>3, <1>4, <1>5, <1>6, <1>7, <1>8, <1>9 DEF IInv

(* The restored system source is to stop. *)
LEMMA BeginDeferredEffect ==
  ASSUME IInv, BeginDeferred
  PROVE  Keeps("StoppingRecoveredSystem", "pause")
BY AdvanceEffect DEF BeginDeferred, IInv, TableInv, At, Deferred, Phases, Places

(* The invariant is kept. *)
LEMMA BeginDeferredKeeps ==
  ASSUME IInv, BeginDeferred
  PROVE  IInv'
<1>1. SwitchTypeOK'
  BY BeginDeferredEffect DEF IInv, SwitchTypeOK, BeginDeferred, Keeps, SameHost,
    Goes, LaunchTypeOK, launch, bounds
<1>2. LockInv'
  BY DEF IInv, LockInv, BeginDeferred, launch
<1>3. TableInv'
  BY BeginDeferredEffect DEF IInv, TableInv, BeginDeferred, Keeps, SameHost, Goes,
    At, Deferred
<1>4. HoldInv'
  BY BeginDeferredEffect DEF IInv, HoldInv, BeginDeferred, Keeps, Goes, launch
<1>5. HelperInv'
  BY BeginDeferredEffect DEF IInv, HelperInv, BeginDeferred, Keeps, Goes
<1>6. FilesInv'
  BY BeginDeferredEffect DEF IInv, TableInv, FilesInv, BeginDeferred, Keeps,
    SameHost, At, Deferred
<1>7. GateInv'
  BY BeginDeferredEffect DEF IInv, GateInv, BeginDeferred, Keeps, SameHost, Goes,
    launch
<1>8. SubmitInv'
  BY BeginDeferredEffect DEF IInv, SubmitInv, BeginDeferred, Keeps, SameHost, Goes,
    Deferred
<1>9. HostInv'
  BY BeginDeferredEffect DEF IInv, TableInv, HostInv, BeginDeferred, Keeps, SameHost,
    Goes, At, launch, bounds
<1> QED
  BY <1>1, <1>2, <1>3, <1>4, <1>5, <1>6, <1>7, <1>8, <1>9 DEF IInv

(* The preparation is discarded. *)
LEMMA BeginDiscardEffect ==
  ASSUME IInv, BeginDiscard
  PROVE  Keeps("RolledBack", "archive")
BY AdvanceEffect DEF BeginDiscard, IInv, TableInv, At, Terminal, Phases, Places

(* The invariant is kept. *)
LEMMA BeginDiscardKeeps ==
  ASSUME IInv, BeginDiscard
  PROVE  IInv'
<1>1. SwitchTypeOK'
  BY BeginDiscardEffect DEF IInv, SwitchTypeOK, BeginDiscard, Keeps, SameHost, Goes,
    LaunchTypeOK, launch, bounds
<1>2. LockInv'
  BY DEF IInv, LockInv, BeginDiscard, launch
<1>3. TableInv'
  BY BeginDiscardEffect DEF IInv, TableInv, BeginDiscard, Keeps, SameHost, Goes, At,
    Terminal, Deferred
<1>4. HoldInv'
  BY BeginDiscardEffect DEF IInv, HoldInv, BeginDiscard, Keeps, Goes, launch
<1>5. HelperInv'
  BY BeginDiscardEffect DEF IInv, HelperInv, BeginDiscard, Keeps, Goes
<1>6. FilesInv'
  BY BeginDiscardEffect DEF IInv, TableInv, FilesInv, BeginDiscard, Keeps, At,
    Deferred
<1>7. GateInv'
  BY BeginDiscardEffect DEF IInv, GateInv, BeginDiscard, Keeps, SameHost, Goes,
    launch
<1>8. SubmitInv'
  BY BeginDiscardEffect DEF IInv, SubmitInv, BeginDiscard, Keeps, Goes, Deferred
<1>9. HostInv'
  BY BeginDiscardEffect, PolicyKept DEF IInv, TableInv, HostInv, BeginDiscard, Keeps,
    SameHost, Goes, At, launch, bounds, AsRecorded
<1> QED
  BY <1>1, <1>2, <1>3, <1>4, <1>5, <1>6, <1>7, <1>8, <1>9 DEF IInv

(* The rollback goes on where the journal stands. *)
LEMMA BeginRestoreEffect ==
  ASSUME IInv, BeginRestore
  PROVE  /\ coord.run = "rollback"
         /\ \/ /\ journal.phase \in Forward \cup {"StoppingDestination"}
               /\ Keeps("StoppingDestination", "pause")
            \/ /\ journal.phase = "RestoringDestination"
               /\ Keeps("RestoringDestination", "reserve")
            \/ /\ journal.phase = "RestoringStartup"
               /\ \/ Keeps("RestoringStartup", "reserve")
                  \/ Keeps("RestoringStartup", "start") /\ AsRecorded
            \/ /\ journal.phase = "StartingSource"
               /\ \/ Keeps("StartingSource", "reserve")
                  \/ Keeps("StartingSource", "start") /\ AsRecorded
            \/ /\ journal.phase = "VerifyingSource"
               /\ \/ Keeps("VerifyingSource", "reserve")
                  \/ Keeps("VerifyingSource", "verify")
<1>1. coord.run = "rollback" /\ Pending /\ journal \in Record
  BY DEF IInv, SwitchTypeOK, TableInv, BeginRestore, At, Pending
<1>2. \A at \in Places : coord' = [Deciding EXCEPT !.at = at] => Goes("rollback", at)
  BY <1>1, DecidingEffect DEF IInv
<1>3. CASE journal.phase \in Forward \cup {"StoppingDestination"}
  <2>1. /\ journal' = [journal EXCEPT !.phase = "StoppingDestination"]
        /\ coord' = [Deciding EXCEPT !.at = "pause"]
    BY <1>3 DEF BeginRestore, Forward
  <2>2. journal' \in Record
    BY <1>1, <2>1 DEF Record, Phases, Backward
  <2> QED
    BY <1>1, <1>2, <1>3, <2>1, <2>2, NotRecord DEF Keeps, SameHost, Pending, Record, Places
<1>4. CASE journal.phase \notin Forward \cup {"StoppingDestination"}
  <2>1. journal' = journal /\ SameHost
    BY <1>1, <1>4 DEF BeginRestore, SameHost, Pending
  <2>2. CASE journal.phase = "RestoringDestination"
    BY <1>1, <1>2, <2>1, <2>2 DEF BeginRestore, Keeps, Places, Forward
  <2>3. CASE journal.phase = "RestoringStartup"
    BY <1>1, <1>2, <2>1, <2>3
    DEF BeginRestore, Keeps, Places, Forward, SelectionRestored, AsRecorded
  <2>4. CASE journal.phase = "StartingSource"
    <3>1. \/ coord' = [Deciding EXCEPT !.at = "start"]
          \/ coord' = [Deciding EXCEPT !.at = "reserve"]
      BY <1>4, <2>4 DEF BeginRestore
    <3>2. SelectionRestored
      BY <1>4, <2>4 DEF BeginRestore
    <3> QED
      BY <1>1, <1>2, <2>1, <2>4, <3>1, <3>2 DEF Keeps, Places, SelectionRestored, AsRecorded
  <2>5. CASE journal.phase = "VerifyingSource"
    <3>1. \/ coord' = [Deciding EXCEPT !.at = "verify"]
          \/ coord' = [Deciding EXCEPT !.at = "reserve"]
      BY <1>4, <2>5 DEF BeginRestore
    <3> QED
      BY <1>1, <1>2, <2>1, <2>5, <3>1 DEF Keeps, Places
  <2> QED
    BY <1>4, <2>2, <2>3, <2>4, <2>5 DEF BeginRestore
<1> QED
  BY <1>1, <1>3, <1>4

(* The invariant is kept. *)
LEMMA BeginRestoreKeeps ==
  ASSUME IInv, BeginRestore
  PROVE  IInv'
<1>1. SwitchTypeOK'
  BY BeginRestoreEffect DEF IInv, SwitchTypeOK, BeginRestore, Keeps, SameHost, Goes,
    LaunchTypeOK, launch, bounds
<1>2. LockInv'
  BY DEF IInv, LockInv, BeginRestore, launch
<1>3. TableInv'
  BY BeginRestoreEffect DEF IInv, TableInv, Keeps, SameHost, Goes, Deferred
<1>4. HoldInv'
  BY BeginRestoreEffect DEF IInv, HoldInv, BeginRestore, Keeps, Goes, launch
<1>5. HelperInv'
  BY BeginRestoreEffect DEF IInv, HelperInv, BeginRestore, Keeps, Goes, At
<1>6. FilesInv'
  BY BeginRestoreEffect DEF IInv, TableInv, FilesInv, BeginRestore, Keeps, SameHost
<1>7. GateInv'
  BY BeginRestoreEffect DEF IInv, GateInv, BeginRestore, Keeps, SameHost, Goes,
    Pending, Destination, launch, Forward
<1>8. SubmitInv'
  BY BeginRestoreEffect DEF IInv, SubmitInv, BeginRestore, Keeps, Goes, Forward,
    Deferred
<1>9. HostInv'
  BY BeginRestoreEffect, PolicyKept DEF IInv, TableInv, HostInv, BeginRestore, Keeps,
    SameHost, Goes, launch, bounds, AsRecorded
<1> QED
  BY <1>1, <1>2, <1>3, <1>4, <1>5, <1>6, <1>7, <1>8, <1>9 DEF IInv

(* The system source is restored offline. *)
LEMMA BeginResumeEffect ==
  ASSUME IInv, BeginResume
  PROVE  Keeps("RestoringSystem", "loop")
BY AdvanceEffect DEF BeginResume, IInv, TableInv, At, Deferred, Phases, Places

(* The invariant is kept. *)
LEMMA BeginResumeKeeps ==
  ASSUME IInv, BeginResume
  PROVE  IInv'
<1>1. SwitchTypeOK'
  BY BeginResumeEffect DEF IInv, SwitchTypeOK, BeginResume, Keeps, SameHost, Goes,
    LaunchTypeOK, launch, bounds
<1>2. LockInv'
  BY DEF IInv, LockInv, BeginResume, launch
<1>3. TableInv'
  BY BeginResumeEffect DEF IInv, TableInv, BeginResume, Keeps, SameHost, Goes, At
<1>4. HoldInv'
  BY BeginResumeEffect DEF IInv, HoldInv, BeginResume, Keeps, Goes, launch
<1>5. HelperInv'
  BY BeginResumeEffect DEF IInv, HelperInv, BeginResume, Keeps, Goes, At
<1>6. FilesInv'
  BY BeginResumeEffect DEF IInv, TableInv, FilesInv, BeginResume, Keeps, SameHost,
    At, Deferred
<1>7. GateInv'
  BY BeginResumeEffect DEF IInv, GateInv, BeginResume, Keeps, SameHost, Goes, launch
<1>8. SubmitInv'
  BY BeginResumeEffect DEF IInv, SubmitInv, BeginResume, Keeps, SameHost, Goes,
    Deferred
<1>9. HostInv'
  BY BeginResumeEffect DEF IInv, TableInv, HostInv, BeginResume, Keeps, SameHost,
    Goes, At, launch, bounds
<1> QED
  BY <1>1, <1>2, <1>3, <1>4, <1>5, <1>6, <1>7, <1>8, <1>9 DEF IInv

(* The gate reopens for the system source that runs. *)
LEMMA ReopenLiveEffect ==
  ASSUME IInv, ReopenLive
  PROVE  Keeps(journal.phase, "live")
BY GotoEffect DEF ReopenLive, disk, IInv, TableInv, At, Places

(* The invariant is kept. *)
LEMMA ReopenLiveKeeps ==
  ASSUME IInv, ReopenLive
  PROVE  IInv'
<1>1. SwitchTypeOK'
  BY ReopenLiveEffect DEF IInv, SwitchTypeOK, ReopenLive, Keeps, Goes, LaunchTypeOK,
    Gates, Modes, disk, bounds
<1>2. LockInv'
  BY DEF IInv, LockInv, ReopenLive, LiveSource, ScopeOf
<1>3. TableInv'
  BY ReopenLiveEffect DEF IInv, TableInv, ReopenLive, Keeps, Goes, Pending, At, disk
<1>4. HoldInv'
  BY ReopenLiveEffect DEF IInv, HoldInv, ReopenLive, Keeps, Goes
<1>5. HelperInv'
  BY ReopenLiveEffect DEF IInv, HelperInv, ReopenLive, Keeps, Goes, At
<1>6. FilesInv'
  BY DEF IInv, FilesInv, ReopenLive, Pending, disk
<1>7. GateInv'
  BY ReopenLiveEffect DEF IInv, TableInv, GateInv, ReopenLive, Keeps, Goes, At, disk
<1>8. SubmitInv'
  BY ReopenLiveEffect DEF IInv, SubmitInv, ReopenLive, Keeps, Goes, Pending, disk
<1>9. HostInv'
  BY ReopenLiveEffect DEF IInv, TableInv, HostInv, ReopenLive, Keeps, Goes, At, disk,
    bounds
<1> QED
  BY <1>1, <1>2, <1>3, <1>4, <1>5, <1>6, <1>7, <1>8, <1>9 DEF IInv

(* The system source runs and is selected. *)
LEMMA ConfirmLiveEffect ==
  ASSUME IInv, ConfirmLive
  PROVE  /\ SameHost /\ journal'.phase = "SystemRestored"
         /\ journal'.destinationBackup = journal.destinationBackup
         /\ journal'.startBoot = journal.startBoot
         /\ Goes("rollback", "begin") \/ Goes("none", "none")
BY ResumedEffect DEF IInv, TableInv, ConfirmLive, At

(* The invariant is kept. *)
LEMMA ConfirmLiveKeeps ==
  ASSUME IInv, ConfirmLive
  PROVE  IInv'
<1>1. SwitchTypeOK'
  BY ConfirmLiveEffect DEF IInv, SwitchTypeOK, ConfirmLive, SameHost, Goes,
    LaunchTypeOK, launch, bounds
<1>2. LockInv'
  BY DEF IInv, LockInv, ConfirmLive, launch
<1>3. TableInv'
  BY ConfirmLiveEffect DEF IInv, TableInv, ConfirmLive, SameHost, Goes, At, Terminal
<1>4. HoldInv'
  BY ConfirmLiveEffect DEF IInv, HoldInv, ConfirmLive, Goes, launch
<1>5. HelperInv'
  BY ConfirmLiveEffect DEF IInv, HelperInv, ConfirmLive, Goes, At
<1>6. FilesInv'
  BY ConfirmLiveEffect DEF IInv, TableInv, FilesInv, ConfirmLive, SameHost, At,
    Deferred
<1>7. GateInv'
  BY RoutesAssumption, ConfirmLiveEffect DEF IInv, LockInv, GateInv, ConfirmLive,
    SameHost, Goes, Modes, launch
<1>8. SubmitInv'
  BY ConfirmLiveEffect DEF IInv, SubmitInv, ConfirmLive, SameHost, Goes, Deferred
<1>9. HostInv'
  BY ConfirmLiveEffect DEF IInv, TableInv, HostInv, ConfirmLive, SameHost, Goes, At,
    launch, bounds
<1> QED
  BY <1>1, <1>2, <1>3, <1>4, <1>5, <1>6, <1>7, <1>8, <1>9 DEF IInv

(* Launches are paused for the system source. *)
LEMMA PauseForSystemEffect ==
  ASSUME IInv, PauseForSystem
  PROVE  Keeps(journal.phase, "reserveSystem")
BY GotoEffect DEF PauseForSystem, disk, IInv, TableInv, At, Places

(* The invariant is kept. *)
LEMMA PauseForSystemKeeps ==
  ASSUME IInv, PauseForSystem
  PROVE  IInv'
<1>1. SwitchTypeOK'
  BY RoutesAssumption, PauseForSystemEffect DEF IInv, SwitchTypeOK, LockInv,
    TableInv, HoldInv, HelperInv, FilesInv, GateInv, SubmitInv, HostInv,
    PauseForSystem, Keeps, SameHost, Goes, LaunchTypeOK, Gates, Helpers, Pending,
    Destination, Other, Modes, At, launch, switching, disk, bounds, Terminal,
    Forward, Backward, Deferred, Phases
<1>2. LockInv'
  BY DEF IInv, LockInv, PauseForSystem
<1>3. TableInv'
  BY PauseForSystemEffect DEF IInv, TableInv, PauseForSystem, Keeps, Goes, Pending,
    At, disk
<1>4. HoldInv'
  BY PauseForSystemEffect DEF IInv, HoldInv, PauseForSystem, Keeps, Goes
<1>5. HelperInv'
  BY PauseForSystemEffect DEF IInv, HelperInv, PauseForSystem, Keeps, Goes, At
<1>6. FilesInv'
  BY DEF IInv, FilesInv, PauseForSystem, Pending, disk
<1>7. GateInv'
  BY PauseForSystemEffect DEF IInv, GateInv, PauseForSystem, Keeps, Goes, Pending,
    Destination, disk
<1>8. SubmitInv'
  BY PauseForSystemEffect DEF IInv, SubmitInv, PauseForSystem, Keeps, Goes, Pending,
    disk
<1>9. HostInv'
  BY PauseForSystemEffect, PolicyKept DEF IInv, TableInv, HostInv, PauseForSystem,
    Keeps, Goes, Pending, At, disk, bounds, AsRecorded
<1> QED
  BY <1>1, <1>2, <1>3, <1>4, <1>5, <1>6, <1>7, <1>8, <1>9 DEF IInv

(* The hardware is reserved for the system source. *)
LEMMA ReserveForSystemEffect ==
  ASSUME IInv, ReserveForSystem
  PROVE  Keeps(journal.phase, "startup")
BY GotoEffect DEF ReserveForSystem, disk, IInv, TableInv, At, Places

(* The invariant is kept. *)
LEMMA ReserveForSystemKeeps ==
  ASSUME IInv, ReserveForSystem
  PROVE  IInv'
<1>1. SwitchTypeOK'
  BY ReserveForSystemEffect DEF IInv, SwitchTypeOK, ReserveForSystem, Keeps, Goes,
    LaunchTypeOK, disk, bounds
<1>2. LockInv'
  BY RoutesAssumption DEF IInv, LockInv, ReserveForSystem
<1>3. TableInv'
  BY ReserveForSystemEffect DEF IInv, TableInv, ReserveForSystem, Keeps, Goes,
    Pending, At, disk
<1>4. HoldInv'
  BY DEF IInv, HoldInv, ReserveForSystem
<1>5. HelperInv'
  BY ReserveForSystemEffect DEF IInv, HelperInv, ReserveForSystem, Keeps, Goes, At
<1>6. FilesInv'
  BY DEF IInv, FilesInv, ReserveForSystem, Pending, disk
<1>7. GateInv'
  BY ReserveForSystemEffect DEF IInv, GateInv, ReserveForSystem, Keeps, Goes,
    Pending, Destination, disk
<1>8. SubmitInv'
  BY ReserveForSystemEffect DEF IInv, SubmitInv, ReserveForSystem, Keeps, Goes,
    Pending, disk
<1>9. HostInv'
  BY ReserveForSystemEffect, PolicyKept DEF IInv, HostInv, ReserveForSystem, Keeps,
    Goes, Pending, disk, bounds, AsRecorded
<1> QED
  BY <1>1, <1>2, <1>3, <1>4, <1>5, <1>6, <1>7, <1>8, <1>9 DEF IInv

(* The start is recorded, or none is needed. *)
LEMMA SubmitStartEffect ==
  ASSUME IInv, SubmitStart
  PROVE  \/ /\ SameHost /\ journal'.phase = journal.phase
            /\ journal'.destinationBackup = journal.destinationBackup
            /\ journal.startBoot # boot /\ journal'.startBoot = boot
            /\ Goes("resume", "dispatch")
         \/ /\ SameHost /\ journal'.phase = "SystemRestored"
            /\ journal'.destinationBackup = journal.destinationBackup
            /\ journal'.startBoot = journal.startBoot
            /\ Goes("rollback", "begin") \/ Goes("none", "none")
<1>1. journal \in Record /\ coord \in Coordinators /\ boot \in Nat /\ Pending
  BY DEF IInv, SwitchTypeOK, TableInv, SubmitStart, At, Pending
<1>2. CASE SourceShouldRun
  <2>1. /\ journal' = [journal EXCEPT !.startBoot = boot] /\ journal.startBoot # boot
        /\ coord' = [coord EXCEPT !.at = "dispatch"] /\ coord.run = "resume"
    BY <1>2 DEF SubmitStart, Goto, At
  <2>2. journal' \in Record
    BY <1>1, <2>1 DEF Record
  <2>3. coord' \in Coordinators
    BY <1>1, <2>1 DEF Coordinators, Places
  <2> QED
    BY <1>1, <2>1, <2>2, <2>3, NotRecord DEF SameHost, Goes, Pending, Record, Coordinators
<1>3. CASE ~SourceShouldRun
  BY <1>1, <1>3, ResumedEffect DEF IInv, SubmitStart
<1> QED
  BY <1>2, <1>3

(* The invariant is kept. *)
LEMMA SubmitStartKeeps ==
  ASSUME IInv, SubmitStart
  PROVE  IInv'
<1>1. SwitchTypeOK'
  BY SubmitStartEffect DEF IInv, SwitchTypeOK, SubmitStart, SameHost, Goes,
    LaunchTypeOK, bounds
<1>2. LockInv'
  BY RoutesAssumption DEF IInv, LockInv, HoldInv, SubmitStart, At
<1>3. TableInv'
  BY SubmitStartEffect DEF IInv, TableInv, SubmitStart, SameHost, Goes, At, Terminal
<1>4. HoldInv'
  BY SubmitStartEffect DEF IInv, HoldInv, HelperInv, SubmitStart, Goes, At
<1>5. HelperInv'
  BY SubmitStartEffect DEF IInv, HelperInv, SubmitStart, Goes, At
<1>6. FilesInv'
  BY SubmitStartEffect DEF IInv, TableInv, FilesInv, SubmitStart, SameHost, At,
    Deferred
<1>7. GateInv'
  BY RoutesAssumption, SubmitStartEffect DEF IInv, LockInv, TableInv, HoldInv,
    GateInv, SubmitStart, SameHost, Goes, Modes, At
<1>8. SubmitInv'
  BY SubmitStartEffect DEF IInv, SubmitInv, SubmitStart, SameHost, Goes, Deferred
<1>9. HostInv'
  BY SubmitStartEffect DEF IInv, TableInv, HostInv, SubmitStart, SameHost, Goes, At,
    bounds
<1> QED
  BY <1>1, <1>2, <1>3, <1>4, <1>5, <1>6, <1>7, <1>8, <1>9 DEF IInv

(* The start is submitted. *)
LEMMA DispatchSystemStartEffect ==
  ASSUME IInv, DispatchSystemStart
  PROVE  /\ Goes("resume", "loop") /\ submitted = 0 /\ submitted' = 1
         /\ daemon' \in [Routes -> DaemonStates]
<1>1. Goes("resume", "loop")
  BY DEF IInv, SwitchTypeOK, DispatchSystemStart, Coordinators, Goes, At, Places
<1>2. submitted = 0 /\ submitted' = 1
  BY DEF IInv, SubmitInv, DispatchSystemStart, At
<1>3. daemon' \in [Routes -> DaemonStates]
  BY RoutesAssumption DEF IInv, SwitchTypeOK, LaunchTypeOK, DispatchSystemStart,
    Becomes, DaemonStates, Modes
<1> QED
  BY <1>1, <1>2, <1>3

(* The invariant is kept. *)
LEMMA DispatchSystemStartKeeps ==
  ASSUME IInv, DispatchSystemStart
  PROVE  IInv'
<1>1. SwitchTypeOK'
  BY DispatchSystemStartEffect DEF IInv, SwitchTypeOK, DispatchSystemStart, Goes,
    LaunchTypeOK, disk, bounds
<1>2. LockInv'
  BY DEF IInv, LockInv, DispatchSystemStart, Becomes
<1>3. TableInv'
  BY DEF IInv, TableInv, DispatchSystemStart, Pending, At, disk
<1>4. HoldInv'
  BY DEF IInv, HoldInv, DispatchSystemStart
<1>5. HelperInv'
  BY DEF IInv, HelperInv, DispatchSystemStart, At
<1>6. FilesInv'
  BY DEF IInv, FilesInv, DispatchSystemStart, Pending, disk
<1>7. GateInv'
  BY DEF IInv, GateInv, DispatchSystemStart, Becomes, Pending, Destination, disk
<1>8. SubmitInv'
  BY DEF IInv, TableInv, SubmitInv, DispatchSystemStart, Pending, At, disk, Deferred
<1>9. HostInv'
  BY PolicyKept DEF IInv, HostInv, DispatchSystemStart, Pending, disk, bounds,
    AsRecorded
<1> QED
  BY <1>1, <1>2, <1>3, <1>4, <1>5, <1>6, <1>7, <1>8, <1>9 DEF IInv

(* A step fails: a switch is rolled back, a rollback may restore the system. *)
LEMMA StepFailsEffect ==
  ASSUME IInv, StepFails
  PROVE  \/ Goes("none", "none")
         \/ /\ coord.run = "switch" /\ journal.phase \notin Terminal
            /\ Goes("rollback", "begin")
         \/ /\ journal.source = System /\ journal.phase \notin Terminal
            /\ Goes("resume", "begin")
<1>1. CASE coord.at = "archive"
  <2>1. coord' = Absent
    BY <1>1 DEF StepFails
  <2> QED
    BY <2>1, AbsentType DEF Goes
<1>2. CASE coord.at # "archive" /\ coord.run = "switch"
  <2>1. journal.phase \notin Terminal
    BY <1>2 DEF IInv, TableInv, Terminal
  <2>2. coord' = [Absent EXCEPT !.run = "rollback", !.at = "begin"]
    BY <1>2, Zenon DEF StepFails
  <2> QED
    BY <1>2, <2>1, <2>2, BeginType DEF Goes, Places
<1>3. CASE coord.at # "archive" /\ coord.run # "switch"
  <2>1. \/ coord' = Absent
        \/ Eligible /\ coord' = [Absent EXCEPT !.run = "resume", !.at = "begin"]
    BY <1>3 DEF StepFails
  <2>2. CASE coord' = Absent
    BY <2>2, AbsentType DEF Goes
  <2>3. CASE Eligible /\ coord' = [Absent EXCEPT !.run = "resume", !.at = "begin"]
    <3>1. Goes("resume", "begin")
      BY <2>3, BeginType DEF Goes, Places
    <3> QED
      BY <2>3, <3>1 DEF Eligible
  <2> QED
    BY <2>1, <2>2, <2>3
<1> QED
  BY <1>1, <1>2, <1>3

(* The invariant is kept. *)
LEMMA StepFailsKeeps ==
  ASSUME IInv, StepFails
  PROVE  IInv'
<1>1. SwitchTypeOK'
  BY StepFailsEffect DEF IInv, SwitchTypeOK, StepFails, Goes, LaunchTypeOK, disk
<1>2. LockInv'
  BY RoutesAssumption DEF IInv, LockInv, StepFails
<1>3. TableInv'
  BY StepFailsEffect DEF IInv, TableInv, StepFails, Goes, Pending, disk
<1>4. HoldInv'
  BY StepFailsEffect DEF IInv, HoldInv, StepFails, Goes
<1>5. HelperInv'
  BY StepFailsEffect DEF IInv, HelperInv, StepFails, Goes
<1>6. FilesInv'
  BY DEF IInv, FilesInv, StepFails, Pending, disk
<1>7. GateInv'
  BY StepFailsEffect DEF IInv, GateInv, StepFails, Goes, Pending, Destination, disk
<1>8. SubmitInv'
  BY StepFailsEffect DEF IInv, SubmitInv, StepFails, Goes, Pending, disk
<1>9. HostInv'
  BY StepFailsEffect, PolicyKept DEF IInv, HostInv, StepFails, Goes, Pending, disk,
    AsRecorded
<1> QED
  BY <1>1, <1>2, <1>3, <1>4, <1>5, <1>6, <1>7, <1>8, <1>9 DEF IInv

(* The helper writes. *)
LEMMA HelperWritesKeeps ==
  ASSUME IInv, HelperWrites
  PROVE  IInv'
<1>1. SwitchTypeOK'
  BY DEF IInv, SwitchTypeOK, HelperWrites, LaunchTypeOK, launch, bounds
<1>2. LockInv'
  BY DEF IInv, LockInv, HelperWrites, launch
<1>3. TableInv'
  BY DEF IInv, TableInv, HelperWrites, Pending
<1>4. HoldInv'
  BY DEF IInv, HoldInv, HelperWrites, launch
<1>5. HelperInv'
  BY DEF IInv, HelperInv, HelperWrites, Pending
<1>6. FilesInv'
  BY DEF IInv, SwitchTypeOK, HelperInv, FilesInv, HelperWrites, Outcome, Undone,
    Helpers, Helpers, Pending
<1>7. GateInv'
  BY DEF IInv, GateInv, HelperWrites, Pending, Destination, launch
<1>8. SubmitInv'
  BY DEF IInv, SubmitInv, HelperWrites, Pending
<1>9. HostInv'
  BY PolicyKept DEF IInv, HostInv, HelperWrites, Pending, Destination, launch,
    bounds, AsRecorded
<1> QED
  BY <1>1, <1>2, <1>3, <1>4, <1>5, <1>6, <1>7, <1>8, <1>9 DEF IInv

(* The helper commits. *)
LEMMA HelperCompletesEffect ==
  ASSUME IInv, HelperCompletes
  PROVE  /\ helper \in Helpers /\ helper.state = "working"
         /\ helper' \in Helpers /\ helper'.action = helper.action /\ helper'.state = "done"
BY DEF IInv, SwitchTypeOK, HelperCompletes, Helpers

(* The invariant is kept. *)
LEMMA HelperCompletesKeeps ==
  ASSUME IInv, HelperCompletes
  PROVE  IInv'
<1>1. SwitchTypeOK'
  BY DEF IInv, SwitchTypeOK, HelperCompletes, Outcome, Undone, LaunchTypeOK, Helpers,
    launch, bounds
<1>2. LockInv'
  BY DEF IInv, LockInv, HelperCompletes, launch
<1>3. TableInv'
  BY DEF IInv, TableInv, HelperCompletes, Pending
<1>4. HoldInv'
  BY DEF IInv, HoldInv, HelperCompletes, launch
<1>5. HelperInv'
  BY DEF IInv, HelperInv, HelperCompletes, Outcome, Pending
<1>6. FilesInv'
  BY HelperCompletesEffect, NotRecord DEF IInv, HelperInv, FilesInv, HelperCompletes,
    Outcome, Undone, Helpers
<1>7. GateInv'
  BY DEF IInv, GateInv, HelperCompletes, Pending, Destination, launch
<1>8. SubmitInv'
  BY DEF IInv, SubmitInv, HelperCompletes, Pending
<1>9. HostInv'
  BY PolicyKept DEF IInv, HostInv, HelperCompletes, Pending, Destination, launch,
    bounds, AsRecorded
<1> QED
  BY <1>1, <1>2, <1>3, <1>4, <1>5, <1>6, <1>7, <1>8, <1>9 DEF IInv

(* A helper without a coordinator exits. *)
LEMMA OrphanExitsKeeps ==
  ASSUME IInv, OrphanExits
  PROVE  IInv'
<1>1. SwitchTypeOK'
  BY DEF IInv, SwitchTypeOK, OrphanExits, LaunchTypeOK, disk, bounds
<1>2. LockInv'
  BY RoutesAssumption DEF IInv, LockInv, HoldInv, OrphanExits
<1>3. TableInv'
  BY DEF IInv, TableInv, OrphanExits, Pending, disk
<1>4. HoldInv'
  BY DEF IInv, TableInv, HoldInv, OrphanExits
<1>5. HelperInv'
  BY DEF IInv, HelperInv, OrphanExits, disk
<1>6. FilesInv'
  BY DEF IInv, FilesInv, OrphanExits, Pending, disk
<1>7. GateInv'
  BY DEF IInv, GateInv, OrphanExits, Pending, Destination, disk
<1>8. SubmitInv'
  BY DEF IInv, SubmitInv, OrphanExits, Pending, disk
<1>9. HostInv'
  BY PolicyKept DEF IInv, HostInv, OrphanExits, Pending, disk, bounds, AsRecorded
<1> QED
  BY <1>1, <1>2, <1>3, <1>4, <1>5, <1>6, <1>7, <1>8, <1>9 DEF IInv

(* The coordinator is killed. *)
LEMMA CrashKeeps ==
  ASSUME IInv, Crash
  PROVE  IInv'
<1>1. SwitchTypeOK'
  BY AbsentType DEF IInv, SwitchTypeOK, Crash, LaunchTypeOK, disk
<1>2. LockInv'
  BY RoutesAssumption DEF IInv, LockInv, Crash
<1>3. TableInv'
  BY AbsentType DEF IInv, TableInv, Crash, disk
<1>4. HoldInv'
  BY AbsentType DEF IInv, HoldInv, Crash
<1>5. HelperInv'
  BY AbsentType DEF IInv, HelperInv, Crash, Pending, disk
<1>6. FilesInv'
  BY DEF IInv, FilesInv, Crash, Pending, disk
<1>7. GateInv'
  BY AbsentType DEF IInv, GateInv, Crash, Pending, Destination, disk
<1>8. SubmitInv'
  BY AbsentType DEF IInv, SubmitInv, Crash, Pending, disk
<1>9. HostInv'
  BY AbsentType, PolicyKept DEF IInv, HostInv, Crash, Pending, disk, AsRecorded
<1> QED
  BY <1>1, <1>2, <1>3, <1>4, <1>5, <1>6, <1>7, <1>8, <1>9 DEF IInv

(* The helper is killed. *)
LEMMA HelperFailsKeeps ==
  ASSUME IInv, HelperFails
  PROVE  IInv'
<1>1. SwitchTypeOK'
  BY DEF IInv, SwitchTypeOK, HelperFails, LaunchTypeOK, launch, disk
<1>2. LockInv'
  BY DEF IInv, LockInv, HelperFails, launch
<1>3. TableInv'
  BY DEF IInv, TableInv, HelperFails, Pending, disk
<1>4. HoldInv'
  BY DEF IInv, HoldInv, HelperFails, launch
<1>5. HelperInv'
  BY DEF IInv, HelperInv, HelperFails
<1>6. FilesInv'
  BY DEF IInv, FilesInv, HelperFails, Pending, disk
<1>7. GateInv'
  BY DEF IInv, GateInv, HelperFails, Pending, Destination, launch, disk
<1>8. SubmitInv'
  BY DEF IInv, SubmitInv, HelperFails, Pending, disk
<1>9. HostInv'
  BY PolicyKept DEF IInv, HostInv, HelperFails, Pending, Destination, launch, disk,
    AsRecorded
<1> QED
  BY <1>1, <1>2, <1>3, <1>4, <1>5, <1>6, <1>7, <1>8, <1>9 DEF IInv

(* The daemons move, and nothing of the switch does. *)
LEMMA DaemonMovesKeeps ==
  ASSUME IInv, DaemonMoves, UNCHANGED <<gate, session, switching, scenario, logins>>,
         {commands', faults', switches'} \subseteq Nat
  PROVE  IInv'
<1>1. SwitchTypeOK'
  BY DEF IInv, SwitchTypeOK, DaemonMoves, LaunchTypeOK, switching
<1>2. LockInv'
  BY DEF IInv, LockInv, DaemonMoves, Allowed
<1>3. TableInv'
  BY DEF IInv, TableInv, Pending, switching
<1>4. HoldInv'
  BY DEF IInv, HoldInv, DaemonMoves, switching
<1>5. HelperInv'
  BY DEF IInv, HelperInv, Pending, switching
<1>6. FilesInv'
  BY DEF IInv, FilesInv, Pending, switching
<1>7. GateInv'
  BY RoutesAssumption DEF IInv, GateInv, DaemonMoves, Pending, Destination, Other,
    Modes, switching, ScopeOf, Allowed
<1>8. SubmitInv'
  BY DEF IInv, SubmitInv, Pending, switching
<1>9. HostInv'
  BY PolicyKept DEF IInv, HostInv, Pending, Destination, switching, AsRecorded
<1> QED
  BY <1>1, <1>2, <1>3, <1>4, <1>5, <1>6, <1>7, <1>8, <1>9 DEF IInv

(* A launched daemon looks at the gate. *)
LEMMA CheckGateMoves ==
  ASSUME IInv, NEW r \in Routes, CheckGate(r)
  PROVE  DaemonMoves /\ UNCHANGED <<gate, session>>
BY DEF IInv, SwitchTypeOK, LaunchTypeOK, LockInv, DaemonMoves, DaemonStates, Becomes,
  CheckGate

(* A daemon takes the lock, or fails to. *)
LEMMA AcquirePidLockMoves ==
  ASSUME IInv, NEW r \in Routes, AcquirePidLock(r)
  PROVE  DaemonMoves /\ UNCHANGED <<gate, session>>
BY RoutesAssumption DEF IInv, SwitchTypeOK, LaunchTypeOK, LockInv, DaemonMoves,
  DaemonStates, Becomes, AcquirePidLock, AfterFailure

(* The daemon that holds the lock looks at the gate again. *)
LEMMA RecheckGateMoves ==
  ASSUME IInv, NEW r \in Routes, RecheckGate(r)
  PROVE  DaemonMoves /\ UNCHANGED <<gate, session>>
BY RoutesAssumption DEF IInv, SwitchTypeOK, LaunchTypeOK, LockInv, DaemonMoves,
  DaemonStates, Becomes, RecheckGate, Releases

(* A daemon exits. *)
LEMMA ExitCleanlyMoves ==
  ASSUME IInv, NEW r \in Routes, ExitCleanly(r)
  PROVE  DaemonMoves /\ UNCHANGED <<gate, session>>
BY RoutesAssumption DEF IInv, SwitchTypeOK, LaunchTypeOK, LockInv, DaemonMoves,
  DaemonStates, Becomes, ExitCleanly, Releases

(* A daemon is started again. *)
LEMMA AutoRestartMoves ==
  ASSUME IInv, NEW r \in Routes, AutoRestart(r)
  PROVE  DaemonMoves /\ UNCHANGED <<gate, session>>
BY DEF IInv, SwitchTypeOK, LaunchTypeOK, LockInv, DaemonMoves, DaemonStates, Becomes,
  AutoRestart

(* A daemon is started. *)
LEMMA LaunchMoves ==
  ASSUME IInv, NEW r \in Routes, Launch(r)
  PROVE  DaemonMoves /\ UNCHANGED <<gate, session>>
BY DEF IInv, SwitchTypeOK, LaunchTypeOK, LockInv, DaemonMoves, DaemonStates, Becomes,
  Launch

(* A daemon is stopped. *)
LEMMA StopByHandMoves ==
  ASSUME IInv, NEW r \in Routes, StopByHand(r)
  PROVE  DaemonMoves /\ UNCHANGED <<gate, session>>
BY RoutesAssumption DEF IInv, SwitchTypeOK, LaunchTypeOK, LockInv, DaemonMoves,
  DaemonStates, Becomes, StopByHand, Releases

(* A daemon fails. *)
LEMMA DaemonFailsMoves ==
  ASSUME IInv, NEW r \in Routes, DaemonFails(r)
  PROVE  DaemonMoves /\ UNCHANGED <<gate, session>>
BY RoutesAssumption DEF IInv, SwitchTypeOK, LaunchTypeOK, LockInv, DaemonMoves,
  DaemonStates, Becomes, DaemonFails, Releases, AfterFailure

(* A step of a daemon. *)
LEMMA DaemonKeeps ==
  ASSUME IInv, NEW r \in Routes, Daemon(r)
  PROVE  IInv'
<1>1. DaemonMoves /\ UNCHANGED <<gate, session>>
  BY CheckGateMoves, AcquirePidLockMoves, RecheckGateMoves, ExitCleanlyMoves,
    AutoRestartMoves DEF Daemon, DaemonStep
<1> QED
  BY <1>1, DaemonMovesKeeps DEF Daemon, bounds, IInv, SwitchTypeOK

(* A daemon is started or stopped by hand. *)
LEMMA ByHandKeeps ==
  ASSUME IInv, NEW r \in Routes, ByHand(r)
  PROVE  IInv'
<1>1. DaemonMoves /\ UNCHANGED <<gate, session>>
  BY LaunchMoves, StopByHandMoves DEF ByHand
<1>2. commands' \in Nat
  BY DEF ByHand, IInv, SwitchTypeOK
<1> QED
  BY <1>1, <1>2, DaemonMovesKeeps DEF ByHand, IInv, SwitchTypeOK

(* A daemon fails. *)
LEMMA DaemonFaultKeeps ==
  ASSUME IInv, NEW r \in Routes, DaemonFault(r)
  PROVE  IInv'
<1>1. DaemonMoves /\ UNCHANGED <<gate, session>>
  BY DaemonFailsMoves DEF DaemonFault
<1>2. faults' \in Nat
  BY DEF DaemonFault, IInv, SwitchTypeOK
<1> QED
  BY <1>1, <1>2, DaemonMovesKeeps DEF DaemonFault, IInv, SwitchTypeOK

(* Enablement that expires. *)
Expired(policy, ms) ==
  [m \in Modes |-> IF m \in ms /\ policy[m] = "runtime" THEN "disabled" ELSE policy[m]]

(* What a journal restores expires with the session and with the boot, as    *)
(* the enablement of the host does; another session brings nothing back.     *)
LEMMA LogoutPolicy ==
  ASSUME IInv, Pending, Logout
  PROVE  RestorationPolicy' = Expired(RestorationPolicy, {User})
BY RoutesAssumption
DEF IInv, HostInv, SwitchTypeOK, LaunchTypeOK, Record, Logout, RestorationPolicy, SameBoot,
    SameRuntime, Policies, Pending, Expired, Modes

(* A login starts a session of its own. *)
LEMMA LoginPolicy ==
  ASSUME IInv, Pending, Login
  PROVE  RestorationPolicy' = RestorationPolicy
<1>1. session' = logins + 1 /\ logins \in Nat /\ UNCHANGED <<journal, boot>>
  BY DEF IInv, SwitchTypeOK, Login, switching
<1>2. journal.runtime # session /\ journal'.runtime # session'
  BY <1>1 DEF IInv, SwitchTypeOK, HostInv, Login, Record, Pending
<1> QED
  BY <1>1, <1>2 DEF RestorationPolicy, SameBoot, SameRuntime

(* A reboot ends every enablement that was for a session or the boot. *)
LEMMA RebootPolicy ==
  ASSUME IInv, Pending, Reboot
  PROVE  RestorationPolicy' = Expired(RestorationPolicy, Modes)
<1>1. boot' = boot + 1 /\ boot \in Nat /\ UNCHANGED journal
  BY DEF IInv, SwitchTypeOK, Reboot
<1>2. journal.boot # boot'
  BY <1>1 DEF IInv, SwitchTypeOK, HostInv, Record, Pending
<1> QED
  BY <1>1, <1>2 DEF RestorationPolicy, SameBoot, SameRuntime, Expired

(* The user logs out. *)
LEMMA LogoutKeeps ==
  ASSUME IInv, Logout
  PROVE  IInv'
<1>1. SwitchTypeOK'
  <2>1. startup' \in Policies
    BY DEF IInv, SwitchTypeOK, Logout, Expire, Policies, Startups
  <2>2. daemon' \in [Routes -> DaemonStates]
    BY DEF IInv, SwitchTypeOK, LaunchTypeOK, Logout, Kill, DaemonStates
  <2> QED
    BY <2>1, <2>2 DEF IInv, SwitchTypeOK, Logout, Kill, LaunchTypeOK, bounds
<1>2. LockInv'
  BY DEF IInv, LockInv, Logout, Kill
<1>3. TableInv'
  BY DEF IInv, TableInv, Logout, Pending
<1>4. HoldInv'
  BY RoutesAssumption DEF IInv, HoldInv, Logout, Kill
<1>5. HelperInv'
  BY DEF IInv, HelperInv, Logout, Pending
<1>6. FilesInv'
  BY DEF IInv, FilesInv, Logout, Pending
<1>7. GateInv'
  BY RoutesAssumption DEF IInv, GateInv, Logout, Kill, Pending, Destination, Other,
    Modes
<1>8. SubmitInv'
  BY DEF IInv, SubmitInv, Logout, Pending
<1>9. HostInv'
  <2>1. startup = RestorationPolicy /\ Pending => startup' = RestorationPolicy'
    BY LogoutPolicy DEF Logout, Expire, Expired
  <2>2. \A m \in Modes : startup = Only(m) => startup' = Only(m)
    BY DEF Logout, Expire, Only
  <2> QED
    BY <2>1, <2>2 DEF IInv, SwitchTypeOK, TableInv, HostInv, Logout, Pending,
      Destination, Other, Modes, bounds, AsRecorded
<1> QED
  BY <1>1, <1>2, <1>3, <1>4, <1>5, <1>6, <1>7, <1>8, <1>9 DEF IInv

(* The user logs in. *)
LEMMA LoginKeeps ==
  ASSUME IInv, Login
  PROVE  IInv'
<1>1. SwitchTypeOK'
  <2>1. session' \in Nat /\ logins' \in Nat
    BY DEF IInv, SwitchTypeOK, LaunchTypeOK, Login
  <2>2. daemon' \in [Routes -> DaemonStates]
    BY DEF IInv, SwitchTypeOK, LaunchTypeOK, Login, DaemonStates
  <2> QED
    BY <2>1, <2>2 DEF IInv, SwitchTypeOK, Login, LaunchTypeOK, switching
<1>2. LockInv'
  BY DEF IInv, LockInv, Login
<1>3. TableInv'
  BY DEF IInv, TableInv, Login, Pending, switching
<1>4. HoldInv'
  BY DEF IInv, HoldInv, Login, switching
<1>5. HelperInv'
  BY DEF IInv, HelperInv, Login, Pending, switching
<1>6. FilesInv'
  BY DEF IInv, FilesInv, Login, Pending, switching
<1>7. GateInv'
  BY DEF IInv, GateInv, Login, Pending, Destination, switching
<1>8. SubmitInv'
  BY DEF IInv, SubmitInv, Login, Pending, switching
<1>9. HostInv'
  <2>1. session' = logins + 1 /\ logins' = logins + 1 /\ logins \in Nat
    BY DEF IInv, SwitchTypeOK, Login
  <2>2. Pending => RestorationPolicy' = RestorationPolicy
    BY LoginPolicy
  <2> QED
    BY <2>1, <2>2 DEF IInv, SwitchTypeOK, TableInv, HostInv, Login, Record, Pending,
      Destination, switching, AsRecorded
<1> QED
  BY <1>1, <1>2, <1>3, <1>4, <1>5, <1>6, <1>7, <1>8, <1>9 DEF IInv

(* The host reboots. *)
LEMMA RebootKeeps ==
  ASSUME IInv, Reboot
  PROVE  IInv'
<1>1. SwitchTypeOK'
  <2>1. startup' \in Policies
    BY DEF IInv, SwitchTypeOK, Reboot, Expire, Policies, Startups
  <2>2. daemon' \in [Routes -> DaemonStates]
    BY DEF IInv, SwitchTypeOK, LaunchTypeOK, Reboot, DaemonStates
  <2>3. boot' \in Nat
    BY DEF IInv, SwitchTypeOK, Reboot
  <2> QED
    BY <2>1, <2>2, <2>3, AbsentType DEF IInv, SwitchTypeOK, Reboot, LaunchTypeOK,
      bounds
<1>2. LockInv'
  BY DEF IInv, LockInv, Reboot
<1>3. TableInv'
  BY AbsentType DEF IInv, TableInv, Reboot, Pending
<1>4. HoldInv'
  BY AbsentType DEF IInv, HoldInv, Reboot
<1>5. HelperInv'
  BY AbsentType DEF IInv, HelperInv, Reboot
<1>6. FilesInv'
  BY DEF IInv, FilesInv, Reboot, Pending
<1>7. GateInv'
  BY RoutesAssumption, AbsentType DEF IInv, GateInv, Reboot, Pending, Destination,
    Other, Modes
<1>8. SubmitInv'
  BY AbsentType DEF IInv, SubmitInv, Reboot
<1>9. HostInv'
  <2>1. boot' = boot + 1 /\ boot \in Nat /\ journal' = journal
    BY DEF IInv, SwitchTypeOK, Reboot
  <2>2. startup = RestorationPolicy /\ Pending => startup' = RestorationPolicy'
    BY RebootPolicy DEF Reboot, Expire, Expired
  <2> QED
    BY <2>1, <2>2, AbsentType DEF IInv, SwitchTypeOK, HostInv, Reboot, Record,
      Pending, bounds, AsRecorded
<1> QED
  BY <1>1, <1>2, <1>3, <1>4, <1>5, <1>6, <1>7, <1>8, <1>9 DEF IInv

-----------------------------------------------------------------------------
(* What a scenario allows. *)
LEMMA ScenarioType ==
  ASSUME scenario \in DOMAIN Scenarios
  PROVE  /\ Limit.sources \subseteq Modes
         /\ \A host \in Limit.hosts :
              host.startup \in Policies /\ host.selection \in Modes \cup {None}
BY ScenariosAssumption DEF Limit

(* A host at rest. *)
LEMMA InitInv ==
  ASSUME SwitchInit
  PROVE  IInv
<1>1. scenario \in DOMAIN Scenarios
  BY DEF SwitchInit
<1>2. PICK host \in Limit.hosts :
         /\ gate = [selection |-> host.selection, paused |-> FALSE]
         /\ startup = host.startup
  BY DEF SwitchInit
<1>3. gate \in Gates /\ startup \in Policies
  BY <1>1, <1>2, ScenarioType DEF Gates
<1>4. /\ daemon = [r \in Routes |-> "none"] /\ hardware = None /\ session = 1
      /\ journal = None /\ coord = Absent /\ helper = None /\ files = "own"
      /\ txn = None /\ boot = 1 /\ submitted = 0
      /\ commands = 0 /\ faults = 0 /\ logins = 1 /\ switches = 0
  BY DEF SwitchInit
<1>5. LaunchTypeOK
  BY <1>3, <1>4 DEF LaunchTypeOK, DaemonStates
<1>6. SwitchTypeOK
  BY <1>1, <1>3, <1>4, <1>5, AbsentType DEF SwitchTypeOK
<1>7. ~gate.paused
  BY <1>2
<1> QED
  BY <1>4, <1>6, <1>7, AbsentType, NotRecord
  DEF IInv, LockInv, TableInv, HoldInv, HelperInv, FilesInv, GateInv, SubmitInv,
      HostInv, Pending

(* Nothing happens. *)
LEMMA StutterInv ==
  ASSUME IInv, UNCHANGED vars
  PROVE  IInv'
<1>1. UNCHANGED <<gate, daemon, hardware, session, startup, journal, coord, helper,
                  files, txn, boot, submitted, scenario, commands, faults, logins,
                  switches>>
  BY DEF vars, launch, switching, bounds
<1>2. Pending' = Pending /\ Destination' = Destination /\ AsRecorded' = AsRecorded
  BY <1>1, PolicyKept DEF Pending, Destination, AsRecorded
<1> QED
  BY <1>1, <1>2
  DEF IInv, SwitchTypeOK, LaunchTypeOK, LockInv, TableInv, HoldInv, HelperInv, FilesInv,
      GateInv, SubmitInv, HostInv

(* Every step of the coordinator. *)
LEMMA CoordinatorStepKeeps ==
  ASSUME IInv, CoordinatorStep
  PROVE  IInv'
BY PrepareKeeps, AnnounceStopKeeps, PauseLaunchesKeeps, FoundStoppedKeeps,
   DispatchStopKeeps, ConfirmStopKeeps, ReserveKeeps, ConfirmIdleKeeps,
   SelectDestinationKeeps, SpawnHelperKeeps, RecordBackupKeeps, AuthorizeKeeps,
   HelperReturnsKeeps, ChangeStartupKeeps, OpenGateKeeps, ReleaseKeeps,
   DispatchStartKeeps, StartedKeeps, FinalizeKeeps, ArchiveKeeps,
   BeginRestoringSystemKeeps, BeginDeferredKeeps, BeginDiscardKeeps, BeginRestoreKeeps,
   BeginResumeKeeps, ReopenLiveKeeps, ConfirmLiveKeeps, PauseForSystemKeeps,
   ReserveForSystemKeeps, SubmitStartKeeps, DispatchSystemStartKeeps
DEF CoordinatorStep

(* Every step. *)
LEMMA StepInv ==
  ASSUME IInv, SwitchNext
  PROVE  IInv'
<1>1. CASE Request
  <2>1. PICK source \in Limit.sources, running \in BOOLEAN, carry \in BOOLEAN :
          RequestSwitch(source, running, carry)
    BY <1>1 DEF Request
  <2>2. source \in Modes
    BY ScenarioType DEF IInv, SwitchTypeOK
  <2> QED
    BY <2>1, <2>2, RequestSwitchKeeps
<1>2. CASE RequestRecovery
  BY <1>2, RequestRecoveryKeeps
<1>3. CASE CoordinatorStep
  BY <1>3, CoordinatorStepKeeps
<1>4. CASE StepFails
  BY <1>4, StepFailsKeeps
<1>5. CASE HelperStep
  BY <1>5, HelperWritesKeeps, HelperCompletesKeeps, OrphanExitsKeeps DEF HelperStep
<1>6. CASE \E r \in Routes : Daemon(r)
  BY <1>6, DaemonKeeps
<1>7. CASE Environment
  BY <1>7, ByHandKeeps, DaemonFaultKeeps, LogoutKeeps, LoginKeeps, RebootKeeps,
    CrashKeeps, HelperFailsKeeps DEF Environment
<1> QED
  BY <1>1, <1>2, <1>3, <1>4, <1>5, <1>6, <1>7 DEF SwitchNext

(* The inductive invariant, from any host and under any scenario. *)
THEOREM Invariance == SwitchSpec => []IInv
<1>1. SwitchInit => IInv
  BY InitInv
<1>2. IInv /\ [SwitchNext]_vars => IInv'
  BY StepInv, StutterInv
<1> QED
  BY <1>1, <1>2, PTL DEF SwitchSpec

(* Every variable keeps its type. *)
THEOREM TypeCorrect == SwitchSpec => []SwitchTypeOK
BY Invariance, PTL DEF IInv

(* A daemon that drives the hardware is of the mode the host selected, and    *)
(* holds the PID file: there is never a second one.                           *)
THEOREM SelectedServes == SwitchSpec => []OnlySelectedServes
<1>1. IInv => OnlySelectedServes
  BY DEF IInv, LockInv, OnlySelectedServes
<1> QED
  BY <1>1, Invariance, PTL

(* Settings are rewritten only while the hardware is reserved and no daemon   *)
(* drives it, whoever of coordinator and helper is still alive.               *)
THEOREM RewriteExcludesDaemons == SwitchSpec => []RewrittenWhileStopped
<1>1. IInv => RewrittenWhileStopped
  BY RoutesAssumption DEF IInv, LockInv, HoldInv, RewrittenWhileStopped
<1> QED
  BY <1>1, Invariance, PTL

(* The destination cannot start beside a pending transaction, and does not    *)
(* serve while its settings are restored or the system source stands in; no   *)
(* gate stays paused without a journal.                                       *)
THEOREM DestinationWaits == SwitchSpec => []DestinationHeldBack
<1>1. IInv => DestinationHeldBack
  <2> SUFFICES ASSUME IInv
               PROVE  DestinationHeldBack
    OBVIOUS
  <2>1. Pending => journal.source \in Modes
    BY DEF IInv, SwitchTypeOK, Pending, Record
  <2>2. txn # None => Pending /\ ~Allowed(Destination)
    <3>1. txn # None => Pending /\ (gate.paused \/ gate.selection = journal.source)
      BY DEF IInv, FilesInv, GateInv
    <3>2. Pending => ScopeOf(Destination) = Destination /\ Destination # journal.source
                     /\ journal.source # None
      BY <2>1, RoutesAssumption DEF ScopeOf, Destination, Other, Modes
    <3> QED
      BY <3>1, <3>2 DEF Allowed
  <2>3. Pending /\ journal.phase \in {"RestoringDestination", "SystemRestored"} =>
          daemon[Destination] # "serving"
    <3>1. Pending /\ journal.phase = "SystemRestored" => Destination = User
      BY RoutesAssumption DEF IInv, TableInv, Deferred, Destination, Other
    <3> QED
      BY <3>1 DEF IInv, GateInv
  <2>4. gate.paused => Pending
    BY DEF IInv, HostInv
  <2> QED
    BY <2>2, <2>3, <2>4 DEF DestinationHeldBack
<1> QED
  BY <1>1, Invariance, PTL

(* Settings of the destination that are not its own any more have a backup    *)
(* the journal names.                                                         *)
THEOREM ChangesHaveBackup == SwitchSpec => []ChangedSettingsHaveBackup
<1>1. IInv => ChangedSettingsHaveBackup
  BY DEF IInv, FilesInv, ChangedSettingsHaveBackup
<1> QED
  BY <1>1, Invariance, PTL

(* One offline start is submitted in a boot, until it is accounted for.       *)
THEOREM StartSubmittedOnce == SwitchSpec => []SubmittedOnce
<1>1. IInv => SubmittedOnce
  BY DEF IInv, SubmitInv, SubmittedOnce
<1> QED
  BY <1>1, Invariance, PTL

-----------------------------------------------------------------------------
(* The switch as the abstract specification sees it: what a recovery would   *)
(* leave behind.                                                             *)
Seen ==
  [selection |-> IF Undecided THEN journal.previous ELSE gate.selection,
   startup |-> IF Undecided THEN RestorationPolicy ELSE startup,
   files |-> IF Undecided THEN "own" ELSE files]

(* The abstract specification's variables are what is seen. *)
LEMMA SeenStutters ==
  ASSUME UNCHANGED Seen
  PROVE  UNCHANGED Abstract!vars
BY DEF Seen, Abstract!vars

(* As long as nothing is decided, the steps of a switch are not seen.        *)
LEMMA UndecidedStutters ==
  ASSUME Undecided, SameHost, journal'.phase # "Complete", UNCHANGED <<boot, session>>
  PROVE  UNCHANGED Seen
BY PolicyKept DEF Undecided, SameHost, Seen

(* Nor is a step that leaves the journal alone, and the host too unless       *)
(* nothing is decided.                                                       *)
LEMMA UnmovedStutters ==
  ASSUME UNCHANGED <<journal, boot, session>>,
         Undecided \/ UNCHANGED <<gate, startup, files>>
  PROVE  UNCHANGED Seen
<1>1. RestorationPolicy' = RestorationPolicy
  BY PolicyKept
<1> QED
  BY <1>1 DEF Undecided, Pending, Seen

(* A coordinator at work has decided nothing before it archives.             *)
LEMMA WorkUndecided ==
  ASSUME IInv, coord.run # "none", coord.at # "archive"
  PROVE  Undecided
BY DEF IInv, SwitchTypeOK, Coordinators, TableInv, Undecided, Terminal, Deferred

(* The steps of a switch before it is complete. *)
LEMMA ForwardUnseen ==
  ASSUME IInv,
         \/ Prepare \/ AnnounceStop \/ PauseLaunches \/ FoundStopped \/ DispatchStop
         \/ ConfirmStop \/ Reserve \/ ConfirmIdle \/ SelectDestination \/ SpawnHelper
         \/ RecordBackup \/ Authorize \/ HelperReturns \/ OpenGate \/ Release
         \/ DispatchStart \/ Started \/ BeginDeferred \/ BeginDiscard \/ BeginRestore
         \/ BeginResume \/ ReopenLive \/ ConfirmLive \/ PauseForSystem
         \/ ReserveForSystem \/ SubmitStart
  PROVE  UNCHANGED Seen
<1>1. coord.run # "none" /\ coord.at # "archive" /\ Undecided
  <2>1. coord.at \notin {"none", "archive"}
    BY DEF Prepare, AnnounceStop, PauseLaunches, FoundStopped, DispatchStop, ConfirmStop,
      Reserve, ConfirmIdle, SelectDestination, SpawnHelper, RecordBackup, Authorize,
      HelperReturns, OpenGate, Release, DispatchStart, Started, BeginDeferred,
      BeginDiscard, BeginRestore, BeginResume, ReopenLive, ConfirmLive, PauseForSystem,
      ReserveForSystem, SubmitStart, At
  <2>2. coord.run # "none"
    BY <2>1 DEF IInv, TableInv
  <2> QED
    BY <2>1, <2>2, WorkUndecided
<1>2. CASE Prepare
  BY <1>1, <1>2, PrepareEffect, UndecidedStutters
  DEF Prepare, Keeps, Undecided, launch, disk
<1>3. CASE AnnounceStop
  BY <1>1, <1>3, AnnounceStopEffect, UndecidedStutters
  DEF AnnounceStop, Keeps, Undecided, launch, disk
<1>4. CASE PauseLaunches
  BY <1>1, <1>4, PauseLaunchesEffect, UndecidedStutters
  DEF PauseLaunches, Keeps, Undecided, launch, disk
<1>5. CASE FoundStopped
  BY <1>1, <1>5, FoundStoppedEffect, UndecidedStutters
  DEF FoundStopped, Keeps, Undecided, launch, disk
<1>6. CASE DispatchStop
  BY <1>1, <1>6, DispatchStopEffect, UndecidedStutters
  DEF DispatchStop, Keeps, Undecided, launch, disk
<1>7. CASE ConfirmStop
  BY <1>1, <1>7, ConfirmStopEffect, UndecidedStutters
  DEF ConfirmStop, Keeps, Undecided, launch, disk
<1>8. CASE Reserve
  BY <1>1, <1>8, ReserveEffect, UndecidedStutters
  DEF Reserve, Keeps, Undecided, launch, disk
<1>9. CASE ConfirmIdle
  BY <1>1, <1>9, ConfirmIdleEffect, UndecidedStutters
  DEF ConfirmIdle, Keeps, Undecided, launch, disk
<1>10. CASE SelectDestination
  BY <1>1, <1>10, SelectDestinationEffect, UndecidedStutters
  DEF SelectDestination, Keeps, Undecided, launch, disk
<1>11. CASE SpawnHelper
  BY <1>1, <1>11, SpawnHelperEffect, UndecidedStutters
  DEF SpawnHelper, Keeps, Undecided, launch, disk
<1>12. CASE RecordBackup
  BY <1>1, <1>12, RecordBackupEffect, UndecidedStutters
  DEF RecordBackup, Keeps, Undecided, launch, disk
<1>13. CASE Authorize
  BY <1>1, <1>13, AuthorizeEffect, UndecidedStutters
  DEF Authorize, Keeps, Undecided, launch, disk
<1>14. CASE HelperReturns
  BY <1>1, <1>14, HelperReturnsEffect, UndecidedStutters
  DEF HelperReturns, Keeps, Undecided, launch, disk
<1>15. CASE OpenGate
  BY <1>1, <1>15, OpenGateEffect, UndecidedStutters
  DEF OpenGate, Keeps, Undecided, launch, disk
<1>16. CASE Release
  BY <1>1, <1>16, ReleaseEffect, UndecidedStutters
  DEF Release, Keeps, Undecided, launch, disk
<1>17. CASE DispatchStart
  BY <1>1, <1>17, DispatchStartEffect, UndecidedStutters
  DEF DispatchStart, Keeps, Undecided, launch, disk
<1>18. CASE Started
  BY <1>1, <1>18, StartedEffect, UndecidedStutters
  DEF Started, Keeps, Undecided, launch, disk
<1>19. CASE BeginDeferred
  BY <1>1, <1>19, BeginDeferredEffect, UndecidedStutters
  DEF BeginDeferred, Keeps, Undecided, launch, disk
<1>20. CASE BeginDiscard
  BY <1>1, <1>20, BeginDiscardEffect, UndecidedStutters
  DEF BeginDiscard, Keeps, Undecided, launch, disk
<1>21. CASE BeginRestore
  BY <1>1, <1>21, BeginRestoreEffect, UndecidedStutters
  DEF BeginRestore, Keeps, Undecided, launch, disk
<1>22. CASE BeginResume
  BY <1>1, <1>22, BeginResumeEffect, UndecidedStutters
  DEF BeginResume, Keeps, Undecided, launch, disk
<1>23. CASE ReopenLive
  BY <1>1, <1>23, ReopenLiveEffect, UndecidedStutters
  DEF ReopenLive, Keeps, Undecided, launch, disk
<1>24. CASE ConfirmLive
  BY <1>1, <1>24, ConfirmLiveEffect, UndecidedStutters
  DEF ConfirmLive, Keeps, Undecided, launch, disk
<1>25. CASE PauseForSystem
  BY <1>1, <1>25, PauseForSystemEffect, UndecidedStutters
  DEF PauseForSystem, Keeps, Undecided, launch, disk
<1>26. CASE ReserveForSystem
  BY <1>1, <1>26, ReserveForSystemEffect, UndecidedStutters
  DEF ReserveForSystem, Keeps, Undecided, launch, disk
<1>27. CASE SubmitStart
  BY <1>1, <1>27, SubmitStartEffect, UndecidedStutters
  DEF SubmitStart, Keeps, Undecided, launch, disk
<1> QED
  BY <1>2, <1>3, <1>4, <1>5, <1>6, <1>7, <1>8, <1>9, <1>10, <1>11, <1>12, <1>13, <1>14, <1>15, <1>16, <1>17, <1>18, <1>19, <1>20, <1>21, <1>22, <1>23, <1>24, <1>25, <1>26, <1>27

(* The steps that leave the journal as it is. *)
LEMMA UnmovedUnseen ==
  ASSUME IInv,
         \/ RequestRecovery \/ StepFails \/ Crash \/ HelperFails \/ OrphanExits
         \/ BeginRestoringSystem \/ DispatchSystemStart \/ HelperWrites \/ HelperCompletes
         \/ \E m \in Modes : ChangeStartup(m)
         \/ \E r \in Routes : Daemon(r) \/ ByHand(r) \/ DaemonFault(r)
  PROVE  UNCHANGED Seen
<1>1. CASE \/ RequestRecovery \/ StepFails \/ Crash \/ HelperFails \/ OrphanExits
           \/ BeginRestoringSystem \/ DispatchSystemStart
  BY <1>1, UnmovedStutters
  DEF RequestRecovery, StepFails, Crash, HelperFails, OrphanExits, BeginRestoringSystem,
      DispatchSystemStart, launch, disk
<1>2. CASE HelperWrites \/ HelperCompletes
  <2>1. Undecided
    BY <1>2 DEF IInv, HelperInv, HelperWrites, HelperCompletes, Undecided
  <2> QED
    BY <1>2, <2>1, UnmovedStutters DEF HelperWrites, HelperCompletes, launch
<1>3. CASE \E m \in Modes : ChangeStartup(m)
  <2>1. Undecided
    BY <1>3, WorkUndecided DEF IInv, TableInv, ChangeStartup
  <2> QED
    BY <1>3, <2>1, UnmovedStutters DEF ChangeStartup, launch
<1>4. CASE \E r \in Routes : Daemon(r) \/ ByHand(r) \/ DaemonFault(r)
  <2>1. UNCHANGED <<gate, session, switching>>
    BY <1>4
    DEF Daemon, ByHand, DaemonFault, DaemonStep, CheckGate, AcquirePidLock, RecheckGate,
        ExitCleanly, AutoRestart, Launch, StopByHand, DaemonFails
  <2> QED
    BY <2>1, UnmovedStutters DEF switching
<1> QED
  BY <1>1, <1>2, <1>3, <1>4

(* A journal is written: the next destination is looked at. *)
LEMMA RequestSeen ==
  ASSUME IInv, NEW source \in Modes, NEW running \in BOOLEAN, NEW carry \in BOOLEAN,
         RequestSwitch(source, running, carry)
  PROVE  Abstract!Request
<1>1. ~Undecided /\ Undecided'
  BY RequestSwitchEffect DEF RequestSwitch, Undecided
<1>2. journal'.previous = gate.selection /\ RestorationPolicy' = startup
  BY RequestSwitchEffect
<1> QED
  BY <1>1, <1>2 DEF Abstract!Request

(* The switch is complete: selection, enablement and settings change at once. *)
LEMMA FinalizeSeen ==
  ASSUME IInv, Finalize
  PROVE  (\E m \in Modes : Abstract!Switch(m)) \/ UNCHANGED Seen
<1>1. coord.run # "none" /\ Undecided /\ UNCHANGED <<gate, startup, files, boot, session>>
  BY WorkUndecided DEF IInv, TableInv, Finalize, launch
<1>2. CASE coord.run = "switch"
  <2>1. ~Undecided' /\ journal.phase = "VerifyingDestination" /\ Destination \in Modes
    BY <1>2, FinalizeEffect
    DEF Keeps, Undecided, IInv, TableInv, Finalize, Destination, Other, Modes
  <2>2. gate.selection = Destination /\ startup = Only(Destination)
    BY <1>2 DEF IInv, HostInv, Finalize
  <2>3. files \in {"own", "copied"}
    BY <1>1, <2>1 DEF IInv, SwitchTypeOK, FilesInv, Undecided
  <2>4. Abstract!Only(Destination) = Only(Destination)
    BY DEF Only, Modes, Abstract!Only, Abstract!Modes
  <2>5. Abstract!Switch(Destination)
    BY <1>1, <2>1, <2>2, <2>3, <2>4 DEF Abstract!Switch
  <2> QED
    BY <2>1, <2>5
<1>3. CASE coord.run # "switch"
  BY <1>1, <1>3, FinalizeEffect, UndecidedStutters DEF Keeps
<1> QED
  BY <1>2, <1>3

(* A journal is archived when the host is as the journal says. *)
LEMMA ArchiveSeen ==
  ASSUME IInv, Archive
  PROVE  UNCHANGED Seen
<1>1. /\ Pending /\ journal.phase \in Terminal /\ ~Undecided'
      /\ UNCHANGED <<gate, startup, files>>
  BY ArchiveEffect DEF Archive, Undecided, Pending, launch
<1>2. Undecided => AsRecorded /\ files = "own"
  BY <1>1 DEF IInv, HostInv, FilesInv, Undecided, Terminal
<1> QED
  BY <1>1, <1>2 DEF Seen, AsRecorded

(* Enablement expires, for the host and for what the journal restores. *)
LEMMA ExpirySeen ==
  ASSUME IInv, NEW ms \in SUBSET Modes, Expire(ms), UNCHANGED <<gate, files, journal>>,
         Pending => RestorationPolicy' = Expired(RestorationPolicy, ms)
  PROVE  Abstract!Expire(ms)
<1>1. Undecided' = Undecided
  BY DEF Undecided, Pending
<1>2. CASE Undecided
  BY <1>1, <1>2 DEF Undecided, Expired, Modes, Abstract!Expire, Abstract!Modes
<1>3. CASE ~Undecided
  BY <1>1, <1>3 DEF Expire, Modes, Abstract!Expire, Abstract!Modes
<1> QED
  BY <1>2, <1>3

(* Another session restores nothing that expired with the last. *)
LEMMA LoginSeen ==
  ASSUME IInv, Login
  PROVE  UNCHANGED Seen
<1>1. UNCHANGED <<gate, startup, files, journal>>
  BY DEF Login, switching
<1>2. Pending => RestorationPolicy' = RestorationPolicy
  BY LoginPolicy
<1> QED
  BY <1>1, <1>2 DEF Undecided, Pending, Seen

(* Every step is one of the abstract specification, or is not seen. *)
LEMMA StepSeen ==
  ASSUME IInv, SwitchNext
  PROVE  Abstract!Next \/ UNCHANGED Seen
<1>1. CASE Request
  <2>1. PICK source \in Limit.sources, running \in BOOLEAN, carry \in BOOLEAN :
          RequestSwitch(source, running, carry)
    BY <1>1 DEF Request
  <2>2. source \in Modes
    BY ScenarioType DEF IInv, SwitchTypeOK
  <2> QED
    BY <2>1, <2>2, RequestSeen DEF Abstract!Next
<1>2. CASE Finalize
  BY <1>2, FinalizeSeen DEF Abstract!Next, Abstract!Modes, Modes
<1>3. CASE Archive
  BY <1>3, ArchiveSeen
<1>4. CASE Logout
  <2>1. Abstract!Expire({User})
    BY <1>4, ExpirySeen, LogoutPolicy DEF Logout, Modes
  <2> QED
    BY <2>1 DEF Abstract!Next
<1>5. CASE Reboot
  <2>1. Abstract!Expire(Modes)
    BY <1>5, ExpirySeen, RebootPolicy DEF Reboot
  <2> QED
    BY <2>1 DEF Abstract!Next, Abstract!Modes, Modes
<1>6. CASE Login
  BY <1>6, LoginSeen
<1>7. CASE CoordinatorStep /\ ~Finalize /\ ~Archive
  BY <1>7, ForwardUnseen, UnmovedUnseen DEF CoordinatorStep
<1>8. CASE RequestRecovery \/ StepFails \/ HelperStep \/ \E r \in Routes : Daemon(r)
  BY <1>8, UnmovedUnseen DEF HelperStep
<1>9. CASE Environment /\ ~Logout /\ ~Login /\ ~Reboot
  BY <1>9, UnmovedUnseen DEF Environment
<1> QED
  BY <1>1, <1>2, <1>3, <1>4, <1>5, <1>6, <1>7, <1>8, <1>9 DEF SwitchNext

(* Any host is one before a switch. *)
LEMMA InitSeen ==
  ASSUME SwitchInit
  PROVE  Abstract!Init
<1>1. ~Undecided
  BY DEF SwitchInit, Undecided, Pending
<1>2. gate.selection \in Modes \cup {None} /\ startup \in Policies
  BY InitInv DEF IInv, SwitchTypeOK, LaunchTypeOK, Gates
<1> QED
  BY <1>1, <1>2
  DEF SwitchInit, Abstract!Init, Abstract!Modes, Abstract!Startups, Modes, Startups,
      Policies

(* A switch is atomic: whatever is done, fails or dies on the way, and        *)
(* whoever logs out or reboots, selection, enablement and settings change     *)
(* together or a recovery leaves them all as they were.                       *)
THEOREM Atomic == SwitchSpec => SwitchIsAtomic
<1>1. SwitchInit => Abstract!Init
  BY InitSeen
<1>2. IInv /\ [SwitchNext]_vars => [Abstract!Next]_(Abstract!vars)
  <2>1. ASSUME IInv, SwitchNext
        PROVE  [Abstract!Next]_(Abstract!vars)
    BY <2>1, StepSeen, SeenStutters
  <2>2. ASSUME UNCHANGED vars
        PROVE  [Abstract!Next]_(Abstract!vars)
    <3>1. UNCHANGED <<gate, startup, files, journal, boot, session>>
      BY <2>2 DEF vars, launch, switching
    <3> QED
      BY <3>1, UnmovedStutters, SeenStutters
  <2> QED
    BY <2>1, <2>2
<1> QED
  BY <1>1, <1>2, Invariance, PTL DEF SwitchSpec, SwitchIsAtomic, Abstract!Spec

=============================================================================
