# Verification of lianli-linux

TLA+ models of the control daemon for Lian Li hardware, checked with TLC on
small instances, and proofs of the central properties checked with TLAPS.
Every definition is translated from the Rust source; paths below are relative
to the repository root, `control` stands for `crates/lianli-control/src`,
`daemon` for `crates/lianli-daemon/src`, `devices` for
`crates/lianli-devices/src`.

## The system

A single daemon owns the Lian Li USB devices, either as the user's service
(`lianli-daemon.service`) or as a system service under an unprivileged account
(`lianli-daemon-system.service`). Both daemons may be installed; a flock on one
PID file decides which drives the hardware, and a host-wide *selection* with a
startup *gate* decides which may try. `lianli-control` is the privileged
helper that switches between the two: it stops one daemon, optionally copies
the settings to the other account, moves the enablement and the selection, and
starts the other daemon, with a durable journal so that a crash, a logout or a
reboot half-way can be rolled back.

### Inventory

| Component | State | Operations | Hard behaviour | What makes it correct |
| --- | --- | --- | --- | --- |
| State transaction (`control/state_transaction.rs`, `media_publication.rs`) | state files, `.lianli-state-transaction.json`, backup directories, transaction flock | prepare, publish, restore, resume a restoration, recover | several processes, kill at every step, foreign edits, media before settings | settings change as a whole; nothing that is not retained is overwritten; a pending journal gets settled |
| Launch gate and start-up (`control/service_selection.rs`, `daemon/main.rs`, `daemon/pidlock.rs`) | `/etc/lianli/service-selection.json`, PID-file flock, unit states | launch, check gate, lock, recheck gate, serve, exit, auto-restart | check and lock are not one step; three launch routes | only the selected mode drives the hardware |
| Switch coordinator (`control/native_switch.rs`, `switch_journal.rs`, `system_recovery.rs`, `service_startup.rs`, `service_operation.rs`) | `/var/lib/lianli-control/switch.json`, service operation lock, unit enablement | switch, recover, offline restoration of a system source | crash in any phase, logout, reboot, daemons starting and failing meanwhile, uncertain `systemctl` calls | a switch is atomic; a pending one is resolved; never two modes |
| Publication helper (`control/account_publication.rs`) | inherited locks, the pending transaction of the destination | Ready, Proceed, Done over a channel | outlives its coordinator | writes only while authorized, recorded and alone |
| Write gate (`control/write_gate.rs`, `reservation.rs`, `daemon/ipc/event_sender.rs`, `backups.rs`) | 64 slots, the pinned lock file, shared flock, permits in threads, events and jobs | guard, hand on, drop | the lock file may be replaced at any time; replies before the work is done; shutdown with work queued | no write is under way while an operation acts on the daemon; a restoration is alone; slots are returned |
| Control jobs (`control/recovery_trigger.rs`, `automatic_recovery.rs`, `operation_job.rs`, `switch_job.rs`, `transfer_cleanup.rs`, `state_transfer.rs`) | transient units, progress record under a flock, staged transfers | trigger, submit, observe, recover, clean up | triggers race with a running attempt; the record outlives its worker; the pending switch changes between look and work | no request is lost; an interruption that is reported is one; an automatic recovery acts on the switch it saw |
| Daemon event loop (`daemon/service/`) | event queue, poll gates, suspend and shutdown state, open workers | hot-plug, rescans, suspend, resume, shutdown, worker results | results that arrive after the device or the configuration changed | stale results are dropped; the inhibitor is held until quiesced |
| Wireless convergence (`devices/wireless/convergence.rs`, `transport.rs`, `opcodes.rs`) | command queue, sequence bytes, the TX dongle's handle and backoff, reservations | enqueue, send, acknowledge, retry, merge back, upload a picture | the queue is drained outside its lock; the dongle is lost in mid-frame; byte sequence numbers wrap | the latest command for a slot wins; frames are bounded; bindings and uploads are not disturbed; commands settle |
| Wireless recovery and binding (`devices/wireless/recovery.rs`, `bind.rs`, `daemon/service/wireless_recovery.rs`, `wireless_rebind.rs`) | recovery worker, ladder of resets, clones of the controller, binding block | lose the link, connect, reset one dongle through the other, hand out clones, bind, unbind, rebind | clones of a lost connection live on beside the worker; restarts during a recovery | one connection at a time has the dongles; nobody is left with a lost one; resets are paced; the link comes back |
| Fan and AIO control (`daemon/controllers/fan.rs`, `aio.rs`, `cooling.rs`) | curves, last sent values, failsafe | tick, heartbeat, drift, failsafe | stale sensors, resends | a failed sensor raises the speed; targets are not lost |
| LCD, media, streams (`daemon/service/runtime.rs`, `source_preparation.rs`, `source_retirement.rs`, `media.rs`, `renderers.rs`, `lcd_group_recovery.rs`) | targets, prepared and retired sources, renderer and sender threads, recovery budget | attach, select, prepare, stream, fail, recreate | late results of a preparation or a sender; a renderer that restarts its encoder while it is replaced; interrupted packets | a device shows what was selected, from one stream; recreations are bounded; requests are served |
| Desktop display (`daemon/desktop_display/`, `crates/lianli-display`) | virtual outputs, capture workers | connect, capture, reconnect | compositor restarts | one worker per output |
| IPC and catalogs (`daemon/ipc/`) | connections, snapshots, cleanup jobs | requests, guarded stop, removal | requests during a stop or a cleanup | a removal never removes what is referenced |
| Persistence and backups (`daemon/persistence.rs`, `state_backups.rs`) | debounced saves, retained backups | save, restore, prune | a save racing a restore | the last write wins whole |
| RGB, OpenRGB, USB protocols, media decoding, session discovery, GUIs | mostly device I/O and computation | | | not planned before the above |

Components interact through files under flocks (control helpers and daemons),
through systemd (enablement, start, stop, restart policy), through a local IPC
socket (GUI and control helpers to the daemon) and, inside the daemon, through
one event queue to which device workers report.

## Modules

| Module | Models |
| --- | --- |
| `AtomicState` | the promise of a state transaction: settings are replaced as a whole |
| `StateTransaction` | the journalled transaction, and that it implements `AtomicState` |
| `StateTransactionProofs` | its invariant, the safety theorems and the refinement, proved |
| `LaunchGate` | daemons on their way to the hardware |
| `AtomicSwitch` | the promise of a service switch |
| `ServiceSwitch` | extends `LaunchGate` with the coordinator, the helper, the user's sessions and the host, and implements `AtomicSwitch` |
| `ServiceSwitchProofs` | the invariant of both, their safety theorems and the refinement, proved |
| `WriteGate` | permits of settings writes against service operations on one lock file |
| `WriteGateProofs` | its invariant and the safety theorems, proved |
| `ControlJobs` | the workers of a switch, the record of their progress, and the requests for recovery |
| `ControlJobsProofs` | its invariant and what a client may rely on, proved |
| `CommandConvergence` | the wireless command queue, its convergence thread, the dongle they share, bindings and picture uploads |
| `CommandConvergenceProofs` | its invariant, the order of commands, what they keep away from and what they cost, proved |
| `WirelessRecovery` | the wireless link, its loss, the recovery worker and the clones of the controller |
| `WirelessRecoveryProofs` | its invariants, who has the dongles and the link, and the distance of resets, proved |
| `LcdTarget` | one streaming LCD: its target, sources, sender and recreation |
| `LcdTargetProofs` | its invariant, what it plays and how often it is recreated, proved |
| `MC...` | instances of these for TLC |

### State transaction

`live`, `journal` and `backup` are what is on disk, `imported` the media
directories renamed into place, `lock` the flock, and `pc`, `job`, `todo` the
progress of each process. One action is one durable effect: `Prepare` (backup
directory with both sides), `WriteJournal`, `BeginPublish` or `RefusePublish`
(the checks of `publish_checked`), `PublishMedia`, one `ApplyFile` per file,
`Commit`, `RemoveJournal`; `Recover` applies the old side with the same
`ApplyFile`. `Interrupt` is an error return or a kill at any step. `Edit` is
another program; it is kept out of the middle of a call because the callers
hold the hardware reservation with no daemon running, but not out of the gap
between prepare and publish or of the time a dead process's journal is pending.
A file's bytes, mode and group are one value of `Contents`. A file replacement
is atomic (temporary file, fsync, rename, fsync of the directory).

The refinement to `AtomicState` maps the state to what a daemon start would
find after recovery (`Effective`): files that an uncommitted journal covers and
that hold the new side count as the old side.

### Launch gate and service switch

`LaunchGate` has one process per route: the two units and, in one run, a daemon
started from a terminal. The gate is read, the PID file locked, the gate read
again (`CheckGate`, `AcquirePidLock`, `RecheckGate`). The units restart on
failure only, and systemd reports a unit running from its spawn on.

`ServiceSwitch` runs the coordinator as a program: `coord.run` says whether it
executes `execute_for`, `rollback` or `system_recovery::resume`, `coord.at` the
next step; the other fields are its local variables. Each step is one action,
named after what it does, with the phase the code records first. The checks the
code makes are guards; `Refused` says when a step returns an error instead,
`StepFails` what runs next (a failed switch is rolled back, a failed rollback
of a system source goes on offline, anything else leaves the journal pending).
A waiting step refuses when nothing moves any more (`Settled`), which stands
for its 90-second deadline; any step may also fail for no modelled reason, at
the cost of a fault. The publication helper is a process of its own: it inherits
both locks, so `Crash` keeps `hardware` reserved while it lives. The settings of
the destination are `own`, `copied` or `mixed`, its pending transaction `txn`.
`session` is the identity of the user's runtime directory, `boot` the boot id.

### Control jobs

Two units do the work: the recovery unit, which boot, logins and GUI launches
trigger (`TriggerStep`, `Systemd`), and the transient unit a client submits.
`ServiceSwitch` describes the operation itself; here the journal is a number,
the identity of the pending switch, and `Operates` archives it or leaves it.
A worker goes through `run_at`: it looks (`automatic_recovery::run`, under the
operation lock, which it then releases), takes the lock of the progress record,
announces itself, takes the operation lock, operates, publishes and leaves; it
may die at any of these. A client reads the record without the lock, tries the
lock shared only if the record says that a worker is active, and reads it again
before it calls the worker interrupted. `start` waits for a report of its own
worker.

### Write gate

A mutating request goes through `ServiceWriteGate::guard` one system call at a
time: `Reserve` (the atomic update of the counter), `OpenLockFile` and
`PinIdentity` (`identity`), `OpenShared`, `LockShared` and `VerifyShared`
(`open_locked`); `Refuse` is each of its error returns. `req[r].refs` are the
owners of the permit: the connection's thread, a worker (`backups::run`,
`catalog_cleanup::remove`), an event in the main loop's channel, the job of a
startup image. `DropRef` is the drop of one of them; the last one unlocks and
returns the slots in one action (no property looks between the two). A worker
sends its event and drops its own reference in one action, `FinishWorker`.

The main loop takes an event with its permit (`ApplyEvent`). An `IpcUpdate` is put
off while a startup image is uploaded (`startup_config_pending`) or until pixel
cleaning has stopped (`cleaner_reload_pending`); its permit is dropped all the
same. `reload[d]` holds these: "upload" is the first, "later" the second and the
plain `IpcUpdate` that either of them becomes, which `FinishJob` sends for the first
and `ApplyReload` takes out of the channel. `MigrateLater` is a migration of the
settings that an upload puts off the same way. `BeginShutdown` drops the receiver; its undelivered events and the job are
dropped one by one, and `Exit` ends the rest, also at any other time.

A service operation locks the path's file exclusively (`IdentifyLock`,
`LockExclusive`), inspects the host (`BeginInspect`, `ReportLock`), asks the
daemon which file it settled on (`AskDaemonInfo`, `VerifyWriteGate`) and verifies
its own lock once more before it acts (`Dispatch`). `ReplaceLockFile` may happen
between any two of these. Files are numbered by age; both sides keep theirs
open, so the kernel does not reuse the inode of a file that matters. A second
daemon process starts when the first is gone, as after a restart; the processes are
numbered in that order.

### Command convergence

`queue` is `pending_commands`; `batch` and `hand` are the local variables of
`drain_pending`: what the pass has taken out, and the command it works on.
`order` is the thread that holds `command_order` while it sends its own first
frame; every other critical section under that lock is one action. `Issue`
calls `enqueue_rf_command`, which ends in `Admit`, `Refuse` (its checks) or, for
a cooling command, `Busy` (the 50 ms run out). The convergence thread picks a
command of its batch (`PickAcknowledged`, `PickNotDue`, `PickDue`), sends it and
puts it back (`Requeue`) unless it is superseded or the queue is full.

`tx` is the dongle's mutex and the operation under it. `LockDongle` begins an
operation of a caller, the convergence thread, a binding operation or an upload;
its stage is `ready`, `air` (a frame is being written) or `reopen`. An operation
of the convergence thread looks for an upload, a binding and a newer command
first (`SendPending`, `DeferPending`, `DropObsolete`); between that look and the
end of the frame others go on. `DongleFails` is an error that calls for a new
handle: a replayable operation runs once more on it, a frame of an upload or of
a command without retries does not. `BackOff`, `ReopenFails` and `Reopen` are
the outcomes of `TransportState::replace`.

`binder` follows `bind_device` and `unbind_device`: `BeginBinding` reserves the
device and purges its commands, then come the checks, bind frames, observations,
`ConfirmBinding` and the saved configuration. `uploader` follows `send_aio_pic`.
A new target is a new number, which stands for `queued_at`. A command is told
apart by its device and slot only; which slots exist besides cooling is
`Opcodes`. The queue is a set: its order decides which command is sent first,
and no property is about that. Whether an acknowledgement has arrived and
whether a retry is due are choices.

### Wireless recovery

`session` is the connection the controller of the main loop has, `open` the
connections with an open dongle, `clone` the connection of each controller that
was handed one. Earlier connections are told apart from the current one only.
`supervise_wireless` is `LoseLink` and `Release` (mark the loss, stop the
controller, which waits for the operation under way), then `Supervise` (scan,
and start a worker when the ladder is due). The worker connects, polls and, if
the ladder allows, resets one dongle through the other; `AttemptSucceeds` and
`AttemptFails` are `finish_wireless_attempt` with `record` of the ladder.
`Rebuild` is every restart of the controllers by a resume, a configuration or a
changed device count. A clone's operation (`BeginOperation`) sends, fails or
finds its connection stopped; only the TX dongle can be reopened
(`with_transport_recovery`). Instants are ages, cut off where the code no longer
tells them apart.

### LCD target

`target` is the `ActiveTarget`; `held` says that the main loop has taken it out
of the map, the streaming worker's look is then on the rest. The worker passes
over the targets in two steps under their lock (`Collect`: retired sources,
prepared sources; `Serve`: failures, removal, next frame). The device poll takes
a target, puts it back, detaches it or attaches a new one; `Save` is a
configuration with other media, `RetryMedia` the user's retry, `AssetReady` the
end of a media preparation. `wire` is the sender thread: a queue of two, the
message it works on, the last failure of the stream or the frames, and
`latched`, a device left in the middle of a packet, which only a recreation
clears. `Renders` and `Prepares` are the renderers' and the preparation's own
threads. `kept` is the budget of recreations that outlives the target. Identity
tokens (`Arc::ptr_eq`) are flags of their holders, or numbers of which an unused
one is taken.

### Bounds

Bounds are constants. `ServiceSwitch` takes `Scenarios`, named limits of a
behaviour: the hosts it starts from, the modes it switches from, who starts
daemons by hand, how many commands by hand, faults (failed steps, crashes, daemon
failures), sessions, boots and switches. `ControlJobs`, `WirelessRecovery` and
`LcdTarget` take `Loads`, sets of such limits from which a behaviour takes one:
what would be too many events at once is split into loads that combine those
that interact. `StateTransaction` has `MaxEdits`, `MaxFaults` and `Initial`, the
settings a run may begin with; `WriteGate` has `MaxPending` (64 in the code) and
`MaxReplacements`; `CommandConvergence` has `MaxQueue` (256 in the code),
`Retries` (10), `MaxCommands`, `MaxBindings`, `MaxUploads` and `MaxFrames` (bind
attempts, chunks); `ControlJobs` has `Burst`, the start limit of the unit.
Times are counted in steps of one check: `WirelessRecovery` with
`Backoff` <<1, 2, 2>>, `Slow` and `Healthy` 3, `LcdTarget` with `Delays`
<<1, 1>>, `Healthy` 2 and `Retries` 2, each in the order of the code's values.

## Runs

| Run | Question | Result |
| --- | --- | --- |
| `transaction` | two processes, two files, two backups, one edit, two failures, no settings at first: types, media order, lost content, atomicity; does a pending journal get settled? | holds |
| `switch_safety` | one switch in either direction with two faults, a command by hand, a logout and login, a reboot; and two switches in a row with a daemon started from a terminal as a third route: one mode serves, settings are rewritten while stopped, a destination is held back while its switch is unsettled, no gate stays paused without a journal, changed settings have a backup, a start is submitted once, a switch is atomic | holds |
| `switch_liveness` | is a pending switch always resolved (idle user source, two faults, logout, reboot)? does a system source drive the hardware again without the user's session? is a source that ran restarted within its boot and session, where enablement and selection agree? | holds |
| `control_jobs` | a client that switches and recovers, two triggers, the start limit, a killed worker: is a worker that is reported interrupted really lost, does an automatic recovery leave later switches alone, is every request for recovery answered? | holds |
| `write_gate` | two requests of two daemon processes, two operations, two slots, a replacement of the lock file: balanced slots, a lone restoration, no write, upload or reload behind an upload under an operation, one operation per daemon; is every permit given back? | holds |
| `command_convergence` | two callers, two commands of one device, a queue of one, one retry, a binding and an upload, the dongle lost at any time: one command per slot (in the type invariant), newest wins, bindings and uploads undisturbed, frames bounded; does every command settle? | holds |
| `wireless_recovery` | a dongle that is unplugged, hangs or comes back, two lapses, restarts of the controllers, a shutdown: who has the dongles, is a controller left behind, are resets paced, does the link come back? | holds |
| `lcd_target` | saves, brightness, retries, broken transfers, restarting encoders, an unplugged LCD, in nine loads: what is shown and streamed, how often it is recreated, is every request served and every interruption handled? | holds |
| `crossed_hosts` | is a source that ran restarted when the other mode is the enabled one | violated |
| `deferred_stop` | is the deferred stop of a restored system source brief? | violated |
| `superseded_command` | is an older command never sent after a newer one was accepted? | violated |
| `fan_link` | does the fan controller have the link while it is up? | violated |

The bounds are the smallest at which every action and every refusal happens:
two files and two backups make a partly written state and a resumed
restoration possible; a third file or backup adds no new relation between
them. Two faults allow a crash during the recovery from a crash; two sessions
and two boots make both identities differ from the recorded ones; one command
starts or stops a daemon in the middle of any phase. Two slots let two saves
fill the gate and a restoration find it empty, half full or full; a replacement
gives the daemon, or the operation, and the path different files, and the
proofs cover any number of either. One retry is enough
for a first frame and a re-sent one, each of them repeated on a new handle, and
a queue of one is full as soon as a command is admitted during a pass; commands
of two devices only meet in the limit of the queue and in the dongle, as those of
two slots do. With a third command all safety properties were checked as well
(6.9 million states). Two starts make the start limit of the recovery unit
bind in the middle of a series of triggers, and two workers are what the record
can confuse. Three rungs are the ladder's own; three steps of time are enough
for a reset that follows too early, and two lapses for a budget that a good link
refills. Two recreations are the shortest budget that can be partly spent, kept
over an unplugged LCD and refilled; the two assets are the two ways a source
reaches the device (drawn by a renderer, or a file the sender plays). `CHECK_DEADLOCK FALSE`
is set in all of them because a system with no switch pending and its budget
of environment events spent really is at rest.

### What the violations show

* `crossed_hosts`: `initial_state` accepts a switch from a running source that
  is neither enabled nor selected, while the other mode is enabled
  (`control/native_switch.rs:56`). After a rollback has restored that
  enablement, `preflight` (`control/service_operation.rs:173`) refuses to start
  the source at every attempt. `docs/service-modes.md:90` promises the recorded
  running state within the original boot and session.
* `deferred_stop`: the mark of the one offline start is cleared only in
  `recovered_system_stopped` (`control/switch_journal.rs:616`). A logout
  between the stop of the restored daemon and that step leaves the mark, and
  `submit_system_start` (`:148`) then refuses for the rest of the boot.
  `docs/service-modes.md:108` describes a brief stop.
* `superseded_command`: `begin_binding` (`devices/wireless/bind.rs:51`) takes the
  commands of the device out of the queue before the operation's own checks. A
  fan speed accepted while the convergence thread works on the older one is
  lost when the operation then fails, and the older speed, no longer superseded,
  is sent and retried. `convergence_tests.rs:43` has the newer target supersede
  a retry in flight. `NewestWins`, which holds, excepts exactly the commands
  that a binding operation purged.
* `fan_link`: `start_fan_control` (`daemon/service/init.rs:89`) gives the fan
  controller the link only if it is up at that moment. When a lapse is over
  before the main loop looks, nobody starts the controller again, and the master
  clock, which "must be sent every second" (`daemon/controllers/fan.rs:236`),
  is not sent. The comment at `daemon/service/mod.rs:466` names the consequence
  for the case of late devices, which is handled.

Known limits of recovery that the runs do not count as violations: a foreign or
hand-started daemon that owns the hardware keeps recovery pending by design;
`RestoringSystem` entered before the gate was paused with no previous selection
fails in `verify_resume` while the system daemon runs; and an offline
restoration refuses while a user destination daemon serves
(`control/system_recovery.rs:222`); a switch interrupted in `StoppingSource`
while its user source serves is rolled back through `StoppingDestination`,
which does not stop the source, and `reserve` (`control/native_switch.rs:230`)
wants both units idle, so it recovers once the user stops the source.

Others that a reader of the properties should know:

* Offline restoration: the start of a system source is recorded before it is
  dispatched and not repeated in that boot. `SystemSourceReturns` asks that its
  daemon drives the hardware, not that a start was recorded. What it allows
  otherwise is a switch that succeeded, a new boot that is not to start the source,
  and a start that came to nothing (`StartSpent`: whoever recorded it is gone before
  dispatching it, or the daemon it started is gone) because of a failure or a
  command by hand after the moment from which the return is asked.
* Wireless recovery: the comment at `devices/wireless/recovery.rs:125` says that
  "the reset budget refills only after the link has stayed up", and that "a
  flapping link must not refill its own budget". `settled` (`:188`) asks only when
  the link was last brought up, not whether it still is. A link that is lost after
  290 s and whose attempt, with a reset, ends past 300 s refills the budget: the
  next resets may follow after 10 s and 30 s, where the resets before ask for
  300 s. So do five minutes without both dongles after a link of any
  length. `ResetsPaced` states what the code does keep: every reset has the distance
  the resets before it ask for, and they are counted anew only when an attempt
  ends `Healthy` after a link was brought up (`Remember`), then with that attempt's
  own reset, or after `Slow` without a reset. A failed attempt forgets when the
  link was up, so each refill takes a connection of its own.
* Write gate: `docs/service-modes.md:240` says that the permit "covers persistence
  and queued application in the daemon's main loop". It does not cover a reload
  that was put off. One that waits for an upload (`daemon/service/mod.rs:918`) drops
  its permit and is safe as long as the upload's own permit lasts, which is what
  `NoWriteWhileActing` says of it; after the upload it is sent again without a
  permit (`daemon/service/startup_image.rs:555`), as is one that waited for pixel
  cleaning to stop (`daemon/service/init.rs:1073`, `mod.rs:428`). An operation may act
  on a daemon between that and its application; the settings are on disk by then
  and the next daemon loads them.
* Control jobs: a start that systemd refuses (the start limit, or no journal any
  more) is not reported to a trigger, since it starts without waiting;
  `TriggerServed` names those. A reader that holds the lock shared for a moment
  makes a worker that starts just then give up.
* LCD: the failure of an earlier stream can fail the file that replaced it,
  because a file does not cancel the stream before the sender takes it
  (`daemon/service/runtime.rs:571`); the budget of a target that
  `refresh_targets` detaches before its recreation is not kept; a file selected
  while an earlier retirement is pending can stay uninstalled in stage Failed
  when the old media fails meanwhile. All three leave a failure the user sees
  and can retry, which is what `RequestsServed` and `InterruptedIsHandled` ask.

### Fairness

A coordinator, a helper and a daemon that can take a step eventually take it
(they are processes; their waits have deadlines). A step that is refused
eventually returns its error. `RequestRecovery` is weakly fair: the
repository requests recovery at boot, at graphical login and at GUI start
(`docs/service-modes.md:44`), so this assumes that one of these keeps happening
while a journal is pending. Logins, logouts, reboots, manual commands, faults
and the request of a switch are never forced. For the transaction, a call that
has begun goes on or returns, and recovery is attempted again while a journal is
pending (every daemon start calls it).

For the write gate: a thread of a live process runs, the main loop takes its
next event, and the work of a worker or a job ends. The last is an assumption
about file system and device I/O, not about the code: `ipc/backups.rs:83` says
that a stalled operation keeps its permit, and then `PermitsReturned` fails until
the process ends. Nothing is assumed of operations, shutdowns or replacements;
a request is never made to wait for an operation, since the shared lock is
tried once.

For the command queue: the convergence thread runs every 100 ms and time makes a
command due (`Due(i)` is strongly fair, since a command not yet due goes back
and is picked again); USB operations time out, so the holder of the dongle gets
on; the dongle's mutex is parking_lot's, which is eventually fair, so the
convergence thread gets it (strong fairness); the backoff and an upload end by
their deadlines. No acknowledgement, no successful reopening and no step of a
caller or a binding is assumed, so `EverySettles` covers a dongle that never
comes back. It starts from a command whose first frame is out: a deferred
first frame is kept without a limit while the dongle is gone, by design.

For control jobs: a trigger has a deadline of its own and systemd runs its jobs.
Nothing is assumed of workers, which may hang, nor of clients.

For wireless recovery: time passes, the calls of the worker have deadlines, USB
operations time out, and the main loop handles its events although clones keep
the dongles busy (strong fairness: its mutex is parking_lot's). Dongles need not
come back; `LinkComesBack` speaks of times when both are in order.

For the LCD: the main loop gets the lock of the targets although the streaming
worker takes it again and again (strong fairness, parking_lot's again); the
worker, the preparation, renderers, the disposal and the sender run, and time
passes. The sender is fair for transfers that succeed (a device operation times
out). The end of a file, faults, saves and retries are never forced: a file may
play in a loop.

## Proofs

`StateTransactionProofs` proves for any files, contents, number of processes,
number of backups and any bounds:

* `TypeCorrect`, `MediaFirst`, `EditsPreserved`, the safety properties
  of the run `transaction`, and
* `Refinement`: `Spec` implements `AtomicState`.

All follow from the inductive invariant `IInv` (`Invariance`). The properties
are not inductive alone: that a commit happens with every file new needs to know
that the journal still names the committing process's backup, that nobody else
is past the lock, that the files no longer in `todo` hold the side being
written, and that a retained backup never changes. `IInv` says this of each
process and step. The refinement then goes action by action: `Prepare` retains
the current and the requested state, `Commit` replaces the state, `Edit` edits
one file of it (or, while a journal is pending, the effective file), and every
other step leaves the effective state as it was.

`WriteGateProofs` proves for any daemons, any finite set of requests, any
operations and any limit that the counter keeps its bounds (`GateTypeCorrect`),
that it always equals what is reserved (`SlotsNeverLeak`), that a restoration is
alone (`BulkRunsAlone`), that no write of a daemon is being persisted, queued or covered by
an upload while an operation acts on it, nor a reload put off by an upload
(`WritesKeptOut`) and that two operations never act on one daemon
(`OneActsAtATime`). The invariant behind them (`GateInvariance`) adds what none
of the properties says: a pinned, reported or answered file is never newer than
the one at the path, and a reported one never older than the one the operation
holds. So when the last check finds the held file still at the path, the file
the daemon named, which lies between the two, is that file, whatever was
replaced in between; the flock does the rest. `QueueInv` says that an entry of
the channel owns a reference of its request, without which an event could be
applied after its slots were returned, and that a reload waits for an upload only
while there is one, whose permit the flock then answers for.

`ControlJobsProofs` proves for any clients, triggers, start limit and loads that
a client that is told of an interrupted worker can rely on it
(`InterruptionsAreReal`) and that an automatic recovery never works on a switch
that was begun after it looked (`RecoveryKeepsToItsSwitch`). The invariant
(`JobsInvariance`) numbers workers and switches and adds what the second read of
the record rests on: an active record is that of a worker past the lock or of
one that died unpublished (`RecordInv`), and a client that holds the lock shared
keeps all workers before it (`ClientInv`). For the recovery it says that the
switch the unit saw is none of those begun since, although the operation lock
was free in between (`WorkerInv`).

`WirelessRecoveryProofs` proves for any ladder, any periods and any loads that
the dongles pass from one connection to the next (`DonglesAreHandedOver`) and
that no controller is left with a lost one (`NobodyStaysBehind`). The invariant
(`LinkInvariance`) says what the worker has to itself in each of its stages
(`WorkerInv`), that while the link is down and its controller is stopped no clone
and no operation of it is left (`MainInv`), and that while it is up there is a
connection and every clone is one of it (`LinkInv`). The first two rest on each
other: a worker starts only from a cleared link, and clones handed out while it
works are of a connection whose stop flag stays set.

The pacing of resets (`ResetsKeepTheirDistance`, and the types with it,
`LinkTypeCorrect`) has an invariant of its own (`PaceInvariance`), which relates the
ladder to a history it does not have: a worker that may reset does so only when
the spacing of the history has passed (`AttemptInv`); a reset that the ladder has
yet to count is the only one of its worker, and otherwise the ladder remembers at
least as many resets, and no older last one (`CountInv`). Both know equally well
when the link was brought up (`ClockInv`), so they start counting anew together.
That an attempt may reset at once when a link counts as healthy is why that period
must not be shorter than the slow retry.

`CommandConvergenceProofs` proves for any devices, opcodes, threads, any limit of
the queue, any retries and any loads that the queue keeps its limit and one
command for a slot (`QueueTypeCorrect`), that a frame is started only for the
newest command of its slot or one whose successor a binding operation has purged
(`NewestCommandWins`), and that no control frame disturbs a binding or an upload
(`FramesKeepAway`). None is inductive alone. The invariant (`QueueInvariance`)
follows the newest command: if it is not the one at hand it is back in the
queue, where `superseded_command` looks, or purged (`NewestInv`). That needs the
order of the commands: those the thread has taken out are older than those that
came in since, one for a slot (`OrderInv`), so one that goes back finds its slot
free or gives way. `AirInv` says what keeps frames away: a caller that sends
holds `command_order`, without which nobody reserves its device, and the
convergence thread looked at the reservations under the mutex of the dongle,
which the first frame of a later operation still needs.

What a command costs needs an account of its own (`CostInvariance`): the frames
it has cost, those its caller may still send, and two for every attempt that the
convergence thread has left stay within the limit, and the attempt under way may
exceed it by what it has on the air. From that follows `FramesLimited`. It rests
on commands keeping their numbers (`NumberInv`), and the one extra frame per
upload in the bound is needed exactly where an upload begins while the dongle is
reopened: that attempt has sent a frame and is then deferred at no cost.

`ServiceSwitchProofs` proves for any hosts, any routes between two managers and
any numbers of commands, faults, sessions and boots the safety properties of the
run `switch_safety`: only the selected manager's daemon drives the hardware
(`SelectedServes`), settings are rewritten only while no daemon does
(`RewriteExcludesDaemons`), the destination waits for a pending transaction
and no gate stays paused without a journal whose recovery opens it
(`DestinationWaits`), changed settings have their backup (`ChangesHaveBackup`), an
offline start is submitted once (`StartSubmittedOnce`), and `Atomic`: `SwitchSpec`
implements `AtomicSwitch`. The invariant (`Invariance`) has a part for each thing
that several processes share: the PID file (`LockInv`), which step of the
coordinator goes with which recorded phase (`TableInv`), when the hardware is the
coordinator's (`HoldInv`), the helper and its backup (`HelperInv`), the settings
phase by phase (`FilesInv`), the launch gate (`GateInv`), the submitted start
(`SubmitInv`), and selection and enablement (`HostInv`). They need each other: a
daemon that serves is of the selected manager because the selection changes only
in steps at which the PID file is the coordinator's, and those steps are known
from the phase; the settings are the destination's own wherever a rollback is
declared complete because a helper that dies leaves its transaction behind, and
each phase says whether there can be one. Each part is stated of the journal, and
of the coordinator only where it runs, since a crash forgets the step and keeps
the phase. The refinement goes action by action: the steps that decide are those
of `AtomicSwitch`, every other one stutters; that they find selection, enablement
and settings together is what `FilesInv` and `HostInv` say.

`LcdTargetProofs` proves for any delays, retries and loads that a target plays
the media it was last given (`SelectionPlays`), that what the device takes is one
stream, the current source's (`OneSourceStreams`), and that an LCD whose transfers
keep being interrupted is recreated a limited number of times
(`RecreationsLimited`). The invariant (`Invariance`) adds that a preparation still
wanted is one for a source to draw (`PrepInv`), that no retired source owns a
stream it could restart (`TargetOK`, `StreamInv`), and the account of recreations
(`BudgetInv`): those made, the one that is due and the attempts left stay within
what was allowed, over all targets and while the budget is kept between two.
Proving it settled what the property may say: a failure while a recreation is
due does not renew `last_failure`, so the healthy period counts from the failure
that made the recreation due.

Assumptions: the bounds are naturals, `Absent` is not a content and `None` is
none of the values it is used beside; for the write gate, that its limit is not
zero and the requests are finitely many; for the control jobs, that the two
units differ; for the command queue, that its limit and the retries are not
zero, the callers finitely many and the threads distinct, and that cooling
commands have a slot of their own; for the recovery, that the ladder has three
rungs, none longer than the slow retry and the second not shorter than the
first, and that a link is healthy no sooner than the slow retry
(`devices/wireless/recovery.rs:12-18`: 10, 30 and 120 s, and 300 s for both). The theorems about
the LCD have `EndlessTokens` as a hypothesis: there is always an allocation not
in use, as the code's tokens are `Arc`s compared by identity, whose addresses no
other allocation gets while a `Weak` refers to them. Only an infinite `Tokens`
satisfies it; in the run, with finitely many, the loads see to it that one is
always unused.

What is only model-checked is what the prover cannot express, the temporal
properties: `PendingSettles`, `SwitchResolves`, `SystemSourceReturns`,
`RecordedStateRetained`, `PermitsReturned`, `TriggerServed`, `EverySettles`,
`LinkComesBack`, `RequestsServed` and `InterruptedIsHandled`. Every invariant and
every action property of a passing run is a theorem.

## Not modelled

Within the modelled components: changing the selection by hand
(`select-mode`, `systemctl enable`), container (Distrobox) accounts, checks of
unit recipes, paths and file identities, the preparation of copied settings
beyond "prepared or refused", the phase `RecoveryRequired` (no code enters it),
and a daemon re-executing itself (the exec closes its lock, so it starts like a
new launch).

* Write gate: requests that pass it unguarded (read-only ones and
  `StopService`), the second look of a container at the host's file, the start
  of a stopped service.
* Control jobs: `operation_job.rs`, which is the same protocol on a directory of
  its own; the transfer of settings between accounts and the removal of unused
  transfer files; what the record says of the phase; reboots (the record is
  in `/run`, so all starts anew).
* Command convergence: where acknowledgements come from (discovery, their
  freshness, sequence numbers), the master clock, the failure counter, shutdown,
  receiver slots and channel retargeting.
* Wireless recovery: a panic of the worker, the retry of the RX dongle's
  initialization, the three TX resets of the discovery thread, the presence of
  RGB devices, a slow re-enumeration after a reset, the rebinding of lost
  devices.
* LCD: the HID and SLV3 backends with their health check, initialization, the
  recovery thread, verified static frames, detached sender threads, an LCD that
  is replugged before its target is gone, several LCDs and their groups,
  decoding and rendering.
* Event loop: suspend, the startup of other devices and the queue itself.

Fan and AIO control, the desktop display, the IPC server with its catalogs,
persistence, RGB, the USB protocols, media helpers and the GUIs are not
modelled. Most of their code is device I/O, computation or presentation; the
plan names the ones with a protocol of their own.

## Plan

1. Done: transaction, launch gate, switch, write gate, command convergence.
2. Done: control jobs, wireless recovery, the life of an LCD target.
3. Next to model: fan control with failsafe, drift and heartbeat (resends
   against new targets); suspend and shutdown of the event loop; discovery with
   acknowledgements and sequence numbers, and channel retargeting against
   bindings (`devices/wireless/controller.rs:849` looks once and sends later);
   IPC catalogs and persistence.
4. Done: the invariants and action properties of all modules, and both
   refinements, are proved. Next to prove: abstract specifications of the write
   gate and of the command queue.
5. `ControlJobs` composed with `ServiceSwitch`, in place of the fairness of
   `RequestRecovery`.
