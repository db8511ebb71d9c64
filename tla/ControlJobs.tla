----------------------------- MODULE ControlJobs -----------------------------
(***************************************************************************)
(* The workers of a service switch and what is reported of them            *)
(* (lianli-control/src: switch_job.rs, automatic_recovery.rs,              *)
(* recovery_trigger.rs, and of native_switch.rs and reservation.rs what    *)
(* decides which journal a worker acts on).                                *)
(*                                                                         *)
(* Two system units work on switches: the transient unit a client submits  *)
(* (a switch or an explicit recovery) and the recovery unit that boot,     *)
(* login and GUI launches trigger.  A worker owns the progress record by   *)
(* an exclusive flock; clients read the record without it and lock shared  *)
(* only to tell a worker at work from one that died.  The operation itself *)
(* runs under the service operation lock.  The journal is its identity: 0  *)
(* when no switch is pending.  operation_job.rs is the same protocol for   *)
(* the user's start and stop requests, on a directory of its own.          *)
(***************************************************************************)
EXTENDS Naturals, FiniteSets

CONSTANTS
  Recovery,  (* lianli-control-recovery.service                              *)
  Switch,    (* lianli-control-switch.service                                *)
  Clients,   (* GUIs and command lines that submit and observe               *)
  Triggers,  (* recovery requests: boot is the first start, then logins, GUIs *)
  None,
  Burst,     (* StartLimitBurst of the recovery unit, in one interval        *)
  Loads      (* how much happens in a behaviour: submissions of clients,     *)
             (* triggers, killed workers and failed writes                   *)

Workers == {Recovery, Switch}

ASSUME JobsAssumption ==
  /\ Recovery # Switch /\ None \notin Workers
  /\ Workers \cap Clients = {}
  /\ IsFiniteSet(Clients)
  /\ None \notin [by : Nat, active : BOOLEAN]   (* the record *)
  /\ Burst \in Nat
  /\ Loads \subseteq [jobs : Nat, triggers : Nat, faults : Nat]

VARIABLES
  journal,    (* the pending switch                                          *)
  record,     (* /run/lianli-switch/status.json                              *)
  exclusive,  (* who holds worker.lock exclusively                           *)
  operation,  (* who holds the service operation lock                        *)
  proc,       (* the process of each unit                                    *)
  unit,       (* the recovery unit: its start job and its invocations        *)
  trig,       (* the recovery requests                                       *)
  client,     (* the clients                                                 *)
  report,     (* what a client was last told                                 *)
  serial,     (* workers and switches so far                                 *)
  left,       (* what may still happen of the load                           *)
  saved,      (* history: workers whose result is in the record              *)
  begun,      (* history: switches begun since the recovery unit looked      *)
  dropped     (* history: triggers whose start systemd refused               *)

locks == <<exclusive, operation>>
asking == <<unit, trig, dropped>>
observing == <<client, report>>
work == <<journal, record, locks, proc>>
counts == <<serial, left>>
history == <<saved, begun>>
vars == <<work, asking, observing, counts, history>>

Steps == {"none", "look", "lock", "announce", "acquire", "operate", "publish",
          "leave"}
Jobs == {"switch", "recover", "automatic"}

(* by tells workers apart; job and expected are what the worker was given.   *)
Process == [at : Steps, by : Nat, job : Jobs, expected : Nat]
Gone == [at |-> "none", by |-> 0, job |-> "switch", expected |-> 0]

Record == [by : Nat, active : BOOLEAN]

Request == [at : {"inspect", "wait", "submit", "ok", "error"},
            seen : Nat]

(* The reads of start, or of an observer that only looks: own is the worker  *)
(* whose report start waits for, 0 before it submitted one.                  *)
ClientState == [at : {"idle", "read", "try", "shared", "submit"}, own : Nat,
                saw : Record \cup {None}]
Resting == [at |-> "idle", own |-> 0, saw |-> None]

Report == [kind : {"none", "active", "done", "interrupted"}, by : Nat]
Unread == [kind |-> "none", by |-> 0]

Goto(w, at) == proc' = [proc EXCEPT ![w].at = at]

Alive(by) == \E w \in Workers : proc[w].at # "none" /\ proc[w].by = by

(* The clients that hold worker.lock shared. *)
Sharing == {c \in Clients : client[c].at = "shared"}

Busy == proc[Recovery].at # "none"

Init ==
  /\ journal \in {0, 1}
  /\ record = None
  /\ exclusive = None /\ operation = None
  /\ proc = [w \in Workers |-> Gone]
  /\ unit = [queued |-> TRUE, invocations |-> 0]
  /\ trig = [t \in Triggers |-> [at |-> "inspect", seen |-> 0]]
  /\ client = [c \in Clients |-> Resting]
  /\ report = [c \in Clients |-> Unread]
  /\ serial = [workers |-> 0, switches |-> 1]
  /\ left \in Loads
  /\ saved = {} /\ begun = {} /\ dropped = {}

-----------------------------------------------------------------------------
(* The recovery unit and its triggers.                                       *)

(* systemd starts the unit: nothing runs, the journal exists, and the start  *)
(* limit is not reached.                                                     *)
StartUnit ==
  /\ unit.queued /\ ~Busy
  /\ journal # 0 /\ unit.invocations < Burst
  /\ unit' = [queued |-> FALSE, invocations |-> unit.invocations + 1]
  /\ serial' = [serial EXCEPT !.workers = @ + 1]
  /\ proc' = [proc EXCEPT ![Recovery] =
                [Gone EXCEPT !.at = "look", !.by = serial.workers + 1,
                             !.job = "automatic"]]
  /\ UNCHANGED <<journal, record, locks, trig, dropped, observing, left, history>>

(* ... or drops the job: ConditionPathExists, StartLimitBurst. *)
DropStart ==
  /\ unit.queued /\ ~Busy
  /\ journal = 0 \/ unit.invocations = Burst
  /\ unit' = [unit EXCEPT !.queued = FALSE]
  /\ dropped' = dropped \cup {t \in Triggers : trig[t].at = "ok"}
  /\ UNCHANGED <<work, trig, observing, counts, history>>

(* A trigger begins: login, GUI launch. *)
Inspect(t) ==
  /\ trig[t].at = "inspect"
  /\ left.triggers > 0
  /\ left' = [left EXCEPT !.triggers = @ - 1]
  /\ trig' = [trig EXCEPT ![t] =
                [at |-> IF Busy THEN "wait" ELSE "submit",
                 seen |-> unit.invocations]]
  /\ UNCHANGED <<work, unit, dropped, observing, serial, history>>

(* A trigger content with any invocation that runs. *)
ObserveBusy(t) ==
  /\ trig[t].at = "wait"
  /\ unit.invocations > 0
  /\ trig' = [trig EXCEPT ![t].at = "ok"]
  /\ UNCHANGED <<work, unit, dropped, observing, counts, history>>

(* Every five seconds: another invocation, or none.  Systemd may have        *)
(* forgotten an invocation that is over.                                     *)
ObserveNewer(t) ==
  /\ trig[t].at = "wait"
  /\ unit.invocations # trig[t].seen
  /\ trig' = [trig EXCEPT ![t].at = "ok"]
  /\ UNCHANGED <<work, unit, dropped, observing, counts, history>>

ObserveIdle(t) ==
  /\ trig[t].at = "wait"
  /\ ~Busy
  /\ trig' = [trig EXCEPT ![t].at = "submit"]
  /\ UNCHANGED <<work, unit, dropped, observing, counts, history>>

(* WAIT_LIMIT, or an observation or the submission fails: an error. *)
GivesUp(t) ==
  /\ trig[t].at \in {"inspect", "wait", "submit"}
  /\ trig' = [trig EXCEPT ![t].at = "error"]
  /\ UNCHANGED <<work, unit, dropped, observing, counts, history>>

(* systemctl --no-block start: merged into a start job that runs already.    *)
SubmitStart(t) ==
  /\ trig[t].at = "submit"
  /\ trig' = [trig EXCEPT ![t].at = "ok"]
  /\ unit' = [unit EXCEPT !.queued = @ \/ ~Busy]
  /\ UNCHANGED <<work, dropped, observing, counts, history>>

-----------------------------------------------------------------------------
(* A worker: run_at.                                                         *)

(* automatic_recovery::run: which switch is pending, under the operation     *)
(* lock, which is released again.                                            *)
Look ==
  /\ proc[Recovery].at = "look"
  /\ operation = None
  /\ proc' = [proc EXCEPT ![Recovery] =
                IF journal = 0 THEN Gone
                ELSE [@ EXCEPT !.at = "lock", !.expected = journal]]
  /\ begun' = {}
  /\ UNCHANGED <<journal, record, locks, asking, observing, serial, left, saved>>

LookFails ==
  /\ proc[Recovery].at = "look"
  /\ operation # None
  /\ proc' = [proc EXCEPT ![Recovery] = Gone]
  /\ UNCHANGED <<journal, record, locks, asking, observing, counts, history>>

(* flock(LOCK_EX | LOCK_NB): any other holder, a reader included, refuses.   *)
LockProgress(w) ==
  /\ proc[w].at = "lock"
  /\ IF exclusive = None /\ Sharing = {}
     THEN Goto(w, "announce") /\ exclusive' = w
     ELSE proc' = [proc EXCEPT ![w] = Gone] /\ UNCHANGED exclusive
  /\ UNCHANGED <<journal, record, operation, asking, observing, counts, history>>

Announce(w) ==
  /\ proc[w].at = "announce"
  /\ record' = [by |-> proc[w].by, active |-> TRUE]
  /\ Goto(w, "acquire")
  /\ UNCHANGED <<journal, locks, asking, observing, counts, history>>

(* execute_for creates the journal, under the operation lock. *)
BeginSwitch ==
  /\ proc[Switch].at = "acquire" /\ proc[Switch].job = "switch"
  /\ operation = None
  /\ journal = 0
  /\ operation' = Switch
  /\ journal' = serial.switches + 1
  /\ serial' = [serial EXCEPT !.switches = @ + 1]
  /\ begun' = begun \cup {journal'}
  /\ Goto(Switch, "operate")
  /\ UNCHANGED <<record, exclusive, asking, observing, left, saved>>

(* A recovery of whatever is pending. *)
RecoverAnything(w) ==
  /\ proc[w].at = "acquire" /\ proc[w].job # "switch"
  /\ operation = None
  /\ journal # 0
  /\ operation' = w
  /\ Goto(w, "operate")
  /\ UNCHANGED <<journal, record, exclusive, asking, observing, counts, history>>

(* recover_matching: an automatic recovery insists on the switch it saw.     *)
BeginRecovery(w) ==
  /\ proc[w].at = "acquire" /\ proc[w].job # "switch"
  /\ operation = None
  /\ journal # 0
  /\ proc[w].job = "automatic" => journal = proc[w].expected
  /\ operation' = w
  /\ Goto(w, "operate")
  /\ UNCHANGED <<journal, record, exclusive, asking, observing, counts, history>>

(* The checks on the journal, or five seconds without the operation lock.    *)
Declines(w) ==
  /\ proc[w].at = "acquire"
  /\ \/ operation # None
     \/ proc[w].job = "switch" /\ journal # 0
     \/ proc[w].job # "switch" /\ journal = 0
     \/ proc[w].job = "automatic" /\ journal # proc[w].expected
  /\ Goto(w, "publish")
  /\ UNCHANGED <<journal, record, locks, asking, observing, counts, history>>

(* The switch or the recovery ends (ServiceSwitch describes how): its        *)
(* journal is archived, or stays to be recovered.                            *)
Operates(w) ==
  /\ proc[w].at = "operate"
  /\ operation' = None
  /\ journal' \in {0, journal}
  /\ Goto(w, "publish")
  /\ UNCHANGED <<record, exclusive, asking, observing, counts, history>>

Publish(w) ==
  /\ proc[w].at = "publish"
  /\ record' = [by |-> proc[w].by, active |-> FALSE]
  /\ saved' = saved \cup {proc[w].by}
  /\ Goto(w, "leave")
  /\ UNCHANGED <<journal, locks, asking, observing, serial, left, begun>>

(* The process is gone, with the locks it held. *)
Ends(w) ==
  /\ proc' = [proc EXCEPT ![w] = Gone]
  /\ exclusive' = IF exclusive = w THEN None ELSE exclusive
  /\ operation' = IF operation = w THEN None ELSE operation

Leave(w) ==
  /\ proc[w].at = "leave"
  /\ Ends(w)
  /\ UNCHANGED <<journal, record, asking, observing, counts, history>>

(* The worker is killed, or a write of the record fails. *)
Dies(w) ==
  /\ proc[w].at # "none"
  /\ left.faults > 0
  /\ left' = [left EXCEPT !.faults = @ - 1]
  /\ Ends(w)
  /\ UNCHANGED <<journal, record, asking, observing, serial, history>>

-----------------------------------------------------------------------------
(* A client: read_at, and start around it.                                   *)

Observe(c) ==
  /\ client[c].at = "idle"
  /\ client' = [client EXCEPT ![c].at = "read"]
  /\ report' = [report EXCEPT ![c] = Unread]
  /\ UNCHANGED <<work, asking, counts, history>>

(* read_at returns kind of the worker by; start goes on from there.          *)
Told(c, kind, by) ==
  /\ report' = [report EXCEPT ![c] = [kind |-> kind, by |-> by]]
  /\ client' = [client EXCEPT ![c] =
       CASE client[c].own = 0 /\ kind # "active" -> [Resting EXCEPT !.at = "submit"]
         [] client[c].own \notin {0, by} ->
              [client[c] EXCEPT !.at = "read", !.saw = None]
         [] OTHER -> Resting]

ReadRecord(c) ==
  /\ client[c].at = "read"
  /\ CASE record = None   -> Told(c, "none", 0)
       [] record # None /\ ~record.active -> Told(c, "done", record.by)
       [] OTHER -> /\ client' = [client EXCEPT ![c].at = "try", ![c].saw = record]
                   /\ UNCHANGED report
  /\ UNCHANGED <<work, asking, counts, history>>

(* flock(LOCK_SH | LOCK_NB): refused, a worker is there. *)
FindOwned(c) ==
  /\ client[c].at = "try"
  /\ exclusive # None
  /\ Told(c, "active", client[c].saw.by)
  /\ UNCHANGED <<work, asking, counts, history>>

LockShared(c) ==
  /\ client[c].at = "try"
  /\ exclusive = None
  /\ client' = [client EXCEPT ![c].at = "shared"]
  /\ UNCHANGED <<work, asking, report, counts, history>>

(* A reader that relies on what it read before the lock. *)
NoReread(c) ==
  /\ client[c].at = "shared"
  /\ Told(c, "interrupted", client[c].saw.by)
  /\ UNCHANGED <<work, asking, counts, history>>

(* Completion may have been published between the first read and the lock.   *)
Reread(c) ==
  /\ client[c].at = "shared"
  /\ Told(c, IF record.active THEN "interrupted" ELSE "done", record.by)
  /\ UNCHANGED <<work, asking, counts, history>>

(* pkexec and systemd-run: the transient unit must not exist. *)
Submit(c, job) ==
  /\ client[c].at = "submit"
  /\ left.jobs > 0
  /\ left' = [left EXCEPT !.jobs = @ - 1]
  /\ proc[Switch].at = "none"
  /\ serial' = [serial EXCEPT !.workers = @ + 1]
  /\ proc' = [proc EXCEPT ![Switch] =
                [Gone EXCEPT !.at = "lock", !.by = serial.workers + 1, !.job = job]]
  /\ client' = [client EXCEPT ![c].at = "read", ![c].own = serial.workers + 1]
  /\ UNCHANGED <<journal, record, locks, asking, report, history>>

(* A look only, not authorized, the unit exists, or thirty seconds without a *)
(* report of the own worker.                                                 *)
StartFails(c) ==
  /\ \/ client[c].at = "submit"
     \/ client[c].at = "read" /\ client[c].own # 0
  /\ client' = [client EXCEPT ![c] = Resting]
  /\ UNCHANGED <<work, asking, report, counts, history>>

-----------------------------------------------------------------------------

TriggerStep(t) ==
  Inspect(t) \/ ObserveNewer(t) \/ ObserveIdle(t) \/ GivesUp(t) \/ SubmitStart(t)

Systemd == StartUnit \/ DropStart

WorkerStep(w) ==
  \/ LockProgress(w) \/ Announce(w) \/ BeginRecovery(w)
  \/ Declines(w) \/ Operates(w) \/ Publish(w) \/ Leave(w)
  \/ Dies(w)

ClientStep(c) ==
  \/ Observe(c)
  \/ ReadRecord(c) \/ FindOwned(c) \/ LockShared(c) \/ Reread(c)
  \/ \E job \in {"switch", "recover"} : Submit(c, job)
  \/ StartFails(c)

Next ==
  \/ \E t \in Triggers : TriggerStep(t)
  \/ Systemd
  \/ Look \/ LookFails \/ BeginSwitch
  \/ \E w \in Workers : WorkerStep(w)
  \/ \E c \in Clients : ClientStep(c)

Spec == Init /\ [][Next]_vars

(* A trigger ends by its deadline, and systemd runs its jobs; nothing is     *)
(* assumed of workers, which may hang.                                       *)
Fairness ==
  /\ \A t \in Triggers : WF_vars(TriggerStep(t))
  /\ WF_vars(Systemd)

FairSpec == Spec /\ Fairness

-----------------------------------------------------------------------------

(* The type of every variable; each lock belongs to the worker that is where  *)
(* it holds it.                                                              *)
TypeOK ==
  /\ journal \in Nat
  /\ record \in Record \cup {None}
  /\ exclusive \in Workers \cup {None} /\ operation \in Workers \cup {None}
  /\ proc \in [Workers -> Process]
  /\ \A w \in Workers :
       /\ (exclusive = w) <=> (proc[w].at \notin {"none", "look", "lock"})
       /\ (operation = w) <=> (proc[w].at = "operate")
  /\ unit \in [queued : BOOLEAN, invocations : Nat]
  /\ trig \in [Triggers -> Request]
  /\ client \in [Clients -> ClientState]
  /\ report \in [Clients -> Report]
  /\ serial \in [workers : Nat, switches : Nat]
  /\ left \in [jobs : Nat, triggers : Nat, faults : Nat]
  /\ saved \in SUBSET Nat /\ begun \in SUBSET Nat
  /\ dropped \in SUBSET Triggers

(* read_at, "a missing worker is reported as interrupted"                    *)
(* (docs/service-modes.md): a client that hears of an interruption can rely  *)
(* on it.  That worker is gone and its result was never recorded; it does    *)
(* not finish later.                                                         *)
InterruptedIsLost ==
  \A c \in Clients : report[c].kind = "interrupted" =>
    report[c].by \notin saved /\ ~Alive(report[c].by)

(* automatic_recovery::run releases the operation lock between its look and  *)
(* its work: whatever clients do in between, it never touches a switch that  *)
(* was begun after it looked.                                                *)
RecoversOnlyWhatItSaw ==
  operation = Recovery => journal \notin begun

(* recovery_trigger::run: every request is followed by an attempt that began *)
(* after it, unless it reports an error or systemd refuses the start, even   *)
(* if the attempt under way never ends.                                      *)
TriggerServed ==
  \A t \in Triggers : trig[t].at = "wait" \/ trig[t].at = "submit" ~>
    \/ unit.invocations > trig[t].seen
    \/ trig[t].at = "error"
    \/ t \in dropped

=============================================================================
