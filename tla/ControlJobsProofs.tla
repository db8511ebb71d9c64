-------------------------- MODULE ControlJobsProofs --------------------------
(***************************************************************************)
(* What a client may rely on when it reads the progress of a worker, and    *)
(* what an automatic recovery acts on, for any number of clients and        *)
(* triggers, any start limit and any loads.                                 *)
(***************************************************************************)
EXTENDS ControlJobs, TLAPS

(* Workers and switches are numbered in the order they begin. *)
NumberInv ==
  /\ saved \subseteq 0..serial.workers
  /\ begun \subseteq 1..serial.switches
  /\ journal <= serial.switches
  /\ \A w \in Workers : proc[w].by <= serial.workers
  /\ record # None => record.by <= serial.workers

(* A worker publishes once, no two workers at work are the same one, and the *)
(* switch that the recovery unit saw was there before those begun since.     *)
WorkerInv ==
  /\ \A w \in Workers : proc[w].at \notin {"none", "leave"} => proc[w].by \notin saved
  /\ proc[Recovery].at # "none" /\ proc[Switch].at # "none"
       => proc[Recovery].by # proc[Switch].by
  /\ proc[Recovery].at # "none" => proc[Recovery].job = "automatic"
  /\ proc[Recovery].expected <= serial.switches
  /\ proc[Recovery].expected \notin begun
  /\ operation = Recovery => journal = proc[Recovery].expected

(* An active record belongs to a worker that still holds the lock, or to one *)
(* that is gone without having published.                                    *)
RecordInv ==
  record # None => (record.active =>
    /\ record.by \notin saved
    /\ \A w \in Workers : proc[w].at # "none" /\ proc[w].by = record.by
         => proc[w].at \in {"acquire", "operate", "publish"})

(* A client that holds the lock shared keeps workers out, and has a record   *)
(* to read again.                                                            *)
ClientInv ==
  \A c \in Clients :
    /\ client[c].at \in {"try", "shared"} => record # None /\ client[c].saw # None
    /\ client[c].at = "shared" => exclusive = None

(* A report of an interruption is about a worker that has begun.             *)
ReportInv ==
  \A c \in Clients : report[c].kind = "interrupted" =>
    /\ report[c].by <= serial.workers
    /\ report[c].by \notin saved
    /\ \A w \in Workers : proc[w].at # "none" => proc[w].by # report[c].by

IInv == TypeOK /\ NumberInv /\ WorkerInv /\ RecordInv /\ ClientInv /\ ReportInv

-----------------------------------------------------------------------------
(* The empty values have the types of the others. *)
LEMMA EmptyTypes ==
  Gone \in Process /\ Resting \in ClientState /\ Unread \in Report
BY DEF Gone, Resting, Unread, Process, Steps, Jobs, ClientState, Report

(* A worker goes on to its next step. *)
LEMMA GotoType ==
  ASSUME proc \in [Workers -> Process], NEW w \in Workers, NEW at \in Steps, Goto(w, at)
  PROVE  proc' \in [Workers -> Process]
BY DEF Goto, Process

(* A worker that begins. *)
LEMMA BegunType ==
  ASSUME NEW n \in Nat, NEW at \in Steps, NEW job \in Jobs
  PROVE  [Gone EXCEPT !.at = at, !.by = n, !.job = job] \in Process
BY DEF Gone, Process, Steps, Jobs

(* A client that waits for its own worker. *)
LEMMA OwnType ==
  ASSUME NEW n \in Nat, NEW s \in ClientState
  PROVE  [s EXCEPT !.at = "read", !.own = n] \in ClientState
BY DEF ClientState

(* What a client is told ends its reading; no other client hears of it. *)
LEMMA ToldEffect ==
  ASSUME client \in [Clients -> ClientState], report \in [Clients -> Report],
         NEW c \in Clients, NEW by \in Nat,
         NEW kind \in {"none", "active", "done", "interrupted"}, Told(c, kind, by)
  PROVE  /\ client' \in [Clients -> ClientState]
         /\ report' \in [Clients -> Report]
         /\ client'[c].at \notin {"try", "shared"}
         /\ \A d \in Clients \ {c} : client'[d] = client[d] /\ report'[d] = report[d]
         /\ report'[c] = [kind |-> kind, by |-> by]
<1> DEFINE next == CASE client[c].own = 0 /\ kind # "active" -> [Resting EXCEPT !.at = "submit"]
                     [] client[c].own \notin {0, by} ->
                          [client[c] EXCEPT !.at = "read", !.saw = None]
                     [] OTHER -> Resting
<1>1. client[c] \in ClientState
  OBVIOUS
<1>2. [Resting EXCEPT !.at = "submit"] \in ClientState
  BY DEF Resting, ClientState
<1>3. [client[c] EXCEPT !.at = "read", !.saw = None] \in ClientState
  BY <1>1 DEF ClientState
<1>4. next \in {[Resting EXCEPT !.at = "submit"], [client[c] EXCEPT !.at = "read", !.saw = None], Resting}
  OBVIOUS
<1>5. next \in ClientState
  BY <1>2, <1>3, <1>4, EmptyTypes
<1>6. next.at \in {"submit", "read", "idle"}
  BY <1>1, <1>4 DEF Resting, ClientState
<1>7. client' = [client EXCEPT ![c] = next]
  BY DEF Told
<1>8. [kind |-> kind, by |-> by] \in Report
  BY DEF Report
<1> HIDE DEF next
<1> QED
  BY <1>5, <1>6, <1>7, <1>8 DEF Told

(* Triggers and start jobs concern no worker, no client and no record. *)
LEMMA AskingKeeps ==
  ASSUME IInv, TypeOK', UNCHANGED <<work, observing, serial, history>>
  PROVE  IInv'
BY DEF IInv, NumberInv, WorkerInv, RecordInv, ClientInv, ReportInv, work, locks,
       observing, history

(* A trigger observes, submits, or gives up. *)
LEMMA TriggerKeeps ==
  ASSUME IInv, NEW t \in Triggers, TriggerStep(t)
  PROVE  IInv'
<1>1. trig[t] \in Request /\ unit.invocations \in Nat
  BY DEF IInv, TypeOK
<1>2. CASE Inspect(t)
  <2>1. left' \in [jobs : Nat, triggers : Nat, faults : Nat]
    BY <1>2 DEF Inspect, IInv, TypeOK
  <2>2. trig' \in [Triggers -> Request]
    BY <1>1, <1>2 DEF Inspect, IInv, TypeOK, Request
  <2>3. TypeOK'
    BY <1>2, <2>1, <2>2 DEF Inspect, IInv, TypeOK, work, locks, observing, history
  <2> QED
    BY <1>2, <2>3, AskingKeeps DEF Inspect
<1>3. CASE ObserveNewer(t)
  <2>1. TypeOK'
    BY <1>1, <1>3
    DEF ObserveNewer, IInv, TypeOK, Request, work, locks, observing, counts, history
  <2> QED
    BY <1>3, <2>1, AskingKeeps DEF ObserveNewer, counts
<1>4. CASE ObserveIdle(t)
  <2>1. TypeOK'
    BY <1>1, <1>4
    DEF ObserveIdle, IInv, TypeOK, Request, work, locks, observing, counts, history
  <2> QED
    BY <1>4, <2>1, AskingKeeps DEF ObserveIdle, counts
<1>5. CASE GivesUp(t)
  <2>1. TypeOK'
    BY <1>1, <1>5
    DEF GivesUp, IInv, TypeOK, Request, work, locks, observing, counts, history
  <2> QED
    BY <1>5, <2>1, AskingKeeps DEF GivesUp, counts
<1>6. CASE SubmitStart(t)
  <2>1. unit' \in [queued : BOOLEAN, invocations : Nat]
    BY <1>6 DEF SubmitStart, IInv, TypeOK, Busy
  <2>2. trig' \in [Triggers -> Request]
    BY <1>1, <1>6 DEF SubmitStart, IInv, TypeOK, Request
  <2>3. TypeOK'
    BY <1>6, <2>1, <2>2
    DEF SubmitStart, IInv, TypeOK, work, locks, observing, counts, history
  <2> QED
    BY <1>6, <2>3, AskingKeeps DEF SubmitStart, counts
<1> QED
  BY <1>2, <1>3, <1>4, <1>5, <1>6 DEF TriggerStep

(* A start job that systemd drops. *)
LEMMA DropStartStep ==
  ASSUME IInv, DropStart
  PROVE  IInv'
<1>1. TypeOK'
  BY DEF DropStart, IInv, TypeOK, work, locks, observing, counts, history
<1> QED
  BY <1>1, AskingKeeps DEF DropStart, counts

(* The recovery unit's worker is a new one. *)
LEMMA StartUnitStep ==
  ASSUME IInv, StartUnit
  PROVE  IInv'
<1>1. TypeOK'
  <2>1. serial.workers + 1 \in Nat
    BY DEF IInv, TypeOK
  <2>2. [Gone EXCEPT !.at = "look", !.by = serial.workers + 1, !.job = "automatic"] \in Process
    BY <2>1, BegunType DEF Steps, Jobs
  <2>3. proc' \in [Workers -> Process]
    BY <2>2 DEF IInv, TypeOK, StartUnit
  <2>4. \A v \in Workers :
         /\ (exclusive' = v) <=> (proc'[v].at \notin {"none", "look", "lock"})
         /\ (operation' = v) <=> (proc'[v].at = "operate")
    BY DEF IInv, TypeOK, StartUnit, Busy, locks
  <2>5. unit' \in [queued : BOOLEAN, invocations : Nat]
    BY DEF IInv, TypeOK, StartUnit
  <2>6. serial' \in [workers : Nat, switches : Nat]
    BY DEF IInv, TypeOK, StartUnit
  <2> QED
    BY <2>1, <2>2, <2>3, <2>4, <2>5, <2>6 DEF IInv, TypeOK, StartUnit, locks, observing,
      history
<1>2. NumberInv'
  BY DEF IInv, TypeOK, NumberInv, StartUnit, Process, Record, history
<1>3. WorkerInv'
  BY JobsAssumption DEF IInv, TypeOK, NumberInv, WorkerInv, StartUnit, Busy, Workers,
    Gone, locks, history
<1>4. RecordInv'
  BY DEF IInv, TypeOK, NumberInv, RecordInv, StartUnit, history
<1>5. ClientInv'
  BY DEF IInv, ClientInv, StartUnit, locks, observing
<1>6. ReportInv'
  BY DEF IInv, TypeOK, ReportInv, StartUnit, Report, observing, history
<1> QED
  BY <1>1, <1>2, <1>3, <1>4, <1>5, <1>6 DEF IInv

(* The worker of the recovery unit is gone. *)
LEMMA LookFailsStep ==
  ASSUME IInv, LookFails
  PROVE  IInv'
<1>1. TypeOK'
  <2>1. proc' \in [Workers -> Process]
    BY DEF IInv, TypeOK, LookFails, Process, Steps, Jobs, Gone
  <2>2. \A v \in Workers :
         /\ (exclusive' = v) <=> (proc'[v].at \notin {"none", "look", "lock"})
         /\ (operation' = v) <=> (proc'[v].at = "operate")
    BY DEF IInv, TypeOK, LookFails, Gone, locks
  <2> QED
    BY <2>1, <2>2 DEF IInv, TypeOK, LookFails, asking, observing, counts, history
<1>2. NumberInv'
  BY DEF IInv, TypeOK, NumberInv, LookFails, Gone, counts, history
<1>3. WorkerInv'
  BY DEF IInv, TypeOK, NumberInv, WorkerInv, LookFails, Gone, locks, counts, history
<1>4. RecordInv'
  BY DEF IInv, RecordInv, LookFails, Gone, history
<1>5. ClientInv'
  BY DEF IInv, ClientInv, LookFails, locks, observing
<1>6. ReportInv'
  BY DEF IInv, ReportInv, LookFails, Gone, observing, counts, history
<1> QED
  BY <1>1, <1>2, <1>3, <1>4, <1>5, <1>6 DEF IInv

(* What it saw is pending now; nothing has been begun since. *)
LEMMA LookStep ==
  ASSUME IInv, Look
  PROVE  IInv'
<1>1. TypeOK'
  <2>1. proc' \in [Workers -> Process]
    BY EmptyTypes DEF IInv, TypeOK, Look, Workers, Process, Steps
  <2>2. \A v \in Workers :
         /\ (exclusive' = v) <=> (proc'[v].at \notin {"none", "look", "lock"})
         /\ (operation' = v) <=> (proc'[v].at = "operate")
    BY DEF IInv, TypeOK, Look, Gone, locks
  <2> QED
    BY <2>1, <2>2 DEF IInv, TypeOK, Look, locks, asking, observing
<1>2. NumberInv'
  BY DEF IInv, TypeOK, NumberInv, Look, Gone
<1>3. WorkerInv'
  BY DEF IInv, NumberInv, WorkerInv, Look, Gone, locks
<1>4. RecordInv'
  BY DEF IInv, RecordInv, Look, Gone
<1>5. ClientInv'
  BY DEF IInv, ClientInv, Look, locks, observing
<1>6. ReportInv'
  BY DEF IInv, ReportInv, Look, Gone, observing
<1> QED
  BY <1>1, <1>2, <1>3, <1>4, <1>5, <1>6 DEF IInv

(* A worker gets past the lock only when nobody holds it. *)
LEMMA LockProgressStep ==
  ASSUME IInv, NEW w \in Workers, LockProgress(w)
  PROVE  IInv'
<1>1. TypeOK'
  <2>1. proc' = [proc EXCEPT ![w] = Gone] => proc' \in [Workers -> Process]
    BY EmptyTypes DEF IInv, TypeOK
  <2>2. proc' \in [Workers -> Process]
    BY <2>1, GotoType DEF IInv, TypeOK, LockProgress, Steps
  <2>3. \A v \in Workers :
         /\ (exclusive' = v) <=> (proc'[v].at \notin {"none", "look", "lock"})
         /\ (operation' = v) <=> (proc'[v].at = "operate")
    BY JobsAssumption DEF IInv, TypeOK, LockProgress, Process, Gone, Goto
  <2> QED
    BY <2>1, <2>2, <2>3 DEF IInv, TypeOK, LockProgress, asking, observing, counts,
      history
<1>2. NumberInv'
  BY JobsAssumption DEF IInv, TypeOK, NumberInv, ReportInv, LockProgress, Process, Gone,
    Goto, counts, history
<1>3. WorkerInv'
  BY DEF IInv, TypeOK, NumberInv, WorkerInv, LockProgress, Workers, Process, Gone, Goto,
    counts, history
<1>4. RecordInv'
  BY DEF IInv, TypeOK, RecordInv, LockProgress, Process, Gone, Goto, history
<1>5. ClientInv'
  BY DEF IInv, ClientInv, LockProgress, Sharing, observing
<1>6. ReportInv'
  BY DEF IInv, TypeOK, ReportInv, LockProgress, Process, Gone, Goto, observing, counts,
    history
<1> QED
  BY <1>1, <1>2, <1>3, <1>4, <1>5, <1>6 DEF IInv

(* The record is the worker's own, which has not published. *)
LEMMA AnnounceStep ==
  ASSUME IInv, NEW w \in Workers, Announce(w)
  PROVE  IInv'
<1>1. TypeOK'
  BY DEF IInv, TypeOK, Announce, Process, Steps, Record, Goto, locks, asking, observing,
    counts, history
<1>2. NumberInv'
  BY DEF IInv, NumberInv, Announce, Goto, counts, history
<1>3. WorkerInv'
  BY DEF IInv, WorkerInv, Announce, Goto, locks, counts, history
<1>4. RecordInv'
  BY DEF IInv, TypeOK, WorkerInv, RecordInv, Announce, Workers, Goto, history
<1>5. ClientInv'
  <2>1. record' \in Record
    BY DEF IInv, TypeOK, Announce, Process, Record
  <2>2. record' # None
    BY <2>1, JobsAssumption DEF Record
  <2> QED
    BY <2>1, <2>2 DEF IInv, ClientInv, Announce, locks, observing
<1>6. ReportInv'
  BY DEF IInv, ReportInv, Announce, Goto, observing, counts, history
<1> QED
  BY <1>1, <1>2, <1>3, <1>4, <1>5, <1>6 DEF IInv

(* An automatic recovery works on the switch it saw. *)
LEMMA BeginRecoveryStep ==
  ASSUME IInv, NEW w \in Workers, BeginRecovery(w)
  PROVE  IInv'
<1>1. TypeOK'
  <2>1. proc' \in [Workers -> Process]
    BY GotoType DEF IInv, TypeOK, BeginRecovery, Steps
  <2>2. \A v \in Workers :
         /\ (exclusive' = v) <=> (proc'[v].at \notin {"none", "look", "lock"})
         /\ (operation' = v) <=> (proc'[v].at = "operate")
    BY DEF IInv, TypeOK, BeginRecovery, Goto
  <2> QED
    BY <2>1, <2>2 DEF IInv, TypeOK, BeginRecovery, asking, observing, counts, history
<1>2. NumberInv'
  BY DEF IInv, NumberInv, BeginRecovery, Goto, counts, history
<1>3. WorkerInv'
  BY DEF IInv, WorkerInv, BeginRecovery, Goto, counts, history
<1>4. RecordInv'
  BY DEF IInv, RecordInv, BeginRecovery, Goto, history
<1>5. ClientInv'
  BY DEF IInv, ClientInv, BeginRecovery, observing
<1>6. ReportInv'
  BY DEF IInv, ReportInv, BeginRecovery, Goto, observing, counts, history
<1> QED
  BY <1>1, <1>2, <1>3, <1>4, <1>5, <1>6 DEF IInv

(* A worker that will not operate still publishes. *)
LEMMA DeclinesStep ==
  ASSUME IInv, NEW w \in Workers, Declines(w)
  PROVE  IInv'
<1>1. TypeOK'
  BY DEF IInv, TypeOK, Declines, Process, Steps, Record, ClientState, Report, Goto,
    locks, asking, observing, counts, history
<1>2. NumberInv'
  BY DEF IInv, NumberInv, Declines, Goto, counts, history
<1>3. WorkerInv'
  BY DEF IInv, WorkerInv, Declines, Goto, locks, counts, history
<1>4. RecordInv'
  BY DEF IInv, RecordInv, Declines, Goto, history
<1>5. ClientInv'
  BY DEF IInv, ClientInv, Declines, locks, observing
<1>6. ReportInv'
  BY DEF IInv, ReportInv, Declines, Goto, observing, counts, history
<1> QED
  BY <1>1, <1>2, <1>3, <1>4, <1>5, <1>6 DEF IInv

(* Only the holder of the operation lock changes the journal. *)
LEMMA OperatesStep ==
  ASSUME IInv, NEW w \in Workers, Operates(w)
  PROVE  IInv'
<1>1. TypeOK'
  <2>1. proc' \in [Workers -> Process]
    BY GotoType DEF IInv, TypeOK, Operates, Steps
  <2>2. \A v \in Workers :
         /\ (exclusive' = v) <=> (proc'[v].at \notin {"none", "look", "lock"})
         /\ (operation' = v) <=> (proc'[v].at = "operate")
    BY JobsAssumption DEF IInv, TypeOK, Operates, Goto
  <2> QED
    BY <2>1, <2>2 DEF IInv, TypeOK, Operates, asking, observing, counts, history
<1>2. NumberInv'
  BY DEF IInv, TypeOK, NumberInv, Operates, Goto, counts, history
<1>3. WorkerInv'
  BY JobsAssumption DEF IInv, WorkerInv, Operates, Workers, Goto, counts, history
<1>4. RecordInv'
  BY DEF IInv, RecordInv, Operates, Goto, history
<1>5. ClientInv'
  BY DEF IInv, ClientInv, Operates, observing
<1>6. ReportInv'
  BY DEF IInv, ReportInv, Operates, Goto, observing, counts, history
<1> QED
  BY <1>1, <1>2, <1>3, <1>4, <1>5, <1>6 DEF IInv

(* The result of a worker, which nobody was told is lost. *)
LEMMA PublishStep ==
  ASSUME IInv, NEW w \in Workers, Publish(w)
  PROVE  IInv'
<1>1. TypeOK'
  <2>1. proc' \in [Workers -> Process]
    BY GotoType DEF IInv, TypeOK, Publish, Steps
  <2>2. \A v \in Workers :
         /\ (exclusive' = v) <=> (proc'[v].at \notin {"none", "look", "lock"})
         /\ (operation' = v) <=> (proc'[v].at = "operate")
    BY DEF IInv, TypeOK, Publish, Goto, locks
  <2> QED
    BY <2>1, <2>2 DEF IInv, TypeOK, Publish, Process, Record, Goto, locks, asking,
      observing
<1>2. NumberInv'
  BY DEF IInv, TypeOK, NumberInv, Publish, Process, Goto
<1>3. WorkerInv'
  BY DEF IInv, TypeOK, WorkerInv, Publish, Workers, Goto, locks
<1>4. RecordInv'
  BY DEF RecordInv, Publish
<1>5. ClientInv'
  <2>1. record' \in Record
    BY DEF IInv, TypeOK, Publish, Process, Record
  <2>2. record' # None
    BY <2>1, JobsAssumption DEF Record
  <2> QED
    BY <2>1, <2>2 DEF IInv, ClientInv, Publish, locks, observing
<1>6. ReportInv'
  BY DEF IInv, ReportInv, Publish, Goto, observing
<1> QED
  BY <1>1, <1>2, <1>3, <1>4, <1>5, <1>6 DEF IInv

(* A worker leaves after it has published. *)
LEMMA LeaveStep ==
  ASSUME IInv, NEW w \in Workers, Leave(w)
  PROVE  IInv'
<1>1. TypeOK'
  BY DEF IInv, TypeOK, Leave, Ends, Process, Steps, Jobs, Gone, asking, observing,
    counts, history
<1>2. NumberInv'
  BY DEF IInv, TypeOK, NumberInv, Leave, Ends, Gone, counts, history
<1>3. WorkerInv'
  BY DEF IInv, TypeOK, NumberInv, WorkerInv, Leave, Ends, Gone, counts, history
<1>4. RecordInv'
  BY DEF IInv, RecordInv, Leave, Ends, Gone, history
<1>5. ClientInv'
  BY DEF IInv, ClientInv, Leave, Ends, observing
<1>6. ReportInv'
  BY DEF IInv, ReportInv, Leave, Ends, Gone, observing, counts, history
<1> QED
  BY <1>1, <1>2, <1>3, <1>4, <1>5, <1>6 DEF IInv

(* A worker that dies leaves its record as it is. *)
LEMMA DiesStep ==
  ASSUME IInv, NEW w \in Workers, Dies(w)
  PROVE  IInv'
<1>1. TypeOK'
  BY JobsAssumption DEF IInv, TypeOK, Dies, Ends, Process, Steps, Jobs, Gone, asking,
    observing, history
<1>2. NumberInv'
  BY DEF IInv, TypeOK, NumberInv, Dies, Ends, Gone, history
<1>3. WorkerInv'
  BY JobsAssumption DEF IInv, TypeOK, NumberInv, WorkerInv, Dies, Ends, Workers, Gone,
    history
<1>4. RecordInv'
  BY DEF IInv, RecordInv, Dies, Ends, Gone, history
<1>5. ClientInv'
  BY DEF IInv, ClientInv, Dies, Ends, observing
<1>6. ReportInv'
  BY DEF IInv, ReportInv, Dies, Ends, Gone, observing, history
<1> QED
  BY <1>1, <1>2, <1>3, <1>4, <1>5, <1>6 DEF IInv

(* A new switch is none that a recovery saw. *)
LEMMA BeginSwitchStep ==
  ASSUME IInv, BeginSwitch
  PROVE  IInv'
<1>1. TypeOK'
  BY DEF IInv, TypeOK, BeginSwitch, Workers, Process, Steps, Goto, asking, observing
<1>2. NumberInv'
  BY DEF IInv, TypeOK, NumberInv, BeginSwitch, Goto
<1>3. WorkerInv'
  BY DEF IInv, TypeOK, WorkerInv, BeginSwitch, Workers, Process, Goto
<1>4. RecordInv'
  BY DEF IInv, RecordInv, BeginSwitch, Goto
<1>5. ClientInv'
  BY DEF IInv, ClientInv, BeginSwitch, observing
<1>6. ReportInv'
  BY DEF IInv, ReportInv, BeginSwitch, Goto, observing
<1> QED
  BY <1>1, <1>2, <1>3, <1>4, <1>5, <1>6 DEF IInv

(* A client forgets what it was told. *)
LEMMA ObserveStep ==
  ASSUME IInv, NEW c \in Clients, Observe(c)
  PROVE  IInv'
<1>1. TypeOK'
  BY JobsAssumption DEF IInv, TypeOK, WorkerInv, ClientInv, Observe, Process,
    ClientState, Report, Unread, locks, asking, work, counts, history
<1>2. NumberInv'
  BY DEF IInv, NumberInv, Observe, work, counts, history
<1>3. WorkerInv'
  BY DEF IInv, WorkerInv, Observe, locks, work, counts, history
<1>4. RecordInv'
  BY DEF IInv, RecordInv, Observe, work, history
<1>5. ClientInv'
  BY DEF IInv, ClientInv, Observe, locks, work
<1>6. ReportInv'
  BY DEF IInv, ReportInv, Observe, Unread, work, counts, history
<1> QED
  BY <1>1, <1>2, <1>3, <1>4, <1>5, <1>6 DEF IInv

(* A client holds the lock shared only while no worker holds it. *)
LEMMA LockSharedStep ==
  ASSUME IInv, NEW c \in Clients, LockShared(c)
  PROVE  IInv'
<1>1. TypeOK'
  BY DEF IInv, TypeOK, LockShared, ClientState, locks, asking, work, counts, history
<1>2. NumberInv'
  BY DEF IInv, NumberInv, LockShared, work, counts, history
<1>3. WorkerInv'
  BY DEF IInv, WorkerInv, LockShared, locks, work, counts, history
<1>4. RecordInv'
  BY DEF IInv, RecordInv, LockShared, work, history
<1>5. ClientInv'
  BY DEF IInv, ClientInv, LockShared, locks, work
<1>6. ReportInv'
  BY DEF IInv, ReportInv, LockShared, work, counts, history
<1> QED
  BY <1>1, <1>2, <1>3, <1>4, <1>5, <1>6 DEF IInv

(* A client gives up. *)
LEMMA StartFailsStep ==
  ASSUME IInv, NEW c \in Clients, StartFails(c)
  PROVE  IInv'
<1>1. TypeOK'
  BY DEF IInv, TypeOK, StartFails, ClientState, Resting, locks, asking, work, counts,
    history
<1>2. NumberInv'
  BY DEF IInv, NumberInv, StartFails, work, counts, history
<1>3. WorkerInv'
  BY DEF IInv, WorkerInv, StartFails, locks, work, counts, history
<1>4. RecordInv'
  BY DEF IInv, RecordInv, StartFails, work, history
<1>5. ClientInv'
  BY DEF IInv, ClientInv, StartFails, Resting, locks, work
<1>6. ReportInv'
  BY DEF IInv, ReportInv, StartFails, work, counts, history
<1> QED
  BY <1>1, <1>2, <1>3, <1>4, <1>5, <1>6 DEF IInv

(* What the reader of a record may be told of it, by the state it found. *)
LEMMA ToldStep ==
  ASSUME IInv, NEW c \in Clients, NEW by \in Nat,
         NEW kind \in {"none", "active", "done", "interrupted"}, Told(c, kind, by),
         UNCHANGED <<work, asking, counts, history>>,
         kind = "interrupted" =>
           /\ by <= serial.workers /\ by \notin saved
           /\ \A w \in Workers : proc[w].at # "none" => proc[w].by # by
  PROVE  IInv'
<1>1. /\ client' \in [Clients -> ClientState]
      /\ report' \in [Clients -> Report]
      /\ client'[c].at \notin {"try", "shared"}
      /\ \A d \in Clients \ {c} : client'[d] = client[d] /\ report'[d] = report[d]
      /\ report'[c] = [kind |-> kind, by |-> by]
  <2>1. client \in [Clients -> ClientState] /\ report \in [Clients -> Report]
    BY DEF IInv, TypeOK
  <2> QED
    BY <2>1, ToldEffect
<1>2. TypeOK'
  BY <1>1 DEF IInv, TypeOK, work, locks, asking, counts, history
<1>3. NumberInv' /\ WorkerInv' /\ RecordInv'
  BY DEF IInv, NumberInv, WorkerInv, RecordInv, work, locks, counts, history
<1>4. ClientInv'
  BY <1>1 DEF IInv, ClientInv, work, locks
<1>5. ReportInv'
  BY <1>1 DEF IInv, ReportInv, work, counts, history
<1> QED
  BY <1>2, <1>3, <1>4, <1>5 DEF IInv

(* read_at without the lock: no record, a finished worker, or a lock to try. *)
LEMMA ReadRecordStep ==
  ASSUME IInv, NEW c \in Clients, ReadRecord(c)
  PROVE  IInv'
<1>1. CASE record = None
  BY <1>1, ToldStep DEF ReadRecord
<1>2. CASE record # None /\ ~record.active
  <2>1. record.by \in Nat
    BY <1>2 DEF IInv, TypeOK, Record
  <2> QED
    BY <1>2, <2>1, ToldStep DEF ReadRecord
<1>3. CASE record # None /\ record.active
  <2>1. /\ client' = [client EXCEPT ![c].at = "try", ![c].saw = record]
        /\ UNCHANGED <<report, work, asking, counts, history>>
    BY <1>3 DEF ReadRecord
  <2>2. client[c] \in ClientState /\ record \in Record
    BY <1>3 DEF IInv, TypeOK
  <2>3. [client[c] EXCEPT !.at = "try", !.saw = record] \in ClientState
    BY <2>2 DEF ClientState
  <2>4. client' = [client EXCEPT ![c] = [client[c] EXCEPT !.at = "try", !.saw = record]]
    BY <2>1 DEF IInv, TypeOK
  <2>5. TypeOK'
    BY <2>1, <2>3, <2>4 DEF IInv, TypeOK, work, locks, asking, counts, history
  <2>6. ClientInv'
    BY <1>3, <2>1, <2>2 DEF IInv, TypeOK, ClientInv, ClientState, work, locks
  <2> QED
    BY <2>1, <2>5, <2>6 DEF IInv, NumberInv, WorkerInv, RecordInv, ReportInv, work,
                            locks, counts, history
<1> QED
  BY <1>1, <1>2, <1>3

(* A worker holds the lock: it is active. *)
LEMMA FindOwnedStep ==
  ASSUME IInv, NEW c \in Clients, FindOwned(c)
  PROVE  IInv'
<1>1. client[c] \in ClientState /\ client[c].saw # None
  BY DEF IInv, TypeOK, ClientInv, FindOwned
<1>2. client[c].saw.by \in Nat
  BY <1>1 DEF ClientState, Record
<1> QED
  BY <1>2, ToldStep DEF FindOwned

(* With the lock held shared no worker is past it, so an active record is    *)
(* that of a worker that is gone.                                            *)
LEMMA RereadStep ==
  ASSUME IInv, NEW c \in Clients, Reread(c)
  PROVE  IInv'
<1>1. /\ record # None /\ record \in Record /\ exclusive = None
      /\ None \notin Workers
      /\ Told(c, IF record.active THEN "interrupted" ELSE "done", record.by)
      /\ UNCHANGED <<work, asking, counts, history>>
  BY JobsAssumption DEF IInv, TypeOK, ClientInv, Reread
<1>2. record.by \in Nat /\ record.by <= serial.workers
  BY <1>1 DEF IInv, NumberInv, Record
<1>3. \A w \in Workers : proc[w].at \in {"none", "look", "lock"}
  BY <1>1 DEF IInv, TypeOK
<1>4. record.active => /\ record.by \notin saved
                       /\ \A w \in Workers : proc[w].at # "none" => proc[w].by # record.by
  BY <1>1, <1>3 DEF IInv, RecordInv
<1> QED
  BY <1>1, <1>2, <1>4, ToldStep

(* The worker of the transient unit is a new one. *)
LEMMA SubmitStep ==
  ASSUME IInv, NEW c \in Clients, NEW job \in {"switch", "recover"}, Submit(c, job)
  PROVE  IInv'
<1>1. TypeOK'
  <2>1. serial.workers + 1 \in Nat
    BY DEF IInv, TypeOK
  <2>2. [Gone EXCEPT !.at = "lock", !.by = serial.workers + 1, !.job = job] \in Process
    BY <2>1, BegunType DEF Steps, Jobs
  <2>3. proc' \in [Workers -> Process]
    BY <2>2 DEF IInv, TypeOK, Submit
  <2>4. \A v \in Workers :
         /\ (exclusive' = v) <=> (proc'[v].at \notin {"none", "look", "lock"})
         /\ (operation' = v) <=> (proc'[v].at = "operate")
    BY DEF IInv, TypeOK, Submit, locks
  <2>5. serial' \in [workers : Nat, switches : Nat]
    BY DEF IInv, TypeOK, Submit
  <2>6. client[c] \in ClientState
    BY DEF IInv, TypeOK
  <2>7. [client[c] EXCEPT !.at = "read", !.own = serial.workers + 1] \in ClientState
    BY <2>1, <2>6, OwnType
  <2>8. client' = [client EXCEPT ![c] = [client[c] EXCEPT !.at = "read", !.own = serial.workers + 1]]
    BY DEF Submit
  <2>9. client' \in [Clients -> ClientState]
    BY <2>7, <2>8 DEF IInv, TypeOK
  <2>10. left' \in [jobs : Nat, triggers : Nat, faults : Nat]
    BY DEF IInv, TypeOK, Submit
  <2> QED
    BY <2>1, <2>2, <2>3, <2>4, <2>5, <2>6, <2>7, <2>8, <2>9, <2>10 DEF IInv, TypeOK,
      Submit, locks, asking, history
<1>2. NumberInv'
  BY DEF IInv, TypeOK, NumberInv, Submit, Process, Record, history
<1>3. WorkerInv'
  BY JobsAssumption DEF IInv, TypeOK, NumberInv, WorkerInv, Submit, Workers, locks,
    history
<1>4. RecordInv'
  BY DEF IInv, TypeOK, NumberInv, RecordInv, Submit, history
<1>5. ClientInv'
  BY DEF IInv, TypeOK, ClientInv, Submit, locks
<1>6. ReportInv'
  BY DEF IInv, TypeOK, ReportInv, Submit, Report, history
<1> QED
  BY <1>1, <1>2, <1>3, <1>4, <1>5, <1>6 DEF IInv

-----------------------------------------------------------------------------
(* Before anything begins. *)
LEMMA InitInv == Init => IInv
<1> SUFFICES ASSUME Init PROVE IInv
  OBVIOUS
<1>1. Recovery \in Workers /\ Switch \in Workers /\ None \notin Workers
  BY JobsAssumption DEF Workers
<1>2. TypeOK
  <2>1. left \in [jobs : Nat, triggers : Nat, faults : Nat]
    BY JobsAssumption DEF Init
  <2>2. trig \in [Triggers -> Request]
    BY DEF Init, Request
  <2> QED
    BY <1>1, <2>1, <2>2, EmptyTypes DEF Init, TypeOK, Gone
<1>3. NumberInv /\ WorkerInv
  BY <1>1 DEF Init, NumberInv, WorkerInv, Gone
<1>4. RecordInv /\ ClientInv /\ ReportInv
  BY DEF Init, RecordInv, ClientInv, ReportInv, Resting, Unread
<1> QED
  BY <1>2, <1>3, <1>4 DEF IInv

(* Nothing happens. *)
LEMMA StutterInv == IInv /\ UNCHANGED vars => IInv'
BY DEF IInv, TypeOK, NumberInv, WorkerInv, RecordInv, ClientInv, ReportInv, vars, work,
       locks, asking, observing, counts, history

(* The inductive invariant holds in every behaviour. *)
THEOREM JobsInvariance == Spec => []IInv
<1>1. IInv /\ [Next]_vars => IInv'
  <2> SUFFICES ASSUME IInv, [Next]_vars PROVE IInv'
    OBVIOUS
  <2>1. ASSUME NEW t \in Triggers, TriggerStep(t) PROVE IInv'
    BY <2>1, TriggerKeeps
  <2>2. CASE Systemd \/ Look \/ LookFails \/ BeginSwitch
    BY <2>2, StartUnitStep, DropStartStep, LookStep, LookFailsStep, BeginSwitchStep
    DEF Systemd
  <2>3. ASSUME NEW w \in Workers, WorkerStep(w) PROVE IInv'
    BY <2>3, LockProgressStep, AnnounceStep, BeginRecoveryStep, DeclinesStep,
       OperatesStep, PublishStep, LeaveStep, DiesStep DEF WorkerStep
  <2>4. ASSUME NEW c \in Clients, ClientStep(c) PROVE IInv'
    BY <2>4, ObserveStep, ReadRecordStep, FindOwnedStep, LockSharedStep, RereadStep,
       SubmitStep, StartFailsStep DEF ClientStep
  <2>5. CASE UNCHANGED vars
    BY <2>5, StutterInv
  <2> QED
    BY <2>1, <2>2, <2>3, <2>4, <2>5 DEF Next
<1> QED
  BY <1>1, InitInv, PTL DEF Spec

(* The variables keep their types, and each lock has the holder its worker's *)
(* step says.                                                                *)
THEOREM JobsTypeCorrect == Spec => []TypeOK
<1>1. IInv => TypeOK
  BY DEF IInv
<1> QED
  BY <1>1, JobsInvariance, PTL

(* read_at: a client that is told of an interruption can rely on it.         *)
THEOREM InterruptionsAreReal == Spec => []InterruptedIsLost
<1>1. IInv => InterruptedIsLost
  BY DEF IInv, ReportInv, InterruptedIsLost, Alive
<1> QED
  BY <1>1, JobsInvariance, PTL

(* recover_matching: an automatic recovery leaves alone the switches that     *)
(* were begun after it looked.                                               *)
THEOREM RecoveryKeepsToItsSwitch == Spec => []RecoversOnlyWhatItSaw
<1>1. IInv => RecoversOnlyWhatItSaw
  BY DEF IInv, WorkerInv, RecoversOnlyWhatItSaw
<1> QED
  BY <1>1, JobsInvariance, PTL

=============================================================================
