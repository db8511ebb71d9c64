----------------------------- MODULE WriteGate -----------------------------
(* The write gate between the settings writes of a daemon and the service   *)
(* operations of lianli-control.                                            *)
(*                                                                          *)
(* A daemon gives every mutating IPC request a permit: slots of a bounded   *)
(* counter and a shared flock on the service operation lock file.  The      *)
(* permit lives as long as anything still works on the request: the         *)
(* connection's thread, a worker, an event in the queue of the main loop, a *)
(* job that the main loop started.  A service operation takes the same file *)
(* exclusively and, before it has a daemon stopped, makes the daemon report *)
(* which file it locks.  The file may be replaced at any time (a package    *)
(* update, a repaired tmpfiles rule).                                       *)
(*                                                                          *)
(* Inodes are numbered in the order of their creation: the daemon and the   *)
(* operation keep theirs open, so no number is used again.                  *)
EXTENDS Integers, Sequences, FiniteSets

CONSTANTS
    Daemons,          \* daemon processes, numbered in the order they start
    Requests,         \* mutating IPC requests, each on a connection of its own
    Operations,       \* lianli-control service operations
    MaxPending,       \* MAX_PENDING_WRITES, 64 in the code
    MaxReplacements,  \* bound: how often the lock file is replaced
    None

ASSUME GateAssumption ==
    /\ MaxPending \in Nat \ {0}
    /\ MaxReplacements \in Nat
    /\ IsFiniteSet(Requests)
    /\ Daemons \subseteq Nat
    /\ None \notin Nat

VARIABLES
    lockFile,  \* the inode at the path of the service operation lock
    daemon,    \* life of each daemon process
    pinned,    \* ServiceWriteGate.identity: the inode a daemon has settled on
    pending,   \* ServiceWriteGate.pending: slots taken
    queue,     \* coordinated events in the main loop's channel
    reload,    \* reloads of a main loop that no permit covers, by where they wait
    req,       \* each request and its permit
    op         \* each service operation

vars == <<lockFile, daemon, pinned, pending, queue, reload, req, op>>

Lives == {"new", "serving", "draining", "gone"}
Kinds == {"save", "bulk"}
Refs  == {"handler", "worker", "event", "job"}

\* "upload" is startup_config_pending; "later" is cleaner_reload_pending or,
\* after either, a plain IpcUpdate in the channel, where one is like another.
Waits == {"upload", "later"}

\* Mutant: a restoration counts like any other write.
CostAlwaysOne(kind) == 1

\* Restoring a backup and removing media take all slots, other writes one.
Cost(kind) == IF kind = "bulk" THEN MaxPending ELSE 1

Idle == [at |-> "idle", of |-> None, kind |-> "save", seen |-> None, refs |-> {}]
Rest == [at |-> "idle", held |-> None, expected |-> None, target |-> None, seen |-> None]

Init ==
    /\ lockFile = 0
    /\ daemon   = [d \in Daemons |-> "new"]
    /\ pinned   = [d \in Daemons |-> None]
    /\ pending  = [d \in Daemons |-> 0]
    /\ queue    = [d \in Daemons |-> <<>>]
    /\ reload   = [d \in Daemons |-> {}]
    /\ req      = [r \in Requests |-> Idle]
    /\ op       = [o \in Operations |-> Rest]

Holders(i) == {o \in Operations : op[o].held = i}

\* The flock is taken before the path is verified once more.
Sharing(r) == req[r].at \in {"verifying", "granted", "handled"}
Pin(r) == pinned[req[r].of]
Sharers(i) == {r \in Requests : Sharing(r) /\ Pin(r) = i}

-----------------------------------------------------------------------------
(* ServiceWriteGate::guard, on the thread of a connection. *)

\* Mutant: the limit is compared with the count before the addition.
ReserveOverLimit(r, d, kind) ==
    /\ req[r].at = "idle"
    /\ daemon[d] \in {"serving", "draining"}
    /\ pending[d] < MaxPending
    /\ pending' = [pending EXCEPT ![d] = @ + Cost(kind)]
    /\ req' = [req EXCEPT ![r] = [Idle EXCEPT !.at = "opening", !.of = d, !.kind = kind]]
    /\ UNCHANGED <<lockFile, daemon, pinned, queue, reload, op>>

\* The slots are reserved with one atomic update, before anything else.
Reserve(r, d, kind) ==
    /\ req[r].at = "idle"
    /\ daemon[d] \in {"serving", "draining"}
    /\ pending[d] + Cost(kind) <= MaxPending
    /\ pending' = [pending EXCEPT ![d] = @ + Cost(kind)]
    /\ req' = [req EXCEPT ![r] = [Idle EXCEPT !.at = "opening", !.of = d, !.kind = kind]]
    /\ UNCHANGED <<lockFile, daemon, pinned, queue, reload, op>>

OpenLockFile(r) ==
    /\ req[r].at = "opening"
    /\ req' = [req EXCEPT ![r].at = "pinning", ![r].seen = lockFile]
    /\ UNCHANGED <<lockFile, daemon, pinned, pending, queue, reload, op>>

\* Mutant: the daemon follows the path instead of keeping its first file.
PinLatest(r) ==
    /\ req[r].at = "pinning"
    /\ pinned' = [pinned EXCEPT ![req[r].of] = req[r].seen]
    /\ req' = [req EXCEPT ![r].at = "sharing"]
    /\ UNCHANGED <<lockFile, daemon, pending, queue, reload, op>>

\* The first opened file is kept for the life of the process.
PinIdentity(r) ==
    /\ req[r].at = "pinning"
    /\ Pin(r) \in {None, req[r].seen}
    /\ pinned' = [pinned EXCEPT ![req[r].of] = req[r].seen]
    /\ req' = [req EXCEPT ![r].at = "sharing"]
    /\ UNCHANGED <<lockFile, daemon, pending, queue, reload, op>>

OpenShared(r) ==
    /\ req[r].at = "sharing"
    /\ lockFile = Pin(r)
    /\ req' = [req EXCEPT ![r].at = "opened"]
    /\ UNCHANGED <<lockFile, daemon, pinned, pending, queue, reload, op>>

\* The flock is not waited for, and may be that of a file since replaced.
LockShared(r) ==
    /\ req[r].at = "opened"
    /\ Holders(Pin(r)) = {}
    /\ req' = [req EXCEPT ![r].at = "verifying"]
    /\ UNCHANGED <<lockFile, daemon, pinned, pending, queue, reload, op>>

VerifyShared(r) ==
    /\ req[r].at = "verifying"
    /\ lockFile = Pin(r)
    /\ req' = [req EXCEPT ![r].at = "granted", ![r].refs = {"handler"}]
    /\ UNCHANGED <<lockFile, daemon, pinned, pending, queue, reload, op>>

\* An error return drops what has been taken so far.
Refused(r) ==
    \/ req[r].at = "pinning" /\ Pin(r) \notin {None, req[r].seen}
    \/ req[r].at \in {"sharing", "verifying"} /\ lockFile # Pin(r)
    \/ req[r].at = "opened" /\ Holders(Pin(r)) # {}

\* Mutant: the early returns forget the reserved slots.
RefuseKeepsSlots(r) ==
    /\ Refused(r)
    /\ req' = [req EXCEPT ![r] = Idle]
    /\ UNCHANGED <<lockFile, daemon, pinned, pending, queue, reload, op>>

Refuse(r) ==
    /\ Refused(r)
    /\ pending' = [pending EXCEPT ![req[r].of] = @ - Cost(req[r].kind)]
    /\ req' = [req EXCEPT ![r] = Idle]
    /\ UNCHANGED <<lockFile, daemon, pinned, queue, reload, op>>

-----------------------------------------------------------------------------
(* The permit while the request is carried out. *)

\* The last reference to a permit unlocks and returns the slots.
DropRef(r, ref) ==
    IF req[r].refs = {ref}
    THEN /\ req' = [req EXCEPT ![r] = Idle]
         /\ pending' = [pending EXCEPT ![req[r].of] = @ - Cost(req[r].kind)]
    ELSE /\ req' = [req EXCEPT ![r].refs = @ \ {ref}]
         /\ UNCHANGED pending

\* A handler writes the settings and, for most requests, tells the main
\* loop; the event shares the permit.  A send to a stopped loop fails.
HandleSave(r) ==
    /\ req[r].at = "granted" /\ req[r].kind = "save"
    /\ \/ /\ daemon[req[r].of] = "serving"
          /\ queue' = [queue EXCEPT ![req[r].of] = Append(@, r)]
          /\ req' = [req EXCEPT ![r].at = "handled", ![r].refs = {"handler", "event"}]
       \/ /\ req' = [req EXCEPT ![r].at = "handled"]
          /\ UNCHANGED queue
    /\ UNCHANGED <<lockFile, daemon, pinned, pending, reload, op>>

\* Restoration and removal run in a worker that takes the permit along; a
\* backup worker that is busy or a stale review ends the request at once.
HandleBulk(r) ==
    /\ req[r].at = "granted" /\ req[r].kind = "bulk"
    /\ \E refs \in {{"handler"}, {"handler", "worker"}} :
          req' = [req EXCEPT ![r].at = "handled", ![r].refs = refs]
    /\ UNCHANGED <<lockFile, daemon, pinned, pending, queue, reload, op>>

\* The reply may go out before the worker is done (three seconds).
Reply(r) ==
    /\ req[r].at = "handled" /\ "handler" \in req[r].refs
    /\ DropRef(r, "handler")
    /\ UNCHANGED <<lockFile, daemon, pinned, queue, reload, op>>

FinishWorker(r) ==
    /\ "worker" \in req[r].refs
    /\ \/ /\ daemon[req[r].of] = "serving"
          /\ queue' = [queue EXCEPT ![req[r].of] = Append(@, r)]
          /\ req' = [req EXCEPT ![r].refs = (@ \ {"worker"}) \cup {"event"}]
          /\ UNCHANGED pending
       \/ /\ DropRef(r, "worker")
          /\ UNCHANGED queue
    /\ UNCHANGED <<lockFile, daemon, pinned, reload, op>>

Uploading(d) == \E r \in Requests : req[r].of = d /\ "job" \in req[r].refs

\* IpcUpdate: during the upload of a startup image it is put off.  Otherwise
\* load_config ends, or puts it off until pixel cleaning has stopped.
Reload(d, waits) ==
    IF Uploading(d)
    THEN reload' = [reload EXCEPT ![d] = waits \cup {"upload"}]
    ELSE \E left \in SUBSET {"later"} : reload' = [reload EXCEPT ![d] = left]

\* The main loop takes the next event and drops its permit at the end of the
\* iteration, also that of a reload it has put off.  An upload that begins
\* keeps the permit in its job; other events are carried out at once.
ApplyEvent(d) ==
    /\ daemon[d] = "serving" /\ queue[d] # <<>>
    /\ LET r == Head(queue[d]) IN
       \/ Reload(d, reload[d]) /\ DropRef(r, "event")
       \/ UNCHANGED reload /\ DropRef(r, "event")
       \/ /\ req[r].kind = "save" /\ ~Uploading(d)
          /\ req' = [req EXCEPT ![r].refs = (@ \ {"event"}) \cup {"job"}]
          /\ UNCHANGED <<pending, reload>>
    /\ queue' = [queue EXCEPT ![d] = Tail(@)]
    /\ UNCHANGED <<lockFile, daemon, pinned, op>>

\* A reload that was put off comes back without a permit; more may follow.
ApplyReload(d) ==
    /\ daemon[d] = "serving" /\ "later" \in reload[d]
    /\ \E waits \in {reload[d], reload[d] \ {"later"}} : Reload(d, waits)
    /\ UNCHANGED <<lockFile, daemon, pinned, pending, queue, req, op>>

\* Migrations of the settings are put off during an upload too.
MigrateLater(d) ==
    /\ daemon[d] = "serving" /\ Uploading(d)
    /\ reload' = [reload EXCEPT ![d] = @ \cup {"upload"}]
    /\ UNCHANGED <<lockFile, daemon, pinned, pending, queue, req, op>>

\* The next poll after the upload has ended drops the job and its permit, and
\* sends what was put off meanwhile.
FinishJob(r) ==
    /\ "job" \in req[r].refs /\ daemon[req[r].of] = "serving"
    /\ DropRef(r, "job")
    /\ reload' = [reload EXCEPT ![req[r].of] =
                     IF "upload" \in @ THEN {"later"} ELSE @]
    /\ UNCHANGED <<lockFile, daemon, pinned, queue, op>>

-----------------------------------------------------------------------------
(* The daemon process; the PID-file flock admits one at a time. *)

StartDaemon(d) ==
    /\ daemon[d] = "new"
    /\ \A e \in Daemons : e < d => daemon[e] = "gone"
    /\ daemon' = [daemon EXCEPT ![d] = "serving"]
    /\ UNCHANGED <<lockFile, pinned, pending, queue, reload, req, op>>

\* The main loop ends and drops its receiver; connections are still served.
BeginShutdown(d) ==
    /\ daemon[d] = "serving"
    /\ daemon' = [daemon EXCEPT ![d] = "draining"]
    /\ queue' = [queue EXCEPT ![d] = <<>>]
    /\ reload' = [reload EXCEPT ![d] = {}]
    /\ UNCHANGED <<lockFile, pinned, pending, req, op>>

\* Mutant: the job of the startup image outlives the shutdown.
DropEventsOnly(r, ref) ==
    /\ ref \in {"event"} \cap req[r].refs
    /\ daemon[req[r].of] = "draining"
    /\ DropRef(r, ref)
    /\ UNCHANGED <<lockFile, daemon, pinned, queue, reload, op>>

\* The undelivered events and the job are dropped one after the other.
DropUndelivered(r, ref) ==
    /\ ref \in {"event", "job"} \cap req[r].refs
    /\ daemon[req[r].of] = "draining"
    /\ DropRef(r, ref)
    /\ UNCHANGED <<lockFile, daemon, pinned, queue, reload, op>>

\* Threads that still run end with the process, after a shutdown or a crash.
Exit(d) ==
    /\ daemon[d] \in {"serving", "draining"}
    /\ daemon' = [daemon EXCEPT ![d] = "gone"]
    /\ queue' = [queue EXCEPT ![d] = <<>>]
    /\ reload' = [reload EXCEPT ![d] = {}]
    /\ pending' = [pending EXCEPT ![d] = 0]
    /\ req' = [r \in Requests |-> IF req[r].of = d THEN Idle ELSE req[r]]
    /\ UNCHANGED <<lockFile, pinned, op>>

-----------------------------------------------------------------------------
(* A service operation that stops or restarts a running daemon. *)

IdentifyLock(o) ==
    /\ op[o].at = "idle"
    /\ op' = [op EXCEPT ![o].at = "acquiring", ![o].expected = lockFile]
    /\ UNCHANGED <<lockFile, daemon, pinned, pending, queue, reload, req>>

\* Tried every 25 ms for five seconds.
LockExclusive(o) ==
    /\ op[o].at = "acquiring"
    /\ lockFile = op[o].expected
    /\ Holders(lockFile) = {} /\ Sharers(lockFile) = {}
    /\ op' = [op EXCEPT ![o].at = "locked", ![o].held = lockFile]
    /\ UNCHANGED <<lockFile, daemon, pinned, pending, queue, reload, req>>

\* inspect: the held lock is verified, then the host is examined.
BeginInspect(o) ==
    /\ op[o].at = "locked"
    /\ lockFile = op[o].held
    /\ op' = [op EXCEPT ![o].at = "inspecting"]
    /\ UNCHANGED <<lockFile, daemon, pinned, pending, queue, reload, req>>

ReportLock(o) ==
    /\ op[o].at = "inspecting"
    /\ op' = [op EXCEPT ![o].at = "reported", ![o].expected = lockFile]
    /\ UNCHANGED <<lockFile, daemon, pinned, pending, queue, reload, req>>

\* GetDaemonInfo opens the file and settles the daemon on it, like a write.
AskDaemonInfo(o, d) ==
    /\ op[o].at = "reported"
    /\ daemon[d] \in {"serving", "draining"}
    /\ op' = [op EXCEPT ![o].at = "asked", ![o].target = d, ![o].seen = lockFile]
    /\ UNCHANGED <<lockFile, daemon, pinned, pending, queue, reload, req>>

\* The answer must name the file of the report.
VerifyWriteGate(o) ==
    /\ op[o].at = "asked"
    /\ LET d == op[o].target
           seen == op[o].seen
       IN /\ daemon[d] \in {"serving", "draining"}
          /\ pinned[d] \in {None, seen}
          /\ pinned' = [pinned EXCEPT ![d] = seen]
          /\ op' = [op EXCEPT ![o] = IF seen = @.expected
                                       THEN [@ EXCEPT !.at = "verified"] ELSE Rest]
    /\ UNCHANGED <<lockFile, daemon, pending, queue, reload, req>>

\* Mutant: the held lock is not verified again before the action.
DispatchUnverified(o) ==
    /\ op[o].at = "verified"
    /\ op' = [op EXCEPT ![o].at = "acting"]
    /\ UNCHANGED <<lockFile, daemon, pinned, pending, queue, reload, req>>

Dispatch(o) ==
    /\ op[o].at = "verified"
    /\ lockFile = op[o].held
    /\ op' = [op EXCEPT ![o].at = "acting"]
    /\ UNCHANGED <<lockFile, daemon, pinned, pending, queue, reload, req>>

\* Success, any error return, or the death of the process.
EndOperation(o) ==
    /\ op[o].at # "idle"
    /\ op' = [op EXCEPT ![o] = Rest]
    /\ UNCHANGED <<lockFile, daemon, pinned, pending, queue, reload, req>>

ReplaceLockFile ==
    /\ lockFile < MaxReplacements
    /\ lockFile' = lockFile + 1
    /\ UNCHANGED <<daemon, pinned, pending, queue, reload, req, op>>

-----------------------------------------------------------------------------
Guard(r) ==
    \/ OpenLockFile(r) \/ PinIdentity(r) \/ OpenShared(r) \/ LockShared(r)
    \/ VerifyShared(r) \/ Refuse(r)

Work(r) ==
    \/ HandleSave(r) \/ HandleBulk(r) \/ Reply(r) \/ FinishWorker(r) \/ FinishJob(r)
    \/ \E ref \in Refs : DropUndelivered(r, ref)

Loop(d) == ApplyEvent(d) \/ ApplyReload(d) \/ MigrateLater(d)

Operate(o) ==
    \/ IdentifyLock(o) \/ LockExclusive(o) \/ BeginInspect(o) \/ ReportLock(o)
    \/ \E d \in Daemons : AskDaemonInfo(o, d)
    \/ VerifyWriteGate(o) \/ Dispatch(o) \/ EndOperation(o)

Next ==
    \/ \E r \in Requests : Guard(r) \/ Work(r)
    \/ \E r \in Requests, d \in Daemons, kind \in Kinds : Reserve(r, d, kind)
    \/ \E d \in Daemons : Loop(d) \/ StartDaemon(d) \/ BeginShutdown(d) \/ Exit(d)
    \/ \E o \in Operations : Operate(o)
    \/ ReplaceLockFile

Spec == Init /\ [][Next]_vars

\* Threads of a live process run, and their I/O ends.
Fairness ==
    /\ \A r \in Requests : WF_vars(Guard(r)) /\ WF_vars(Work(r))
    /\ \A d \in Daemons : WF_vars(ApplyEvent(d))

LiveSpec == Spec /\ Fairness

-----------------------------------------------------------------------------
Inode == Nat

RequestType ==
    [at   : {"idle", "opening", "pinning", "sharing", "opened", "verifying", "granted",
             "handled"},
     of   : Daemons \cup {None},
     kind : Kinds,
     seen : Inode \cup {None},
     refs : SUBSET Refs]

OperationType ==
    [at       : {"idle", "acquiring", "locked", "inspecting", "reported", "asked", "verified",
                 "acting"},
     held     : Inode \cup {None},
     expected : Inode \cup {None},
     target   : Daemons \cup {None},
     seen     : Inode \cup {None}]

\* Every variable has its type.
TypeOK ==
    /\ lockFile \in Inode
    /\ daemon \in [Daemons -> Lives]
    /\ pinned \in [Daemons -> Inode \cup {None}]
    /\ pending \in [Daemons -> 0 .. MaxPending]
    /\ queue \in [Daemons -> Seq(Requests)]
    /\ reload \in [Daemons -> SUBSET Waits]
    /\ req \in [Requests -> RequestType]
    /\ op \in [Operations -> OperationType]

Taking(d, kind) == {r \in Requests : req[r].of = d /\ req[r].kind = kind}

\* No slot is leaked or returned twice, on any path through the guard, the
\* handler, the worker, the main loop and the shutdown.
SlotsBalanced ==
    \A d \in Daemons :
        pending[d] = Cardinality(Taking(d, "save")) + MaxPending * Cardinality(Taking(d, "bulk"))

\* While a backup is restored or media are removed, from the reservation of
\* the slots to the last use of the permit, the daemon has no other write in
\* any stage: not in a handler, not in the main loop's queue, not in a job.
BulkAlone ==
    \A r \in Requests : \A s \in Requests \ {r} :
        req[r].kind = "bulk" => req[s].of # req[r].of

\* While an operation acts on a daemon whose gate it has verified, no request
\* of that daemon is being persisted or has an event in the main loop's queue
\* or an upload under way, and no reload waits for an upload: the upload's
\* permit covers it.  This holds even if the lock file was replaced before,
\* between or after the checks.  Exempt, as no permit covers them, are a
\* reload that waits for pixel cleaning to stop and one sent after an upload.
NoWriteWhileActing ==
    \A o \in Operations :
        op[o].at = "acting" =>
            /\ \A r \in Requests : req[r].of = op[o].target => ~Sharing(r)
            /\ "upload" \notin reload[op[o].target]

\* Two operations never act on the same daemon.
OneOperationActs ==
    \A o, p \in Operations :
        op[o].at = "acting" /\ op[p].at = "acting" /\ op[o].target = op[p].target => o = p

\* Every request gives its slots and its lock back: it is refused, applied,
\* or dropped with the daemon.
PermitsReturned == \A r \in Requests : req[r].at # "idle" ~> req[r].at = "idle"
=============================================================================
