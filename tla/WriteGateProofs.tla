-------------------------- MODULE WriteGateProofs --------------------------
(* Proofs that the write gate returns its slots, keeps a restoration alone  *)
(* and keeps writes out of a service operation, for every set of daemons,   *)
(* requests and operations, every limit and any replacement of the file.    *)
EXTENDS WriteGate, TLAPS, FiniteSetTheorems

(* TypeOK without the bounds of the counter, which need SlotsBalanced.      *)
Typed ==
    /\ lockFile \in Inode
    /\ daemon \in [Daemons -> Lives]
    /\ pinned \in [Daemons -> Inode \cup {None}]
    /\ pending \in [Daemons -> Int]
    /\ queue \in [Daemons -> Seq(Requests)]
    /\ reload \in [Daemons -> SUBSET Waits]
    /\ req \in [Requests -> RequestType]
    /\ op \in [Operations -> OperationType]

(* What the stage of a request says about it, its daemon and the pin.       *)
StageInv(r) ==
    /\ req[r].at = "idle" => req[r] = Idle
    /\ req[r].at # "idle" =>
          /\ req[r].of \in Daemons
          /\ daemon[req[r].of] \in {"serving", "draining"}
    /\ req[r].refs # {} <=> req[r].at \in {"granted", "handled"}
    /\ req[r].at = "granted" => req[r].refs = {"handler"}
    /\ "worker" \in req[r].refs => req[r].refs \subseteq {"handler", "worker"}
    /\ req[r].at = "pinning" => req[r].seen \in Nat /\ req[r].seen <= lockFile
    /\ req[r].at \in {"sharing", "opened", "verifying", "granted", "handled"} => Pin(r) # None

(* A daemon settles on a file that is or was at the path.                   *)
PinInv == \A d \in Daemons : pinned[d] # None => pinned[d] <= lockFile

(* What an operation has made sure of.  The file named by the report is not *)
(* older than the held one: if the path still has the held file, they are   *)
(* the same.                                                                *)
OperationInv(o) ==
    /\ op[o].held # None <=>
          op[o].at \in {"locked", "inspecting", "reported", "asked", "verified", "acting"}
    /\ op[o].held # None => op[o].held <= lockFile
    /\ op[o].at \in {"reported", "asked", "verified"} =>
          /\ op[o].expected # None
          /\ op[o].held <= op[o].expected
          /\ op[o].expected <= lockFile
    /\ op[o].at = "asked" =>
          op[o].target \in Daemons /\ op[o].seen # None /\ op[o].seen <= lockFile
    /\ op[o].at = "verified" =>
          op[o].target \in Daemons /\ pinned[op[o].target] = op[o].expected
    /\ op[o].at = "acting" =>
          op[o].target \in Daemons /\ pinned[op[o].target] = op[o].held

(* The two modes of the flock.                                              *)
FlockInv ==
    /\ \A o \in Operations, r \in Requests :
          Sharing(r) /\ op[o].held # None => Pin(r) # op[o].held
    /\ \A o, p \in Operations :
          op[o].held # None /\ op[o].held = op[p].held => o = p

(* A queued event keeps its permit, and a request has one event at most.    *)
QueueInv ==
    \A d \in Daemons :
        /\ daemon[d] # "serving" => queue[d] = <<>>
        /\ \A i \in DOMAIN queue[d] :
              /\ req[queue[d][i]].of = d /\ "event" \in req[queue[d][i]].refs
              /\ \A j \in DOMAIN queue[d] : queue[d][i] = queue[d][j] => i = j

(* What waits for an upload waits for one that is under way.                *)
ReloadInv(d) ==
    /\ reload[d] # {} => daemon[d] = "serving"
    /\ "upload" \in reload[d] => Uploading(d)

SlotsInv == SlotsBalanced /\ \A d \in Daemons : pending[d] <= MaxPending

(* The inductive invariant. *)
IInv ==
    /\ Typed
    /\ \A r \in Requests : StageInv(r)
    /\ PinInv
    /\ \A o \in Operations : OperationInv(o)
    /\ FlockInv
    /\ QueueInv
    /\ \A d \in Daemons : ReloadInv(d)
    /\ SlotsInv

-----------------------------------------------------------------------------
(* The empty records have the types of the others. *)
LEMMA IdleType == Idle \in RequestType /\ Rest \in OperationType
BY DEF Idle, Rest, RequestType, OperationType, Kinds, Refs

(* Every request costs a slot at least. *)
LEMMA CostType == \A kind \in Kinds : Cost(kind) \in Nat \ {0}
BY GateAssumption DEF Cost

(* A request under way belongs to a live daemon. *)
LEMMA UnderWay ==
  ASSUME Typed, NEW r \in Requests, StageInv(r), req[r].at # "idle" \/ req[r].refs # {}
  PROVE  /\ req[r] \in RequestType
         /\ req[r].at # "idle"
         /\ req[r].of \in Daemons
         /\ req[r].kind \in Kinds
         /\ Cost(req[r].kind) \in Nat \ {0}
         /\ pending[req[r].of] \in Int
         /\ queue[req[r].of] \in Seq(Requests)
<1>1. req[r] \in RequestType /\ req[r].at # "idle" /\ req[r].of \in Daemons
  BY DEF Typed, StageInv
<1>2. req[r].kind \in Kinds
  BY <1>1 DEF RequestType
<1> QED
  BY <1>1, <1>2, CostType DEF Typed

(* Returning a cost keeps the counter an integer. *)
LEMMA ReturnType ==
  ASSUME Typed, NEW r \in Requests, StageInv(r), req[r].at # "idle"
  PROVE  [pending EXCEPT ![req[r].of] = @ - Cost(req[r].kind)] \in [Daemons -> Int]
BY UnderWay DEF Typed

(* An event goes to the queue of a daemon. *)
LEMMA QueueType ==
  ASSUME Typed, NEW r \in Requests, StageInv(r), req[r].at # "idle"
  PROVE  [queue EXCEPT ![req[r].of] = Append(@, r)] \in [Daemons -> Seq(Requests)]
<1>1. Append(queue[req[r].of], r) \in Seq(Requests)
  BY UnderWay
<1> QED
  BY <1>1, UnderWay DEF Typed

(* Dropping a reference keeps the types. *)
LEMMA DropType ==
  ASSUME Typed, NEW r \in Requests, StageInv(r), NEW ref, DropRef(r, ref)
  PROVE  pending' \in [Daemons -> Int] /\ req' \in [Requests -> RequestType]
<1>1. CASE req[r].refs = {ref}
  <2>1. req[r].refs # {}
    BY <1>1
  <2>2. req[r].at # "idle"
    BY <2>1, UnderWay
  <2>3. /\ req' = [req EXCEPT ![r] = Idle]
        /\ pending' = [pending EXCEPT ![req[r].of] = @ - Cost(req[r].kind)]
    BY <1>1 DEF DropRef
  <2> QED
    BY <2>2, <2>3, ReturnType, IdleType DEF Typed
<1>2. CASE req[r].refs # {ref}
  <2>1. req[r] \in RequestType
    BY DEF Typed
  <2>2. [req[r] EXCEPT !.refs = @ \ {ref}] \in RequestType
    BY <2>1 DEF RequestType
  <2>3. req' = [req EXCEPT ![r] = [req[r] EXCEPT !.refs = @ \ {ref}]] /\ UNCHANGED pending
    BY <1>2 DEF DropRef
  <2> QED
    BY <2>2, <2>3 DEF Typed
<1> QED
  BY <1>1, <1>2

(* A reload that is carried out or put off keeps the types. *)
LEMMA ReloadType ==
  ASSUME Typed, NEW d \in Daemons, NEW waits \in SUBSET Waits, Reload(d, waits)
  PROVE  reload' \in [Daemons -> SUBSET Waits]
<1>1. {"later"} \subseteq Waits /\ "upload" \in Waits
  BY DEF Waits
<1>2. CASE Uploading(d)
  <2>1. reload' = [reload EXCEPT ![d] = waits \cup {"upload"}]
    BY <1>2 DEF Reload
  <2>2. waits \cup {"upload"} \in SUBSET Waits
    BY <1>1
  <2> QED
    BY <2>1, <2>2 DEF Typed
<1>3. CASE ~Uploading(d)
  <2>1. PICK left \in SUBSET {"later"} : reload' = [reload EXCEPT ![d] = left]
    BY <1>3 DEF Reload
  <2>2. left \in SUBSET Waits
    BY <1>1
  <2> QED
    BY <2>1, <2>2 DEF Typed
<1> QED
  BY <1>2, <1>3

(* The main loop's other steps touch nothing but the reloads put off. *)
LEMMA ReloadSteps ==
  ASSUME NEW d \in Daemons, ApplyReload(d) \/ MigrateLater(d)
  PROVE  UNCHANGED <<lockFile, daemon, pinned, pending, queue, req, op>>
BY DEF ApplyReload, MigrateLater

(* Every step keeps the types. *)
LEMMA TypedStep ==
  ASSUME Typed, \A r \in Requests : StageInv(r), [Next]_vars
  PROVE  Typed'
<1> USE IdleType, GateAssumption DEF Typed
<1>1. CASE UNCHANGED vars
  BY <1>1 DEF vars
<1>2. ASSUME NEW r \in Requests, Guard(r) PROVE Typed'
  <2>1. CASE OpenLockFile(r)
    BY <2>1 DEF OpenLockFile, RequestType, Inode
  <2>2. CASE PinIdentity(r)
    BY <2>2 DEF PinIdentity, RequestType
  <2>3. CASE OpenShared(r) \/ LockShared(r)
    <3>1. \A at \in {"opened", "verifying"} : [req[r] EXCEPT !.at = at] \in RequestType
      BY DEF RequestType
    <3>2. req' \in [Requests -> RequestType]
      BY <2>3, <3>1 DEF OpenShared, LockShared
    <3> QED
      BY <2>3, <3>2 DEF OpenShared, LockShared
  <2>4. CASE VerifyShared(r)
    BY <2>4 DEF VerifyShared, RequestType, Refs
  <2>5. CASE Refuse(r)
    BY <2>5, ReturnType DEF Refuse, Refused
  <2> QED
    BY <1>2, <2>1, <2>2, <2>3, <2>4, <2>5 DEF Guard
<1>3. ASSUME NEW r \in Requests, Work(r) PROVE Typed'
  <2>1. CASE HandleSave(r)
    <3>1. CASE /\ queue' = [queue EXCEPT ![req[r].of] = Append(@, r)]
               /\ req' = [req EXCEPT ![r].at = "handled", ![r].refs = {"handler", "event"}]
      <4>1. queue' \in [Daemons -> Seq(Requests)]
        BY <2>1, <3>1, QueueType DEF HandleSave
      <4>2. req' \in [Requests -> RequestType]
        BY <3>1 DEF RequestType, Refs
      <4> QED
        BY <2>1, <4>1, <4>2 DEF HandleSave
    <3>2. CASE req' = [req EXCEPT ![r].at = "handled"] /\ UNCHANGED queue
      BY <2>1, <3>2 DEF HandleSave, RequestType
    <3> QED
      BY <2>1, <3>1, <3>2 DEF HandleSave
  <2>2. CASE HandleBulk(r)
    <3>1. \A refs \in {{"handler"}, {"handler", "worker"}} :
             [req[r] EXCEPT !.at = "handled", !.refs = refs] \in RequestType
      BY DEF RequestType, Refs
    <3>2. req' \in [Requests -> RequestType]
      BY <2>2, <3>1 DEF HandleBulk
    <3> QED
      BY <2>2, <3>2 DEF HandleBulk
  <2>3. CASE Reply(r)
    BY <2>3, DropType DEF Reply
  <2>4. CASE FinishWorker(r)
    <3>1. CASE /\ queue' = [queue EXCEPT ![req[r].of] = Append(@, r)]
               /\ req' = [req EXCEPT ![r].refs = (@ \ {"worker"}) \cup {"event"}]
               /\ UNCHANGED pending
      <4>1. queue' \in [Daemons -> Seq(Requests)]
        BY <2>4, <3>1, QueueType, UnderWay DEF FinishWorker
      <4>2. req' \in [Requests -> RequestType]
        BY <3>1 DEF RequestType, Refs
      <4> QED
        BY <2>4, <3>1, <4>1, <4>2 DEF FinishWorker
    <3>2. CASE DropRef(r, "worker") /\ UNCHANGED queue
      BY <2>4, <3>2, DropType DEF FinishWorker
    <3> QED
      BY <2>4, <3>1, <3>2 DEF FinishWorker
  <2>5. CASE FinishJob(r)
    <3>1. pending' \in [Daemons -> Int] /\ req' \in [Requests -> RequestType]
      BY <2>5, DropType DEF FinishJob
    <3>2. req[r].of \in Daemons
      BY <2>5, UnderWay DEF FinishJob
    <3>3. reload' \in [Daemons -> SUBSET Waits]
      <4>1. {"later"} \in SUBSET Waits /\ reload[req[r].of] \in SUBSET Waits
        BY <3>2 DEF Waits
      <4> QED
        BY <2>5, <4>1 DEF FinishJob
    <3> QED
      BY <2>5, <3>1, <3>3 DEF FinishJob
  <2>6. ASSUME NEW ref \in Refs, DropUndelivered(r, ref) PROVE Typed'
    BY <2>6, DropType DEF DropUndelivered
  <2> QED
    BY <1>3, <2>1, <2>2, <2>3, <2>4, <2>5, <2>6 DEF Work
<1>4. ASSUME NEW r \in Requests, NEW d \in Daemons, NEW kind \in Kinds, Reserve(r, d, kind)
      PROVE  Typed'
  <2>1. Cost(kind) \in Int
    BY CostType
  <2>2. [Idle EXCEPT !.at = "opening", !.of = d, !.kind = kind] \in RequestType
    BY DEF Idle, RequestType
  <2> QED
    BY <1>4, <2>1, <2>2 DEF Reserve
<1>5. ASSUME NEW d \in Daemons, ApplyEvent(d) PROVE Typed'
  <2>1. Head(queue[d]) \in Requests /\ Tail(queue[d]) \in Seq(Requests)
    BY <1>5 DEF ApplyEvent
  <2>2. queue' \in [Daemons -> Seq(Requests)]
    BY <1>5, <2>1 DEF ApplyEvent
  <2>2a. reload' \in [Daemons -> SUBSET Waits]
    <3>1. Reload(d, reload[d]) \/ UNCHANGED reload
      BY <1>5 DEF ApplyEvent
    <3>2. reload[d] \in SUBSET Waits
      OBVIOUS
    <3> QED
      BY <3>1, <3>2, ReloadType
  <2>3. CASE DropRef(Head(queue[d]), "event")
    BY <1>5, <2>1, <2>2, <2>2a, <2>3, DropType DEF ApplyEvent
  <2>4. CASE /\ req' = [req EXCEPT ![Head(queue[d])].refs = (@ \ {"event"}) \cup {"job"}]
             /\ UNCHANGED <<pending, reload>>
    BY <1>5, <2>1, <2>2, <2>2a, <2>4 DEF ApplyEvent, RequestType, Refs
  <2> QED
    BY <1>5, <2>3, <2>4 DEF ApplyEvent
<1>5a. ASSUME NEW d \in Daemons, ApplyReload(d) \/ MigrateLater(d) PROVE Typed'
  <2>1. reload[d] \in SUBSET Waits /\ "upload" \in Waits
    BY DEF Waits
  <2>2. reload' \in [Daemons -> SUBSET Waits]
    <3>1. CASE ApplyReload(d)
      <4>1. PICK waits \in {reload[d], reload[d] \ {"later"}} : Reload(d, waits)
        BY <3>1 DEF ApplyReload
      <4>2. waits \in SUBSET Waits
        BY <2>1
      <4> QED
        BY <4>1, <4>2, ReloadType
    <3>2. CASE MigrateLater(d)
      <4>1. reload[d] \cup {"upload"} \in SUBSET Waits
        BY <2>1
      <4> QED
        BY <3>2, <4>1 DEF MigrateLater
    <3> QED
      BY <1>5a, <3>1, <3>2
  <2> QED
    BY <1>5a, <2>2, ReloadSteps
<1>6. ASSUME NEW d \in Daemons, StartDaemon(d) \/ BeginShutdown(d) \/ Exit(d) PROVE Typed'
  <2>1. CASE StartDaemon(d)
    BY <2>1 DEF StartDaemon, Lives
  <2>2. CASE BeginShutdown(d)
    BY <2>2 DEF BeginShutdown, Lives
  <2>3. CASE Exit(d)
    BY <2>3 DEF Exit, Lives
  <2> QED
    BY <1>6, <2>1, <2>2, <2>3
<1>7. ASSUME NEW o \in Operations, Operate(o) PROVE Typed'
  <2>1. CASE VerifyWriteGate(o)
    <3>1. [op[o] EXCEPT !.at = "verified"] \in OperationType
      BY DEF OperationType
    <3>2. op' \in [Operations -> OperationType]
      BY <2>1, <3>1 DEF VerifyWriteGate
    <3>3. op[o].seen \in Inode \cup {None}
      BY DEF OperationType
    <3> QED
      BY <2>1, <3>2, <3>3 DEF VerifyWriteGate
  <2>1a. ASSUME NEW d \in Daemons, AskDaemonInfo(o, d) PROVE Typed'
    <3>1. [op[o] EXCEPT !.at = "asked", !.target = d, !.seen = lockFile] \in OperationType
      BY DEF OperationType, Inode
    <3>2. op' \in [Operations -> OperationType]
      BY <2>1a, <3>1 DEF AskDaemonInfo
    <3> QED
      BY <2>1a, <3>2 DEF AskDaemonInfo
  <2>2. CASE IdentifyLock(o)
    BY <2>2 DEF IdentifyLock, OperationType, Inode
  <2>3. CASE LockExclusive(o)
    BY <2>3 DEF LockExclusive, OperationType, Inode
  <2>4. CASE BeginInspect(o)
    BY <2>4 DEF BeginInspect, OperationType
  <2>5. CASE ReportLock(o)
    BY <2>5 DEF ReportLock, OperationType, Inode
  <2>6. CASE Dispatch(o)
    BY <2>6 DEF Dispatch, OperationType
  <2>7. CASE EndOperation(o)
    BY <2>7 DEF EndOperation
  <2> QED
    BY <1>7, <2>1, <2>1a, <2>2, <2>3, <2>4, <2>5, <2>6, <2>7 DEF Operate
<1>8. CASE ReplaceLockFile
  BY <1>8 DEF ReplaceLockFile, Inode
<1> QED
  BY <1>1, <1>2, <1>3, <1>4, <1>5, <1>5a, <1>6, <1>7, <1>8 DEF Next, Loop

-----------------------------------------------------------------------------
(* Stages. *)

(* A request that a step leaves alone stays in its stage: files only get    *)
(* newer, pins stay, and the step ends no daemon.                           *)
LEMMA StageFrame ==
  ASSUME Typed, Typed', NEW r \in Requests, StageInv(r),
         req'[r] = req[r],
         lockFile <= lockFile',
         \A d \in Daemons :
            /\ daemon[d] \in {"serving", "draining"} => daemon'[d] \in {"serving", "draining"}
            /\ pinned[d] # None => pinned'[d] # None
  PROVE  StageInv(r)'
<1>1. CASE req[r].at = "idle"
  BY <1>1 DEF StageInv, Idle
<1>2. CASE req[r].at # "idle"
  <2>1. req[r].of \in Daemons
    BY <1>2 DEF StageInv
  <2>2. Pin(r) # None => Pin(r)' # None
    BY <2>1 DEF Pin
  <2>3. req[r].at = "pinning" => req[r].seen \in Nat /\ req[r].seen <= lockFile'
    BY DEF StageInv, Typed, Inode
  <2> QED
    BY <1>2, <2>1, <2>2, <2>3 DEF StageInv
<1> QED
  BY <1>1, <1>2

(* Giving up one of several references, or the last one. *)
LEMMA StageDrop ==
  ASSUME Typed, \A r \in Requests : StageInv(r), Typed',
         NEW r \in Requests, NEW ref \in req[r].refs, req[r].at = "handled",
         DropRef(r, ref), UNCHANGED <<lockFile, daemon, pinned>>
  PROVE  \A s \in Requests : StageInv(s)'
<1>1. \A s \in Requests \ {r} : req'[s] = req[s]
  BY DEF DropRef, Typed
<1>2. \A s \in Requests \ {r} : StageInv(s)'
  BY <1>1, StageFrame DEF Typed, Inode
<1>3. CASE req[r].refs = {ref}
  BY <1>2, <1>3 DEF DropRef, Typed, StageInv, Idle
<1>4. CASE req[r].refs # {ref}
  <2>1. req'[r] = [req[r] EXCEPT !.refs = @ \ {ref}]
    BY <1>4 DEF DropRef, Typed
  <2>2. req[r] \in RequestType
    BY DEF Typed
  <2>3. /\ req'[r].refs = req[r].refs \ {ref}
        /\ req'[r].refs # {}
        /\ req'[r].at = "handled" /\ req'[r].of = req[r].of
    BY <1>4, <2>1, <2>2 DEF RequestType
  <2>4. StageInv(r)'
    BY <2>3 DEF StageInv, Pin
  <2> QED
    BY <1>2, <2>4
<1> QED
  BY <1>3, <1>4

(* A reference other than the handler's exists in the last stage only.      *)
LEMMA LaterRef ==
  ASSUME NEW r \in Requests, StageInv(r), NEW ref \in req[r].refs, ref # "handler"
  PROVE  req[r].at = "handled"
BY DEF StageInv

(* Every step keeps the stages. *)
LEMMA StageStep ==
  ASSUME Typed, \A r \in Requests : StageInv(r), QueueInv, [Next]_vars, Typed'
  PROVE  \A r \in Requests : StageInv(r)'
<1> USE DEF Typed
<1>1. CASE UNCHANGED vars
  BY <1>1 DEF vars, StageInv, Pin
<1>2. ASSUME NEW r \in Requests, Guard(r) PROVE \A s \in Requests : StageInv(s)'
  <2>1. /\ lockFile' = lockFile /\ daemon' = daemon
        /\ \A s \in Requests \ {r} : req'[s] = req[s]
        /\ \A d \in Daemons : pinned[d] # None => pinned'[d] # None
    <3>1. CASE PinIdentity(r)
      <4>1. req[r].seen # None
        BY <3>1, GateAssumption DEF PinIdentity, StageInv
      <4> QED
        BY <3>1, <4>1 DEF PinIdentity
    <3>2. CASE OpenLockFile(r) \/ OpenShared(r) \/ LockShared(r) \/ VerifyShared(r) \/ Refuse(r)
      BY <3>2 DEF OpenLockFile, OpenShared, LockShared, VerifyShared, Refuse
    <3> QED
      BY <1>2, <3>1, <3>2 DEF Guard
  <2>2. \A s \in Requests \ {r} : StageInv(s)'
    BY <2>1, StageFrame DEF Inode
  <2>3. req[r] \in RequestType /\ StageInv(r)
    OBVIOUS
  <2>4. CASE OpenLockFile(r)
    BY <2>2, <2>3, <2>4 DEF OpenLockFile, StageInv, Inode
  <2>5. CASE PinIdentity(r)
    BY <2>2, <2>3, <2>5, GateAssumption DEF PinIdentity, StageInv, Pin
  <2>6. CASE OpenShared(r) \/ LockShared(r)
    <3>1. /\ req'[r].at \in {"opened", "verifying"} /\ req[r].at \in {"sharing", "opened"}
          /\ req'[r].of = req[r].of /\ req'[r].refs = req[r].refs
          /\ UNCHANGED <<daemon, pinned>>
      BY <2>3, <2>6 DEF OpenShared, LockShared, RequestType
    <3>2. StageInv(r)'
      BY <2>3, <3>1 DEF StageInv, Pin
    <3> QED
      BY <2>2, <3>2
  <2>7. CASE VerifyShared(r)
    BY <2>2, <2>3, <2>7 DEF VerifyShared, StageInv, Pin
  <2>8. CASE Refuse(r)
    BY <2>2, <2>8 DEF Refuse, StageInv, Idle
  <2> QED
    BY <1>2, <2>4, <2>5, <2>6, <2>7, <2>8 DEF Guard
<1>3. ASSUME NEW r \in Requests, Work(r) PROVE \A s \in Requests : StageInv(s)'
  <2>1. CASE HandleSave(r)
    <3>1. \A s \in Requests \ {r} : StageInv(s)'
      BY <2>1, StageFrame DEF HandleSave, Inode
    <3>2. /\ req'[r].at = "handled" /\ req'[r].of = req[r].of
          /\ req'[r].refs \in {req[r].refs, {"handler", "event"}}
          /\ req[r].at = "granted"
      BY <2>1 DEF HandleSave, RequestType
    <3>3. StageInv(r)'
      BY <2>1, <3>2 DEF HandleSave, StageInv, Pin
    <3> QED
      BY <3>1, <3>3
  <2>2. CASE HandleBulk(r)
    <3>1. \A s \in Requests \ {r} : StageInv(s)'
      BY <2>2, StageFrame DEF HandleBulk, Inode
    <3>2. /\ req'[r].at = "handled" /\ req'[r].of = req[r].of /\ req[r].at = "granted"
          /\ req'[r].refs \in {{"handler"}, {"handler", "worker"}}
      BY <2>2 DEF HandleBulk, RequestType
    <3>3. StageInv(r)'
      BY <2>2, <3>2 DEF HandleBulk, StageInv, Pin
    <3> QED
      BY <3>1, <3>3
  <2>3. CASE Reply(r)
    BY <2>3, StageDrop DEF Reply
  <2>4. CASE FinishWorker(r)
    <3>1. req[r].at = "handled"
      BY <2>4, LaterRef DEF FinishWorker
    <3>2. CASE DropRef(r, "worker")
      BY <2>4, <3>1, <3>2, StageDrop DEF FinishWorker
    <3>3. CASE req' = [req EXCEPT ![r].refs = (@ \ {"worker"}) \cup {"event"}]
      <4>1. \A s \in Requests \ {r} : StageInv(s)'
        BY <2>4, <3>3, StageFrame DEF FinishWorker, Inode
      <4>2. /\ req'[r].at = "handled" /\ req'[r].of = req[r].of
            /\ req'[r].refs = (req[r].refs \ {"worker"}) \cup {"event"}
        BY <3>1, <3>3 DEF RequestType
      <4>3. StageInv(r)'
        BY <2>4, <3>1, <4>2 DEF FinishWorker, StageInv, Pin
      <4> QED
        BY <4>1, <4>3
    <3> QED
      BY <2>4, <3>2, <3>3 DEF FinishWorker
  <2>5. CASE FinishJob(r)
    BY <2>5, StageDrop, LaterRef DEF FinishJob
  <2>6. ASSUME NEW ref \in Refs, DropUndelivered(r, ref) PROVE \A s \in Requests : StageInv(s)'
    BY <2>6, StageDrop, LaterRef DEF DropUndelivered
  <2> QED
    BY <1>3, <2>1, <2>2, <2>3, <2>4, <2>5, <2>6 DEF Work
<1>4. ASSUME NEW r \in Requests, NEW d \in Daemons, NEW kind \in Kinds, Reserve(r, d, kind)
      PROVE  \A s \in Requests : StageInv(s)'
  <2>1. \A s \in Requests \ {r} : StageInv(s)'
    BY <1>4, StageFrame DEF Reserve, Inode
  <2>2. /\ req'[r].at = "opening" /\ req'[r].of = d /\ req'[r].refs = {}
        /\ daemon' = daemon
    BY <1>4 DEF Reserve, Idle
  <2> QED
    BY <1>4, <2>1, <2>2 DEF Reserve, StageInv
<1>5. ASSUME NEW d \in Daemons, ApplyEvent(d) PROVE \A s \in Requests : StageInv(s)'
  <2>1. PICK r \in Requests : r = Head(queue[d]) /\ "event" \in req[r].refs
    BY <1>5 DEF ApplyEvent, QueueInv
  <2>2. req[r].at = "handled"
    BY <2>1, LaterRef
  <2>3. CASE DropRef(r, "event")
    BY <1>5, <2>1, <2>2, <2>3, StageDrop DEF ApplyEvent
  <2>4. CASE req' = [req EXCEPT ![r].refs = (@ \ {"event"}) \cup {"job"}]
    <3>1. \A s \in Requests \ {r} : StageInv(s)'
      BY <1>5, <2>1, <2>4, StageFrame DEF ApplyEvent, Inode
    <3>2. "worker" \notin req[r].refs
      <4>1. StageInv(r)
        OBVIOUS
      <4>2. "worker" \in req[r].refs => req[r].refs \subseteq {"handler", "worker"}
        BY <4>1 DEF StageInv
      <4> QED
        BY <2>1, <4>2
    <3>3. /\ req'[r].at = "handled" /\ req'[r].of = req[r].of
          /\ req'[r].refs = (req[r].refs \ {"event"}) \cup {"job"}
      BY <2>1, <2>2, <2>4 DEF RequestType
    <3>4. StageInv(r)'
      BY <1>5, <2>1, <2>2, <3>2, <3>3 DEF ApplyEvent, StageInv, Pin
    <3> QED
      BY <3>1, <3>4
  <2> QED
    BY <1>5, <2>1, <2>3, <2>4 DEF ApplyEvent
<1>5a. ASSUME NEW d \in Daemons, ApplyReload(d) \/ MigrateLater(d)
       PROVE  \A s \in Requests : StageInv(s)'
  <2>1. UNCHANGED <<lockFile, daemon, pinned, req>>
    BY <1>5a, ReloadSteps
  <2> QED
    BY <2>1, StageFrame DEF Inode
<1>6. ASSUME NEW d \in Daemons, StartDaemon(d) \/ BeginShutdown(d)
      PROVE  \A s \in Requests : StageInv(s)'
  <2>1. /\ UNCHANGED <<lockFile, pinned, req>>
        /\ \A e \in Daemons : daemon[e] \in {"serving", "draining"}
                               => daemon'[e] \in {"serving", "draining"}
    BY <1>6 DEF StartDaemon, BeginShutdown
  <2> QED
    BY <2>1, StageFrame DEF Inode
<1>7. ASSUME NEW d \in Daemons, Exit(d) PROVE \A s \in Requests : StageInv(s)'
  BY <1>7 DEF Exit, StageInv, Idle, Pin
<1>8. ASSUME NEW o \in Operations, Operate(o) PROVE \A s \in Requests : StageInv(s)'
  <2>1. /\ lockFile' = lockFile /\ daemon' = daemon /\ req' = req
        /\ \A d \in Daemons : pinned[d] # None => pinned'[d] # None
    BY <1>8, GateAssumption
       DEF Operate, IdentifyLock, LockExclusive, BeginInspect, ReportLock, AskDaemonInfo,
           VerifyWriteGate, Dispatch, EndOperation, Inode
  <2> QED
    BY <2>1, StageFrame DEF Inode
<1>9. CASE ReplaceLockFile
  BY <1>9, StageFrame DEF ReplaceLockFile, Inode
<1> QED
  BY <1>1, <1>2, <1>3, <1>4, <1>5, <1>5a, <1>6, <1>7, <1>8, <1>9 DEF Next, Loop

-----------------------------------------------------------------------------
(* Pins, operations and the flock. *)

(* A pin is set once, to a file no newer than the one at the path. *)
LEMMA PinSteps ==
  ASSUME Typed, Typed', \A r \in Requests : StageInv(r), PinInv,
         \A o \in Operations : OperationInv(o), [Next]_vars
  PROVE  /\ PinInv'
         /\ \A d \in Daemons : pinned[d] # None => pinned'[d] = pinned[d]
         /\ lockFile <= lockFile'
<1> USE GateAssumption DEF Typed, Inode
<1>1. CASE pinned' = pinned /\ lockFile' = lockFile
  BY <1>1 DEF PinInv
<1>2. ASSUME NEW r \in Requests, PinIdentity(r)
      PROVE  /\ PinInv'
             /\ \A d \in Daemons : pinned[d] # None => pinned'[d] = pinned[d]
             /\ lockFile <= lockFile'
  <2>1. req[r].of \in Daemons /\ req[r].seen \in Nat /\ req[r].seen <= lockFile
    BY <1>2 DEF PinIdentity, StageInv
  <2>2. pinned[req[r].of] \in {None, req[r].seen}
    BY <1>2 DEF PinIdentity, Pin
  <2> QED
    BY <1>2, <2>1, <2>2 DEF PinIdentity, PinInv
<1>3. ASSUME NEW o \in Operations, VerifyWriteGate(o)
      PROVE  /\ PinInv'
             /\ \A e \in Daemons : pinned[e] # None => pinned'[e] = pinned[e]
             /\ lockFile <= lockFile'
  <2>1. /\ op[o].target \in Daemons
        /\ op[o].seen \in Nat /\ op[o].seen <= lockFile
    BY <1>3 DEF VerifyWriteGate, OperationInv, OperationType
  <2> QED
    BY <1>3, <2>1 DEF VerifyWriteGate, PinInv
<1>4. CASE ReplaceLockFile
  BY <1>4 DEF ReplaceLockFile, PinInv
<1>5. ASSUME NEW r \in Requests, Guard(r)
      PROVE  PinIdentity(r) \/ (pinned' = pinned /\ lockFile' = lockFile)
  BY <1>5 DEF Guard, OpenLockFile, OpenShared, LockShared, VerifyShared, Refuse
<1>6. ASSUME NEW r \in Requests, Work(r) PROVE pinned' = pinned /\ lockFile' = lockFile
  BY <1>6 DEF Work, HandleSave, HandleBulk, Reply, FinishWorker, FinishJob, DropUndelivered
<1>7. ASSUME NEW r \in Requests, NEW d \in Daemons, NEW kind \in Kinds, Reserve(r, d, kind)
      PROVE  pinned' = pinned /\ lockFile' = lockFile
  BY <1>7 DEF Reserve
<1>8. ASSUME NEW d \in Daemons, Loop(d) \/ StartDaemon(d) \/ BeginShutdown(d) \/ Exit(d)
      PROVE  pinned' = pinned /\ lockFile' = lockFile
  BY <1>8 DEF Loop, ApplyEvent, ApplyReload, MigrateLater, StartDaemon, BeginShutdown, Exit
<1>9. ASSUME NEW o \in Operations, Operate(o)
      PROVE  \/ VerifyWriteGate(o)
             \/ pinned' = pinned /\ lockFile' = lockFile
  BY <1>9 DEF Operate, IdentifyLock, LockExclusive, BeginInspect, ReportLock, AskDaemonInfo,
              Dispatch, EndOperation
<1>10. UNCHANGED vars => pinned' = pinned /\ lockFile' = lockFile
  BY DEF vars
<1> QED
  BY <1>1, <1>2, <1>3, <1>4, <1>5, <1>6, <1>7, <1>8, <1>9, <1>10 DEF Next

(* Every step but those of an operation leaves all operations alone. *)
LEMMA OthersLeaveOp ==
  ASSUME [Next]_vars
  PROVE  op' = op \/ \E o \in Operations : Operate(o)
<1>1. ASSUME NEW r \in Requests, Guard(r) \/ Work(r) PROVE op' = op
  BY <1>1 DEF Guard, Work, OpenLockFile, PinIdentity, OpenShared, LockShared, VerifyShared, Refuse,
              HandleSave, HandleBulk, Reply, FinishWorker, FinishJob, DropUndelivered
<1>2. ASSUME NEW r \in Requests, NEW d \in Daemons, NEW kind \in Kinds, Reserve(r, d, kind)
      PROVE  op' = op
  BY <1>2 DEF Reserve
<1>3. ASSUME NEW d \in Daemons, Loop(d) \/ StartDaemon(d) \/ BeginShutdown(d) \/ Exit(d)
      PROVE  op' = op
  BY <1>3 DEF Loop, ApplyEvent, ApplyReload, MigrateLater, StartDaemon, BeginShutdown, Exit
<1> QED
  BY <1>1, <1>2, <1>3 DEF Next, ReplaceLockFile, vars

(* Every step keeps what the operations have made sure of. *)
LEMMA OperationStep ==
  ASSUME Typed, Typed', \A r \in Requests : StageInv(r), PinInv,
         \A o \in Operations : OperationInv(o), [Next]_vars
  PROVE  \A o \in Operations : OperationInv(o)'
<1> USE GateAssumption DEF Typed, Inode
<1>1. /\ \A d \in Daemons : pinned[d] # None => pinned'[d] = pinned[d]
      /\ lockFile <= lockFile'
  BY PinSteps
<1>2. ASSUME NEW o \in Operations, op'[o] = op[o] PROVE OperationInv(o)'
  <2>1. op[o] \in OperationType /\ OperationInv(o)
    OBVIOUS
  <2>2. /\ op[o].held \in Nat \cup {None} /\ op[o].expected \in Nat \cup {None}
        /\ op[o].seen \in Nat \cup {None}
        /\ lockFile \in Nat /\ lockFile' \in Nat
    BY <2>1 DEF OperationType
  <2>3. /\ op[o].held # None => op[o].held <= lockFile'
        /\ op[o].expected # None /\ op[o].expected <= lockFile => op[o].expected <= lockFile'
        /\ op[o].seen # None /\ op[o].seen <= lockFile => op[o].seen <= lockFile'
    BY <1>1, <2>1, <2>2 DEF OperationInv
  <2>4. /\ op[o].at = "verified" => pinned'[op[o].target] = op[o].expected
        /\ op[o].at = "acting" => pinned'[op[o].target] = op[o].held
    BY <1>1, <2>1 DEF OperationInv
  <2> QED
    BY <1>2, <2>1, <2>3, <2>4 DEF OperationInv
<1>3. ASSUME NEW o \in Operations, Operate(o) PROVE \A p \in Operations : OperationInv(p)'
  <2>1. \A p \in Operations \ {o} : op'[p] = op[p]
    BY <1>3 DEF Operate, IdentifyLock, LockExclusive, BeginInspect, ReportLock,
                AskDaemonInfo, VerifyWriteGate, Dispatch, EndOperation
  <2>2. op[o] \in OperationType /\ OperationInv(o) /\ lockFile \in Nat
    OBVIOUS
  <2>3. op[o].held \in Nat \cup {None} /\ op[o].expected \in Nat \cup {None}
    BY <2>2 DEF OperationType
  <2>4. CASE IdentifyLock(o)
    BY <2>2, <2>3, <2>4 DEF IdentifyLock, OperationInv
  <2>5. CASE LockExclusive(o)
    BY <2>2, <2>3, <2>5 DEF LockExclusive, OperationInv
  <2>6. CASE BeginInspect(o)
    BY <2>2, <2>3, <2>6 DEF BeginInspect, OperationInv
  <2>7. CASE ReportLock(o)
    BY <2>2, <2>3, <2>7 DEF ReportLock, OperationInv
  <2>8. CASE VerifyWriteGate(o)
    <3>1. CASE op[o].seen = op[o].expected
      <4>1. op'[o] = [op[o] EXCEPT !.at = "verified"]
        BY <2>8, <3>1 DEF VerifyWriteGate
      <4>2. /\ op'[o].at = "verified" /\ op'[o].target = op[o].target
            /\ op'[o].held = op[o].held /\ op'[o].expected = op[o].expected
        BY <2>2, <4>1 DEF OperationType
      <4> QED
        BY <2>2, <2>3, <2>8, <3>1, <4>2 DEF VerifyWriteGate, OperationInv
    <3>2. CASE op[o].seen # op[o].expected
      BY <2>8, <3>2 DEF VerifyWriteGate, OperationInv, Rest
    <3> QED
      BY <3>1, <3>2
  <2>8a. ASSUME NEW d \in Daemons, AskDaemonInfo(o, d) PROVE OperationInv(o)'
    BY <2>2, <2>3, <2>8a DEF AskDaemonInfo, OperationInv
  <2>9. CASE Dispatch(o)
    BY <2>2, <2>3, <2>9 DEF Dispatch, OperationInv
  <2>10. CASE EndOperation(o)
    BY <2>10 DEF EndOperation, OperationInv, Rest
  <2>11. OperationInv(o)'
    BY <1>3, <2>4, <2>5, <2>6, <2>7, <2>8, <2>8a, <2>9, <2>10 DEF Operate
  <2> QED
    BY <1>2, <2>1, <2>11
<1>4. ASSUME op' = op PROVE \A p \in Operations : OperationInv(p)'
  BY <1>2, <1>4
<1> QED
  BY <1>3, <1>4, OthersLeaveOp

(* Only taking the shared lock makes a request share it. *)
LEMMA SharingSteps ==
  ASSUME Typed, \A r \in Requests : StageInv(r), QueueInv, [Next]_vars
  PROVE  \/ \E r \in Requests : LockShared(r)
         \/ \A s \in Requests : Sharing(s)' => Sharing(s) /\ req'[s].of = req[s].of
<1> DEFINE Goal == \A s \in Requests : Sharing(s)' => Sharing(s) /\ req'[s].of = req[s].of
<1> USE DEF Typed
<1>1. ASSUME NEW r \in Requests, NEW ref, DropRef(r, ref), req[r].at = "handled" PROVE Goal
  <2>1. req[r] \in RequestType
    OBVIOUS
  <2>2. CASE req[r].refs = {ref}
    <3>1. req' = [req EXCEPT ![r] = Idle]
      BY <1>1, <2>2 DEF DropRef
    <3>2. req'[r].at = "idle" /\ \A s \in Requests \ {r} : req'[s] = req[s]
      BY <3>1 DEF Idle
    <3> QED
      BY <3>2 DEF Sharing
  <2>3. CASE req[r].refs # {ref}
    <3>1. req'[r].at = req[r].at /\ req'[r].of = req[r].of
      BY <1>1, <2>1, <2>3 DEF DropRef, RequestType
    <3> QED
      BY <1>1, <2>3, <3>1 DEF DropRef, Sharing
  <2> QED
    BY <2>2, <2>3
<1>2. ASSUME NEW r \in Requests, Guard(r), ~LockShared(r) PROVE Goal
  <2>1. req[r] \in RequestType
    OBVIOUS
  <2>2. CASE OpenLockFile(r) \/ PinIdentity(r) \/ OpenShared(r)
    <3>1. /\ req'[r].at \in {"pinning", "sharing", "opened"}
          /\ \A s \in Requests \ {r} : req'[s] = req[s]
      BY <2>1, <2>2 DEF OpenLockFile, PinIdentity, OpenShared, RequestType
    <3> QED
      BY <3>1 DEF Sharing
  <2>3. CASE VerifyShared(r)
    <3>1. req'[r].of = req[r].of
      BY <2>1, <2>3 DEF VerifyShared, RequestType
    <3> QED
      BY <2>3, <3>1 DEF VerifyShared, Sharing
  <2>4. CASE Refuse(r)
    BY <2>4 DEF Refuse, Sharing, Idle
  <2> QED
    BY <1>2, <2>2, <2>3, <2>4 DEF Guard
<1>3. ASSUME NEW r \in Requests, Work(r) PROVE Goal
  <2>1. StageInv(r) /\ req[r] \in RequestType
    OBVIOUS
  <2>2. CASE HandleSave(r)
    <3>1. /\ req'[r].of = req[r].of /\ req[r].at = "granted"
          /\ \A s \in Requests \ {r} : req'[s] = req[s]
      BY <2>1, <2>2 DEF HandleSave, RequestType
    <3> QED
      BY <3>1 DEF Sharing
  <2>3. CASE HandleBulk(r)
    BY <2>1, <2>3 DEF HandleBulk, Sharing, RequestType
  <2>4. CASE Reply(r)
    BY <1>1, <2>4 DEF Reply
  <2>5. CASE FinishWorker(r)
    <3>1. req[r].at = "handled"
      BY <2>1, <2>5, LaterRef DEF FinishWorker
    <3>2. CASE DropRef(r, "worker")
      BY <1>1, <3>1, <3>2
    <3>3. CASE req' = [req EXCEPT ![r].refs = (@ \ {"worker"}) \cup {"event"}]
      BY <2>1, <3>3 DEF Sharing, RequestType
    <3> QED
      BY <2>5, <3>2, <3>3 DEF FinishWorker
  <2>6. CASE FinishJob(r)
    BY <1>1, <2>1, <2>6, LaterRef DEF FinishJob
  <2>7. ASSUME NEW ref \in Refs, DropUndelivered(r, ref) PROVE Goal
    BY <1>1, <2>1, <2>7, LaterRef DEF DropUndelivered
  <2> QED
    BY <1>3, <2>2, <2>3, <2>4, <2>5, <2>6, <2>7 DEF Work
<1>4. ASSUME NEW r \in Requests, NEW d \in Daemons, NEW kind \in Kinds, Reserve(r, d, kind)
      PROVE  Goal
  BY <1>4 DEF Reserve, Sharing, Idle
<1>5. ASSUME NEW d \in Daemons, ApplyEvent(d) PROVE Goal
  <2>1. PICK r \in Requests : r = Head(queue[d]) /\ "event" \in req[r].refs
    BY <1>5 DEF ApplyEvent, QueueInv
  <2>2. req[r].at = "handled" /\ req[r] \in RequestType
    BY <2>1, LaterRef
  <2>3. CASE DropRef(r, "event")
    BY <1>1, <2>2, <2>3
  <2>4. CASE req' = [req EXCEPT ![r].refs = (@ \ {"event"}) \cup {"job"}]
    BY <2>2, <2>4 DEF Sharing, RequestType
  <2> QED
    BY <1>5, <2>1, <2>3, <2>4 DEF ApplyEvent
<1>6. ASSUME NEW d \in Daemons, Exit(d) PROVE Goal
  BY <1>6 DEF Exit, Sharing, Idle
<1>7. ASSUME req' = req PROVE Goal
  BY <1>7 DEF Sharing
<1>8. ASSUME NEW d \in Daemons,
             ApplyReload(d) \/ MigrateLater(d) \/ StartDaemon(d) \/ BeginShutdown(d)
      PROVE  req' = req
  BY <1>8, ReloadSteps DEF StartDaemon, BeginShutdown
<1>9. ASSUME NEW o \in Operations, Operate(o) PROVE req' = req
  BY <1>9 DEF Operate, IdentifyLock, LockExclusive, BeginInspect, ReportLock, AskDaemonInfo,
              VerifyWriteGate, Dispatch, EndOperation
<1> HIDE DEF Goal
<1>10. ReplaceLockFile \/ UNCHANGED vars => req' = req
  BY DEF ReplaceLockFile, vars
<1>11. CASE \E r \in Requests : LockShared(r)
  BY <1>11
<1>12. CASE \A r \in Requests : ~LockShared(r)
  <2>1. Goal \/ req' = req
    BY <1>2, <1>3, <1>4, <1>5, <1>6, <1>8, <1>9, <1>10, <1>12 DEF Next, Loop
  <2>2. Goal
    BY <1>7, <2>1
  <2> QED
    BY <2>2 DEF Goal
<1> QED
  BY <1>11, <1>12

(* Every step keeps the two modes of the flock apart. *)
LEMMA FlockStep ==
  ASSUME Typed, Typed', \A r \in Requests : StageInv(r), QueueInv, PinInv,
         \A o \in Operations : OperationInv(o), FlockInv, [Next]_vars
  PROVE  FlockInv'
<1> USE GateAssumption DEF Typed, Inode
<1>1. \A s \in Requests :
         Sharing(s)' /\ Sharing(s) /\ req'[s].of = req[s].of => Pin(s)' = Pin(s)
  <2>1. \A d \in Daemons : pinned[d] # None => pinned'[d] = pinned[d]
    BY PinSteps
  <2>2. \A s \in Requests : Sharing(s) => req[s].of \in Daemons /\ Pin(s) # None
    BY DEF Sharing, StageInv
  <2> QED
    BY <2>1, <2>2 DEF Pin
<1>2. ASSUME op' = op, \A s \in Requests : Sharing(s)' => Sharing(s) /\ req'[s].of = req[s].of
      PROVE  FlockInv'
  BY <1>1, <1>2 DEF FlockInv
<1>3. ASSUME NEW r \in Requests, LockShared(r) PROVE FlockInv'
  <2>1. /\ op' = op /\ pinned' = pinned
        /\ \A s \in Requests : req'[s].of = req[s].of
        /\ \A s \in Requests \ {r} : Sharing(s)' => Sharing(s)
    BY <1>3 DEF LockShared, RequestType, Sharing
  <2>2. \A o \in Operations : op[o].held # Pin(r)
    BY <1>3 DEF LockShared, Holders
  <2> QED
    BY <2>1, <2>2 DEF FlockInv, Pin
<1>4. ASSUME NEW o \in Operations, Operate(o),
             \A s \in Requests : Sharing(s)' => Sharing(s) /\ req'[s].of = req[s].of
      PROVE  FlockInv'
  <2>1. \A p \in Operations \ {o} : op'[p] = op[p]
    BY <1>4 DEF Operate, IdentifyLock, LockExclusive, BeginInspect, ReportLock,
                AskDaemonInfo, VerifyWriteGate, Dispatch, EndOperation
  <2>1a. \A s \in Requests : Sharing(s)' => Sharing(s) /\ Pin(s)' = Pin(s)
    BY <1>1, <1>4
  <2>2. op[o] \in OperationType
    OBVIOUS
  <2>3. LockExclusive(o) \/ op'[o].held \in {op[o].held, None}
    <3>1. CASE VerifyWriteGate(o)
      BY <2>2, <3>1 DEF VerifyWriteGate, OperationType, Rest
    <3>1a. ASSUME NEW d \in Daemons, AskDaemonInfo(o, d) PROVE op'[o].held = op[o].held
      BY <2>2, <3>1a DEF AskDaemonInfo, OperationType
    <3>2. CASE IdentifyLock(o) \/ BeginInspect(o) \/ ReportLock(o)
      BY <2>2, <3>2 DEF IdentifyLock, BeginInspect, ReportLock, OperationType
    <3>3. CASE Dispatch(o) \/ EndOperation(o)
      BY <2>2, <3>3 DEF Dispatch, EndOperation, OperationType, Rest
    <3> QED
      BY <1>4, <3>1, <3>1a, <3>2, <3>3 DEF Operate
  <2>4. CASE LockExclusive(o)
    <3>1. /\ op'[o].held = lockFile
          /\ \A p \in Operations : op[p].held # lockFile
          /\ \A s \in Requests : Sharing(s) => Pin(s) # lockFile
      BY <2>2, <2>4 DEF LockExclusive, Holders, Sharers, OperationType
    <3>2. ASSUME NEW p \in Operations, NEW s \in Requests, Sharing(s)', op'[p].held # None
          PROVE  Pin(s)' # op'[p].held
      BY <2>1, <2>1a, <3>1, <3>2 DEF FlockInv
    <3>3. ASSUME NEW p \in Operations, NEW q \in Operations,
                 op'[p].held # None, op'[p].held = op'[q].held
          PROVE  p = q
      <4>1. p = o <=> q = o
        BY <2>1, <3>1, <3>3
      <4> QED
        BY <2>1, <3>3, <4>1 DEF FlockInv
    <3> QED
      BY <3>2, <3>3 DEF FlockInv
  <2>5. CASE op'[o].held \in {op[o].held, None}
    <3>1. \A p \in Operations : op'[p].held \in {op[p].held, None}
      BY <2>1, <2>5
    <3>2. ASSUME NEW p \in Operations, NEW s \in Requests, Sharing(s)', op'[p].held # None
          PROVE  Pin(s)' # op'[p].held
      BY <2>1a, <3>1, <3>2 DEF FlockInv
    <3>3. ASSUME NEW p \in Operations, NEW q \in Operations,
                 op'[p].held # None, op'[p].held = op'[q].held
          PROVE  p = q
      BY <3>1, <3>3 DEF FlockInv
    <3> QED
      BY <3>2, <3>3 DEF FlockInv
  <2> QED
    BY <2>3, <2>4, <2>5
<1>5. ASSUME NEW r \in Requests, LockShared(r) PROVE op' = op
  BY <1>5 DEF LockShared
<1> QED
  BY <1>2, <1>3, <1>4, OthersLeaveOp, SharingSteps

-----------------------------------------------------------------------------
(* The queue of the main loop. *)

(* Entries of other requests are kept, and so is every queued request's     *)
(* event.                                                                   *)
LEMMA QueueFrame ==
  ASSUME QueueInv, queue' = queue, daemon' = daemon,
         \A r \in Requests : "event" \in req[r].refs
            => "event" \in req'[r].refs /\ req'[r].of = req[r].of,
         \A d \in Daemons : queue[d] \in Seq(Requests)
  PROVE  QueueInv'
BY DEF QueueInv

(* Every step keeps the queues in order. *)
LEMMA QueueStep ==
  ASSUME Typed, Typed', \A r \in Requests : StageInv(r), QueueInv, [Next]_vars
  PROVE  QueueInv'
<1> USE DEF Typed
<1>1. ASSUME req' = req, queue' = queue, daemon' = daemon PROVE QueueInv'
  BY <1>1, QueueFrame
<1>2. ASSUME NEW r \in Requests, "event" \notin req[r].refs,
             queue' = queue, daemon' = daemon, \A s \in Requests \ {r} : req'[s] = req[s]
      PROVE  QueueInv'
  BY <1>2, QueueFrame
<1>3. ASSUME NEW r \in Requests, NEW ref, ref # "event", DropRef(r, ref),
             queue' = queue, daemon' = daemon
      PROVE  QueueInv'
  <2>1. \A s \in Requests \ {r} : req'[s] = req[s]
    BY <1>3 DEF DropRef
  <2>2. CASE req[r].refs = {ref}
    BY <1>2, <1>3, <2>1, <2>2
  <2>3. CASE req[r].refs # {ref}
    <3>1. req'[r].of = req[r].of /\ req'[r].refs = req[r].refs \ {ref}
      BY <1>3, <2>3 DEF DropRef, RequestType
    <3> QED
      BY <1>3, <2>1, <3>1, QueueFrame
  <2> QED
    BY <2>2, <2>3
<1>4. ASSUME NEW r \in Requests, NEW d \in Daemons, req[r].of = d, "event" \notin req[r].refs,
             daemon[d] = "serving", daemon' = daemon,
             queue' = [queue EXCEPT ![d] = Append(@, r)],
             req'[r].of = d, "event" \in req'[r].refs,
             \A s \in Requests \ {r} : req'[s] = req[s]
      PROVE  QueueInv'
  <2>1. queue[d] \in Seq(Requests)
    OBVIOUS
  <2>2. \A i \in DOMAIN queue[d] : queue[d][i] # r
    BY <1>4 DEF QueueInv
  <2>3. /\ DOMAIN queue'[d] = 1 .. Len(queue[d]) + 1
        /\ \A i \in DOMAIN queue[d] : queue'[d][i] = queue[d][i]
        /\ queue'[d][Len(queue[d]) + 1] = r
        /\ DOMAIN queue[d] = 1 .. Len(queue[d])
        /\ Len(queue[d]) \in Nat
    BY <1>4, <2>1
  <2>4. \A i \in DOMAIN queue'[d] :
           /\ req'[queue'[d][i]].of = d /\ "event" \in req'[queue'[d][i]].refs
           /\ \A j \in DOMAIN queue'[d] : queue'[d][i] = queue'[d][j] => i = j
    <3>1. \A i \in DOMAIN queue'[d] : i \in DOMAIN queue[d] \/ i = Len(queue[d]) + 1
      BY <2>3
    <3>2. \A i \in DOMAIN queue[d] : queue[d][i] \in Requests
      BY <2>1
    <3>3. \A i \in DOMAIN queue[d] :
             /\ req[queue[d][i]].of = d /\ "event" \in req[queue[d][i]].refs
             /\ \A j \in DOMAIN queue[d] : queue[d][i] = queue[d][j] => i = j
      BY DEF QueueInv
    <3> QED
      BY <1>4, <2>2, <2>3, <3>1, <3>2, <3>3
  <2>5. \A e \in Daemons \ {d} : queue'[e] = queue[e]
    BY <1>4
  <2>6. ASSUME NEW e \in Daemons \ {d}, NEW i \in DOMAIN queue[e]
        PROVE  queue[e][i] \in Requests \ {r} /\ req[queue[e][i]].of = e
    <3>1. queue[e][i] \in Requests
      OBVIOUS
    <3> QED
      BY <1>4, <3>1 DEF QueueInv
  <2> QED
    BY <1>4, <2>4, <2>5, <2>6 DEF QueueInv
<1>5. ASSUME NEW r \in Requests, Guard(r) PROVE QueueInv'
  <2>1. /\ queue' = queue /\ daemon' = daemon
        /\ \A s \in Requests \ {r} : req'[s] = req[s]
        /\ req[r].at \notin {"granted", "handled"}
    BY <1>5 DEF Guard, OpenLockFile, PinIdentity, OpenShared, LockShared, VerifyShared, Refuse, Refused
  <2>2. req[r].refs = {}
    BY <2>1 DEF StageInv
  <2> QED
    BY <1>2, <2>1, <2>2
<1>6. ASSUME NEW r \in Requests, Work(r) PROVE QueueInv'
  <2>0. StageInv(r) /\ req[r] \in RequestType
    OBVIOUS
  <2>1. CASE HandleSave(r)
    <3>1. /\ req[r].at = "granted" /\ req[r].refs = {"handler"} /\ req[r].of \in Daemons
          /\ daemon' = daemon /\ \A s \in Requests \ {r} : req'[s] = req[s]
      BY <2>0, <2>1 DEF HandleSave, StageInv
    <3>2. CASE UNCHANGED queue
      BY <1>2, <3>1, <3>2
    <3>3. CASE /\ daemon[req[r].of] = "serving"
               /\ queue' = [queue EXCEPT ![req[r].of] = Append(@, r)]
               /\ req' = [req EXCEPT ![r].at = "handled", ![r].refs = {"handler", "event"}]
      <4>1. req'[r].of = req[r].of /\ "event" \in req'[r].refs
        BY <2>0, <3>3 DEF RequestType
      <4>2. "event" \notin req[r].refs
        BY <3>1
      <4> QED
        BY <1>4, <3>1, <3>3, <4>1, <4>2
    <3> QED
      BY <2>1, <3>2, <3>3 DEF HandleSave
  <2>2. CASE HandleBulk(r)
    <3>1. "event" \notin req[r].refs
      BY <2>0, <2>2 DEF HandleBulk, StageInv
    <3> QED
      BY <1>2, <2>2, <3>1 DEF HandleBulk
  <2>3. CASE Reply(r)
    BY <1>3, <2>3 DEF Reply
  <2>4. CASE FinishWorker(r)
    <3>1. /\ req[r].refs \subseteq {"handler", "worker"} /\ req[r].of \in Daemons
          /\ daemon' = daemon
      BY <2>0, <2>4, UnderWay DEF FinishWorker, StageInv
    <3>2. CASE DropRef(r, "worker") /\ UNCHANGED queue
      BY <1>3, <3>1, <3>2
    <3>3. CASE /\ daemon[req[r].of] = "serving"
               /\ queue' = [queue EXCEPT ![req[r].of] = Append(@, r)]
               /\ req' = [req EXCEPT ![r].refs = (@ \ {"worker"}) \cup {"event"}]
      <4>1. req'[r].of = req[r].of /\ "event" \in req'[r].refs
        BY <2>0, <3>3 DEF RequestType
      <4>2. \A s \in Requests \ {r} : req'[s] = req[s]
        BY <3>3
      <4>3. "event" \notin req[r].refs
        BY <3>1
      <4> QED
        BY <1>4, <3>1, <3>3, <4>1, <4>2, <4>3
    <3> QED
      BY <2>4, <3>2, <3>3 DEF FinishWorker
  <2>5. CASE FinishJob(r)
    BY <1>3, <2>5 DEF FinishJob
  <2>6. ASSUME NEW ref \in Refs, DropUndelivered(r, ref) PROVE QueueInv'
    <3>1. /\ queue' = queue /\ daemon' = daemon /\ daemon[req[r].of] = "draining"
          /\ \A s \in Requests \ {r} : req'[s] = req[s]
      BY <2>6 DEF DropUndelivered, DropRef
    <3>2. \A d \in Daemons : \A i \in DOMAIN queue[d] : queue[d][i] \in Requests \ {r}
      <4>1. \A d \in Daemons : \A i \in DOMAIN queue[d] :
               queue[d][i] \in Requests /\ req[queue[d][i]].of = d /\ daemon[d] = "serving"
        BY DEF QueueInv
      <4> QED
        BY <3>1, <4>1
    <3> QED
      BY <3>1, <3>2 DEF QueueInv
  <2> QED
    BY <1>6, <2>1, <2>2, <2>3, <2>4, <2>5, <2>6 DEF Work
<1>7. ASSUME NEW r \in Requests, NEW d \in Daemons, NEW kind \in Kinds, Reserve(r, d, kind)
      PROVE  QueueInv'
  <2>1. req[r].refs = {}
    BY <1>7 DEF Reserve, StageInv
  <2> QED
    BY <1>2, <1>7, <2>1 DEF Reserve
<1>8. ASSUME NEW d \in Daemons, ApplyEvent(d) PROVE QueueInv'
  <2>1. PICK r \in Requests : r = Head(queue[d])
    BY <1>8 DEF ApplyEvent
  <2>2. /\ queue[d] \in Seq(Requests) /\ queue[d] # <<>>
        /\ queue' = [queue EXCEPT ![d] = Tail(@)] /\ daemon' = daemon
        /\ \A s \in Requests \ {r} : req'[s] = req[s]
    BY <1>8, <2>1 DEF ApplyEvent, DropRef
  <2>3. /\ DOMAIN queue[d] = 1 .. Len(queue[d]) /\ Len(queue[d]) \in Nat
        /\ 1 \in DOMAIN queue[d] /\ queue[d][1] = r
        /\ DOMAIN queue'[d] = 1 .. Len(queue[d]) - 1
        /\ \A i \in DOMAIN queue'[d] : queue'[d][i] = queue[d][i + 1]
    BY <2>1, <2>2
  <2>4. /\ req[r].of = d
        /\ \A i \in DOMAIN queue[d] :
              /\ queue[d][i] \in Requests
              /\ req[queue[d][i]].of = d /\ "event" \in req[queue[d][i]].refs
              /\ queue[d][i] = r => i = 1
              /\ \A j \in DOMAIN queue[d] : queue[d][i] = queue[d][j] => i = j
    <3>1. \A i \in DOMAIN queue[d] : queue[d][i] \in Requests
      BY <2>2
    <3>2. \A i \in DOMAIN queue[d] :
             /\ req[queue[d][i]].of = d /\ "event" \in req[queue[d][i]].refs
             /\ \A j \in DOMAIN queue[d] : queue[d][i] = queue[d][j] => i = j
      BY DEF QueueInv
    <3> QED
      BY <2>3, <3>1, <3>2
  <2>5. \A i \in DOMAIN queue'[d] :
           /\ req'[queue'[d][i]].of = d /\ "event" \in req'[queue'[d][i]].refs
           /\ \A j \in DOMAIN queue'[d] : queue'[d][i] = queue'[d][j] => i = j
    <3>1. \A i \in DOMAIN queue'[d] : i \in Nat /\ i >= 1 /\ i + 1 \in DOMAIN queue[d]
      BY <2>3
    <3>2. \A i \in DOMAIN queue'[d] : queue'[d][i] \in Requests \ {r}
      BY <2>3, <2>4, <3>1
    <3>3. \A i \in DOMAIN queue'[d] :
             req'[queue'[d][i]].of = d /\ "event" \in req'[queue'[d][i]].refs
      BY <2>2, <2>3, <2>4, <3>1, <3>2
    <3>4. ASSUME NEW i \in DOMAIN queue'[d], NEW j \in DOMAIN queue'[d],
                 queue'[d][i] = queue'[d][j]
          PROVE  i = j
      BY <2>3, <2>4, <3>1, <3>4
    <3> QED
      BY <3>3, <3>4
  <2>6. ASSUME NEW e \in Daemons \ {d}, NEW i \in DOMAIN queue[e]
        PROVE  queue[e][i] \in Requests \ {r} /\ req[queue[e][i]].of = e
    <3>1. queue[e][i] \in Requests
      OBVIOUS
    <3> QED
      BY <2>4, <3>1 DEF QueueInv
  <2>7. daemon[d] = "serving"
    BY <1>8 DEF ApplyEvent
  <2> QED
    BY <2>2, <2>5, <2>6, <2>7 DEF QueueInv
<1>9. ASSUME NEW d \in Daemons, StartDaemon(d) PROVE QueueInv'
  BY <1>9 DEF StartDaemon, QueueInv
<1>10. ASSUME NEW d \in Daemons, BeginShutdown(d) PROVE QueueInv'
  BY <1>10 DEF BeginShutdown, QueueInv
<1>11. ASSUME NEW d \in Daemons, Exit(d) PROVE QueueInv'
  <2>1. queue'[d] = <<>> /\ \A e \in Daemons \ {d} : queue'[e] = queue[e] /\ daemon'[e] = daemon[e]
    BY <1>11 DEF Exit
  <2>2. ASSUME NEW e \in Daemons \ {d}, NEW i \in DOMAIN queue[e]
        PROVE  queue[e][i] \in Requests /\ req'[queue[e][i]] = req[queue[e][i]]
    <3>1. queue[e][i] \in Requests
      OBVIOUS
    <3>2. req[queue[e][i]].of = e
      BY DEF QueueInv
    <3> QED
      BY <1>11, <3>1, <3>2 DEF Exit
  <2> QED
    BY <2>1, <2>2 DEF QueueInv
<1>12. ASSUME NEW o \in Operations, Operate(o) PROVE req' = req /\ queue' = queue /\ daemon' = daemon
  BY <1>12 DEF Operate, IdentifyLock, LockExclusive, BeginInspect, ReportLock, AskDaemonInfo,
               VerifyWriteGate, Dispatch, EndOperation
<1>13. ReplaceLockFile \/ UNCHANGED vars => req' = req /\ queue' = queue /\ daemon' = daemon
  BY DEF ReplaceLockFile, vars
<1>14. ASSUME NEW d \in Daemons, ApplyReload(d) \/ MigrateLater(d)
       PROVE  req' = req /\ queue' = queue /\ daemon' = daemon
  BY <1>14, ReloadSteps
<1> QED
  BY <1>1, <1>5, <1>6, <1>7, <1>8, <1>9, <1>10, <1>11, <1>12, <1>13, <1>14 DEF Next, Loop

-----------------------------------------------------------------------------
(* The slots. *)

(* The counts are natural numbers. *)
LEMMA TakingFinite ==
  ASSUME NEW d, NEW kind
  PROVE  IsFiniteSet(Taking(d, kind)) /\ Cardinality(Taking(d, kind)) \in Nat
<1>1. Taking(d, kind) \in SUBSET Requests
  BY DEF Taking
<1>2. IsFiniteSet(Taking(d, kind))
  BY <1>1, GateAssumption, FS_Subset
<1> QED
  BY <1>2, FS_CardinalityType

(* A step that neither starts nor ends a request changes no count. *)
LEMMA SlotsFrame ==
  ASSUME SlotsInv, pending' = pending,
         \A r \in Requests : req'[r].of = req[r].of /\ req'[r].kind = req[r].kind
  PROVE  SlotsInv'
<1>1. \A d \in Daemons, kind \in Kinds : Taking(d, kind)' = Taking(d, kind)
  BY DEF Taking
<1> QED
  BY <1>1 DEF SlotsInv, SlotsBalanced, Kinds

(* A request that ends returns what it took. *)
LEMMA SlotsReturn ==
  ASSUME Typed, SlotsInv, NEW r \in Requests, StageInv(r), req[r].at # "idle",
         req' = [req EXCEPT ![r] = Idle],
         pending' = [pending EXCEPT ![req[r].of] = @ - Cost(req[r].kind)]
  PROVE  SlotsInv'
<1> DEFINE d == req[r].of
           k == req[r].kind
<1>1. d \in Daemons /\ k \in Kinds /\ pending \in [Daemons -> Int]
  BY UnderWay DEF Typed
<1>2. ASSUME NEW e \in Daemons, NEW kind \in Kinds
      PROVE  Taking(e, kind)' = Taking(e, kind) \ {r}
  BY <1>2, GateAssumption DEF Taking, Typed, Idle
<1>3. ASSUME NEW e \in Daemons, NEW kind \in Kinds
      PROVE  Cardinality(Taking(e, kind))' =
                IF e = req[r].of /\ kind = req[r].kind THEN Cardinality(Taking(e, kind)) - 1
                                     ELSE Cardinality(Taking(e, kind))
  <2>1. r \in Taking(e, kind) <=> e = req[r].of /\ kind = req[r].kind
    BY DEF Taking
  <2> QED
    BY <1>2, <2>1, TakingFinite, FS_RemoveElement
<1>4. ASSUME NEW e \in Daemons
      PROVE  /\ pending'[e] = Cardinality(Taking(e, "save"))' +
                                 MaxPending * Cardinality(Taking(e, "bulk"))'
             /\ pending'[e] <= MaxPending
  <2> DEFINE saves == Cardinality(Taking(e, "save"))
             bulks == Cardinality(Taking(e, "bulk"))
  <2>1. saves \in Nat /\ bulks \in Nat /\ MaxPending \in Nat
    BY TakingFinite, GateAssumption
  <2>2. pending[e] = saves + MaxPending * bulks /\ pending[e] <= MaxPending
    BY DEF SlotsInv, SlotsBalanced
  <2>3. CASE e # req[r].of
    BY <1>1, <1>3, <2>2, <2>3 DEF Kinds
  <2>4. CASE e = req[r].of /\ req[r].kind = "save"
    <3>1. pending'[e] = pending[e] - 1
      BY <1>1, <2>4 DEF Cost
    <3>2. Cardinality(Taking(e, "save"))' = saves - 1 /\ Cardinality(Taking(e, "bulk"))' = bulks
      BY <1>3, <2>4 DEF Kinds
    <3> QED
      BY <1>1, <2>1, <2>2, <3>1, <3>2
  <2>5. CASE e = req[r].of /\ req[r].kind = "bulk"
    <3>1. pending'[e] = pending[e] - MaxPending
      BY <1>1, <2>5 DEF Cost
    <3>2. Cardinality(Taking(e, "save"))' = saves /\ Cardinality(Taking(e, "bulk"))' = bulks - 1
      BY <1>3, <2>5 DEF Kinds
    <3>3. MaxPending * (bulks - 1) = MaxPending * bulks - MaxPending
      BY <2>1
    <3> QED
      BY <1>1, <2>1, <2>2, <3>1, <3>2, <3>3
  <2> QED
    BY <1>1, <2>3, <2>4, <2>5 DEF Kinds
<1> QED
  BY <1>4 DEF SlotsInv, SlotsBalanced

(* Dropping a reference returns the slots with the last one only. *)
LEMMA SlotsDrop ==
  ASSUME Typed, SlotsInv, NEW r \in Requests, StageInv(r), NEW ref, DropRef(r, ref)
  PROVE  SlotsInv'
<1>1. CASE req[r].refs = {ref}
  <2>1. req[r].at # "idle"
    BY <1>1, UnderWay
  <2> QED
    BY <1>1, <2>1, SlotsReturn DEF DropRef
<1>2. CASE req[r].refs # {ref}
  <2>1. req'[r].of = req[r].of /\ req'[r].kind = req[r].kind /\ pending' = pending
    BY <1>2 DEF DropRef, Typed, RequestType
  <2>2. \A s \in Requests \ {r} : req'[s] = req[s]
    BY <1>2 DEF DropRef, Typed
  <2> QED
    BY <2>1, <2>2, SlotsFrame
<1> QED
  BY <1>1, <1>2

(* A reservation takes its cost, and only if it is free. *)
LEMMA SlotsReserve ==
  ASSUME Typed, SlotsInv, NEW r \in Requests, StageInv(r),
         NEW d \in Daemons, NEW kind \in Kinds, Reserve(r, d, kind)
  PROVE  SlotsInv'
<1>1. /\ req' = [req EXCEPT ![r] = [Idle EXCEPT !.at = "opening", !.of = d, !.kind = kind]]
      /\ pending' = [pending EXCEPT ![d] = @ + Cost(kind)]
      /\ pending[d] + Cost(kind) <= MaxPending
      /\ pending \in [Daemons -> Int]
  BY DEF Reserve, Typed
<1>2. req'[r].of = d /\ req'[r].kind = kind /\ req[r].of = None
  BY <1>1 DEF Reserve, StageInv, Idle, Typed
<1>3. ASSUME NEW e \in Daemons, NEW k \in Kinds
      PROVE  Cardinality(Taking(e, k))' =
                IF e = d /\ k = kind THEN Cardinality(Taking(e, k)) + 1
                                     ELSE Cardinality(Taking(e, k))
  <2>1. r \notin Taking(e, k)
    BY <1>2, GateAssumption DEF Taking
  <2>2. CASE e = d /\ k = kind
    <3>1. Taking(e, k)' = Taking(e, k) \cup {r}
      BY <1>1, <1>2, <2>2 DEF Taking, Typed
    <3> QED
      BY <2>1, <2>2, <3>1, TakingFinite, FS_AddElement
  <2>3. CASE ~(e = d /\ k = kind)
    <3>1. Taking(e, k)' = Taking(e, k)
      BY <1>1, <1>2, <2>1, <2>3 DEF Taking, Typed
    <3> QED
      BY <2>3, <3>1
  <2> QED
    BY <2>2, <2>3
<1>4. ASSUME NEW e \in Daemons
      PROVE  /\ pending'[e] = Cardinality(Taking(e, "save"))' +
                                 MaxPending * Cardinality(Taking(e, "bulk"))'
             /\ pending'[e] <= MaxPending
  <2> DEFINE saves == Cardinality(Taking(e, "save"))
             bulks == Cardinality(Taking(e, "bulk"))
  <2>1. saves \in Nat /\ bulks \in Nat /\ MaxPending \in Nat
    BY TakingFinite, GateAssumption
  <2>2. pending[e] = saves + MaxPending * bulks /\ pending[e] <= MaxPending
    BY DEF SlotsInv, SlotsBalanced
  <2>3. CASE e # d
    BY <1>1, <1>3, <2>2, <2>3 DEF Kinds
  <2>4. CASE e = d /\ kind = "save"
    <3>1. pending'[e] = pending[e] + 1 /\ pending[e] + 1 <= MaxPending
      BY <1>1, <2>4 DEF Cost
    <3>2. Cardinality(Taking(e, "save"))' = saves + 1 /\ Cardinality(Taking(e, "bulk"))' = bulks
      BY <1>3, <2>4 DEF Kinds
    <3> QED
      BY <1>1, <2>1, <2>2, <3>1, <3>2
  <2>5. CASE e = d /\ kind = "bulk"
    <3>1. pending'[e] = pending[e] + MaxPending /\ pending[e] + MaxPending <= MaxPending
      BY <1>1, <2>5 DEF Cost
    <3>2. Cardinality(Taking(e, "save"))' = saves /\ Cardinality(Taking(e, "bulk"))' = bulks + 1
      BY <1>3, <2>5 DEF Kinds
    <3>3. MaxPending * (bulks + 1) = MaxPending * bulks + MaxPending
      BY <2>1
    <3> QED
      BY <1>1, <2>1, <2>2, <3>1, <3>2, <3>3
  <2> QED
    BY <2>3, <2>4, <2>5 DEF Kinds
<1> QED
  BY <1>4 DEF SlotsInv, SlotsBalanced

(* Every step keeps the counter balanced. *)
LEMMA SlotsStep ==
  ASSUME Typed, \A r \in Requests : StageInv(r), QueueInv, SlotsInv, [Next]_vars
  PROVE  SlotsInv'
<1> USE DEF Typed
<1>1. ASSUME NEW r \in Requests, Guard(r) PROVE SlotsInv'
  <2>1. CASE Refuse(r)
    BY <2>1, SlotsReturn DEF Refuse, Refused
  <2>2. CASE OpenLockFile(r) \/ PinIdentity(r)
    <3>1. req'[r].of = req[r].of /\ req'[r].kind = req[r].kind /\ pending' = pending
      BY <2>2 DEF OpenLockFile, PinIdentity, RequestType
    <3>2. \A s \in Requests \ {r} : req'[s] = req[s]
      BY <2>2 DEF OpenLockFile, PinIdentity
    <3> QED
      BY <3>1, <3>2, SlotsFrame
  <2>3. CASE OpenShared(r) \/ LockShared(r)
    <3>1. req'[r].of = req[r].of /\ req'[r].kind = req[r].kind /\ pending' = pending
      BY <2>3 DEF OpenShared, LockShared, RequestType
    <3>2. \A s \in Requests \ {r} : req'[s] = req[s]
      BY <2>3 DEF OpenShared, LockShared
    <3> QED
      BY <3>1, <3>2, SlotsFrame
  <2>4. CASE VerifyShared(r)
    BY <2>4, SlotsFrame DEF VerifyShared, RequestType
  <2> QED
    BY <1>1, <2>1, <2>2, <2>3, <2>4 DEF Guard
<1>2. ASSUME NEW r \in Requests, Work(r) PROVE SlotsInv'
  <2>1. CASE HandleSave(r)
    <3>1. req'[r].of = req[r].of /\ req'[r].kind = req[r].kind /\ pending' = pending
      BY <2>1 DEF HandleSave, RequestType
    <3>2. \A s \in Requests \ {r} : req'[s] = req[s]
      BY <2>1 DEF HandleSave
    <3> QED
      BY <3>1, <3>2, SlotsFrame
  <2>2. CASE HandleBulk(r)
    BY <2>2, SlotsFrame DEF HandleBulk, RequestType
  <2>3. CASE Reply(r)
    BY <2>3, SlotsDrop DEF Reply
  <2>4. CASE FinishWorker(r)
    <3>1. CASE DropRef(r, "worker")
      BY <3>1, SlotsDrop
    <3>2. CASE /\ req' = [req EXCEPT ![r].refs = (@ \ {"worker"}) \cup {"event"}]
               /\ UNCHANGED pending
      BY <3>2, SlotsFrame DEF RequestType
    <3> QED
      BY <2>4, <3>1, <3>2 DEF FinishWorker
  <2>5. CASE FinishJob(r)
    BY <2>5, SlotsDrop DEF FinishJob
  <2>6. ASSUME NEW ref \in Refs, DropUndelivered(r, ref) PROVE SlotsInv'
    BY <2>6, SlotsDrop DEF DropUndelivered
  <2> QED
    BY <1>2, <2>1, <2>2, <2>3, <2>4, <2>5, <2>6 DEF Work
<1>3. ASSUME NEW r \in Requests, NEW d \in Daemons, NEW kind \in Kinds, Reserve(r, d, kind)
      PROVE  SlotsInv'
  BY <1>3, SlotsReserve
<1>4. ASSUME NEW d \in Daemons, ApplyEvent(d) PROVE SlotsInv'
  <2>1. PICK r \in Requests : r = Head(queue[d])
    BY <1>4 DEF ApplyEvent
  <2>2. CASE DropRef(r, "event")
    BY <2>2, SlotsDrop
  <2>3. CASE /\ req' = [req EXCEPT ![r].refs = (@ \ {"event"}) \cup {"job"}]
             /\ UNCHANGED pending
    BY <2>3, SlotsFrame DEF RequestType
  <2> QED
    BY <1>4, <2>1, <2>2, <2>3 DEF ApplyEvent
<1>5. ASSUME NEW d \in Daemons, Exit(d) PROVE SlotsInv'
  <2>1. \A kind \in Kinds : Taking(d, kind)' = {}
    BY <1>5, GateAssumption DEF Exit, Taking, Idle
  <2>2. \A kind \in Kinds : Cardinality(Taking(d, kind))' = 0
    BY <2>1, FS_EmptySet
  <2>3. \A e \in Daemons \ {d}, kind \in Kinds : Taking(e, kind)' = Taking(e, kind)
    BY <1>5, GateAssumption DEF Exit, Taking, Idle
  <2>4. pending'[d] = 0 /\ \A e \in Daemons \ {d} : pending'[e] = pending[e]
    BY <1>5 DEF Exit
  <2>5. MaxPending \in Nat
    BY GateAssumption
  <2>6. ASSUME NEW e \in Daemons \ {d}
        PROVE  /\ pending'[e] = Cardinality(Taking(e, "save"))' +
                                   MaxPending * Cardinality(Taking(e, "bulk"))'
               /\ pending'[e] <= MaxPending
    BY <2>3, <2>4 DEF SlotsInv, SlotsBalanced, Kinds
  <2>7. /\ pending'[d] = Cardinality(Taking(d, "save"))' +
                            MaxPending * Cardinality(Taking(d, "bulk"))'
        /\ pending'[d] <= MaxPending
    BY <2>2, <2>4, <2>5 DEF Kinds
  <2> QED
    BY <2>6, <2>7 DEF SlotsInv, SlotsBalanced
<1>6. ASSUME NEW d \in Daemons,
             ApplyReload(d) \/ MigrateLater(d) \/ StartDaemon(d) \/ BeginShutdown(d)
      PROVE  req' = req /\ pending' = pending
  BY <1>6, ReloadSteps DEF StartDaemon, BeginShutdown
<1>7. ASSUME NEW o \in Operations, Operate(o) PROVE req' = req /\ pending' = pending
  BY <1>7 DEF Operate, IdentifyLock, LockExclusive, BeginInspect, ReportLock, AskDaemonInfo,
              VerifyWriteGate, Dispatch, EndOperation
<1>8. ReplaceLockFile \/ UNCHANGED vars => req' = req /\ pending' = pending
  BY DEF ReplaceLockFile, vars
<1>9. req' = req /\ pending' = pending => SlotsInv'
  BY SlotsFrame
<1> QED
  BY <1>1, <1>2, <1>3, <1>4, <1>5, <1>6, <1>7, <1>8, <1>9 DEF Next, Loop

-----------------------------------------------------------------------------
(* Reloads that wait. *)

(* Giving up another reference leaves the jobs alone. *)
LEMMA JobsKept ==
  ASSUME Typed, NEW r \in Requests, NEW ref, ref # "job", DropRef(r, ref)
  PROVE  \A s \in Requests : "job" \in req[s].refs
            => "job" \in req'[s].refs /\ req'[s].of = req[s].of
<1>1. req[r] \in RequestType
  BY DEF Typed
<1>2. CASE req[r].refs = {ref}
  <2>1. "job" \notin req[r].refs
    BY <1>2
  <2>2. \A s \in Requests \ {r} : req'[s] = req[s]
    BY <1>2 DEF DropRef, Typed
  <2> QED
    BY <2>1, <2>2
<1>3. CASE req[r].refs # {ref}
  <2>1. req'[r].refs = req[r].refs \ {ref} /\ req'[r].of = req[r].of
    BY <1>1, <1>3 DEF DropRef, Typed, RequestType
  <2>2. \A s \in Requests \ {r} : req'[s] = req[s]
    BY <1>3 DEF DropRef, Typed
  <2> QED
    BY <2>1, <2>2
<1> QED
  BY <1>2, <1>3

(* While jobs go on and nothing more is put off, what waits is in order. *)
LEMMA ReloadFrame ==
  ASSUME NEW d \in Daemons, ReloadInv(d), daemon'[d] = daemon[d],
         reload'[d] \subseteq reload[d] \cup {"later"},
         reload'[d] # {} => daemon[d] = "serving",
         \A s \in Requests : "job" \in req[s].refs
            => "job" \in req'[s].refs /\ req'[s].of = req[s].of
  PROVE  ReloadInv(d)'
BY DEF ReloadInv, Uploading

(* Every step keeps the reloads in order. *)
LEMMA ReloadStep ==
  ASSUME Typed, \A r \in Requests : StageInv(r), QueueInv,
         \A d \in Daemons : ReloadInv(d), [Next]_vars
  PROVE  \A d \in Daemons : ReloadInv(d)'
<1> USE DEF Typed
<1> DEFINE Goal == \A d \in Daemons : ReloadInv(d)'
           Kept == \A s \in Requests : "job" \in req[s].refs
                      => "job" \in req'[s].refs /\ req'[s].of = req[s].of
<1>1. ASSUME reload' = reload, daemon' = daemon, Kept PROVE Goal
  <2>1. ASSUME NEW d \in Daemons PROVE ReloadInv(d)'
    <3>1. reload[d] # {} => daemon[d] = "serving"
      BY DEF ReloadInv
    <3> QED
      BY <1>1, <3>1, ReloadFrame
  <2> QED
    BY <2>1
<1>2. ASSUME NEW r \in Requests, "job" \notin req[r].refs,
             \A s \in Requests \ {r} : req'[s] = req[s]
      PROVE  Kept
  BY <1>2
<1>3. ASSUME NEW r \in Requests, Guard(r) PROVE Goal
  <2>1. /\ reload' = reload /\ daemon' = daemon
        /\ \A s \in Requests \ {r} : req'[s] = req[s]
        /\ req[r].at \notin {"granted", "handled"}
    BY <1>3 DEF Guard, OpenLockFile, PinIdentity, OpenShared, LockShared, VerifyShared, Refuse, Refused
  <2>2. req[r].refs = {}
    BY <2>1 DEF StageInv
  <2> QED
    BY <1>1, <1>2, <2>1, <2>2
<1>4. ASSUME NEW r \in Requests, Work(r) PROVE Goal
  <2>1. CASE HandleSave(r) \/ HandleBulk(r)
    <3>1. /\ reload' = reload /\ daemon' = daemon /\ req[r].at = "granted"
          /\ \A s \in Requests \ {r} : req'[s] = req[s]
      BY <2>1 DEF HandleSave, HandleBulk
    <3>2. "job" \notin req[r].refs
      BY <3>1 DEF StageInv
    <3> QED
      BY <1>1, <1>2, <3>1, <3>2
  <2>2. CASE Reply(r)
    BY <1>1, <2>2, JobsKept DEF Reply
  <2>3. CASE FinishWorker(r)
    <3>1. reload' = reload /\ daemon' = daemon
      BY <2>3 DEF FinishWorker
    <3>2. "job" \notin req[r].refs
      BY <2>3 DEF FinishWorker, StageInv
    <3>3. \A s \in Requests \ {r} : req'[s] = req[s]
      BY <2>3 DEF FinishWorker, DropRef
    <3> QED
      BY <1>1, <1>2, <3>1, <3>2, <3>3
  <2>4. CASE FinishJob(r)
    <3>1. /\ daemon' = daemon /\ DropRef(r, "job") /\ daemon[req[r].of] = "serving"
          /\ req[r].of \in Daemons
      BY <2>4, UnderWay DEF FinishJob
    <3>2. \A d \in Daemons \ {req[r].of} : reload'[d] = reload[d]
      BY <2>4 DEF FinishJob
    <3>3. "upload" \notin reload'[req[r].of]
      BY <2>4, <3>1 DEF FinishJob
    <3>4. \A s \in Requests \ {r} : req'[s] = req[s]
      BY <3>1 DEF DropRef
    <3>5. ASSUME NEW d \in Daemons \ {req[r].of} PROVE ReloadInv(d)'
      <4>1. Uploading(d) => Uploading(d)'
        BY <3>4 DEF Uploading
      <4> QED
        BY <3>1, <3>2, <4>1 DEF ReloadInv
    <3> QED
      BY <3>1, <3>3, <3>5 DEF ReloadInv
  <2>5. ASSUME NEW ref \in Refs, DropUndelivered(r, ref) PROVE Goal
    <3>1. /\ daemon' = daemon /\ reload' = reload /\ daemon[req[r].of] = "draining"
          /\ \A s \in Requests \ {r} : req'[s] = req[s]
      BY <2>5 DEF DropUndelivered, DropRef
    <3>2. ASSUME NEW d \in Daemons PROVE ReloadInv(d)'
      <4>1. CASE d = req[r].of
        BY <3>1, <4>1 DEF ReloadInv
      <4>2. CASE d # req[r].of
        <5>1. Uploading(d) => Uploading(d)'
          BY <3>1, <4>2 DEF Uploading
        <5> QED
          BY <3>1, <5>1 DEF ReloadInv
      <4> QED
        BY <4>1, <4>2
    <3> QED
      BY <3>2
  <2> QED
    BY <1>4, <2>1, <2>2, <2>3, <2>4, <2>5 DEF Work
<1>5. ASSUME NEW r \in Requests, NEW d \in Daemons, NEW kind \in Kinds, Reserve(r, d, kind)
      PROVE  Goal
  <2>1. req[r].refs = {}
    BY <1>5 DEF Reserve, StageInv
  <2> QED
    BY <1>1, <1>2, <1>5, <2>1 DEF Reserve
<1>6. ASSUME NEW d \in Daemons, NEW waits, waits \subseteq reload[d], Reload(d, waits),
             daemon[d] = "serving", daemon' = daemon, Kept
      PROVE  Goal
  <2>1. \A e \in Daemons \ {d} : reload'[e] = reload[e]
    BY <1>6 DEF Reload
  <2>2. \A e \in Daemons : Uploading(e) => Uploading(e)'
    BY <1>6 DEF Uploading
  <2>3. "upload" \in reload'[d] => Uploading(d)
    BY <1>6 DEF Reload
  <2> QED
    BY <1>6, <2>1, <2>2, <2>3 DEF ReloadInv
<1>7. ASSUME NEW d \in Daemons, ApplyEvent(d) PROVE Goal
  <2>1. PICK r \in Requests : r = Head(queue[d])
    BY <1>7 DEF ApplyEvent
  <2>2. daemon' = daemon /\ daemon[d] = "serving"
    BY <1>7 DEF ApplyEvent
  <2>3. CASE DropRef(r, "event")
    <3>1. Kept
      BY <2>3, JobsKept
    <3>2. reload' = reload \/ Reload(d, reload[d])
      BY <1>7 DEF ApplyEvent
    <3> QED
      BY <1>1, <1>6, <2>2, <3>1, <3>2
  <2>4. CASE /\ req' = [req EXCEPT ![r].refs = (@ \ {"event"}) \cup {"job"}]
             /\ UNCHANGED <<pending, reload>>
    <3>1. req[r] \in RequestType
      OBVIOUS
    <3>2. "job" \in req'[r].refs /\ req'[r].of = req[r].of
      BY <2>4, <3>1 DEF RequestType
    <3>3. Kept
      BY <2>4, <3>2
    <3> QED
      BY <1>1, <2>2, <2>4, <3>3
  <2> QED
    BY <1>7, <2>1, <2>3, <2>4 DEF ApplyEvent
<1>8. ASSUME NEW d \in Daemons, ApplyReload(d) PROVE Goal
  <2>1. PICK waits \in {reload[d], reload[d] \ {"later"}} : Reload(d, waits)
    BY <1>8 DEF ApplyReload
  <2>2. waits \subseteq reload[d] /\ Kept /\ daemon' = daemon /\ daemon[d] = "serving"
    BY <1>8 DEF ApplyReload
  <2> QED
    BY <1>6, <2>1, <2>2
<1>9. ASSUME NEW d \in Daemons, MigrateLater(d) PROVE Goal
  <2>1. /\ daemon' = daemon /\ req' = req /\ daemon[d] = "serving" /\ Uploading(d)
        /\ \A e \in Daemons \ {d} : reload'[e] = reload[e]
    BY <1>9 DEF MigrateLater
  <2>2. \A e \in Daemons : Uploading(e) => Uploading(e)'
    BY <2>1 DEF Uploading
  <2> QED
    BY <2>1, <2>2 DEF ReloadInv
<1>10. ASSUME NEW d \in Daemons, StartDaemon(d) \/ BeginShutdown(d) PROVE Goal
  <2>1. /\ req' = req
        /\ \A e \in Daemons \ {d} : reload'[e] = reload[e] /\ daemon'[e] = daemon[e]
        /\ reload'[d] = {}
    BY <1>10 DEF StartDaemon, BeginShutdown, ReloadInv
  <2>2. \A e \in Daemons : Uploading(e) => Uploading(e)'
    BY <2>1 DEF Uploading
  <2> QED
    BY <2>1, <2>2 DEF ReloadInv
<1>11. ASSUME NEW d \in Daemons, Exit(d) PROVE Goal
  <2>1. /\ \A e \in Daemons \ {d} : reload'[e] = reload[e] /\ daemon'[e] = daemon[e]
        /\ reload'[d] = {}
        /\ \A s \in Requests : req[s].of # d => req'[s] = req[s]
    BY <1>11 DEF Exit
  <2>2. \A e \in Daemons \ {d} : Uploading(e) => Uploading(e)'
    BY <2>1 DEF Uploading
  <2> QED
    BY <2>1, <2>2 DEF ReloadInv
<1>12. ASSUME NEW o \in Operations, Operate(o)
       PROVE  req' = req /\ reload' = reload /\ daemon' = daemon
  BY <1>12 DEF Operate, IdentifyLock, LockExclusive, BeginInspect, ReportLock, AskDaemonInfo,
               VerifyWriteGate, Dispatch, EndOperation
<1>13. ReplaceLockFile \/ UNCHANGED vars => req' = req /\ reload' = reload /\ daemon' = daemon
  BY DEF ReplaceLockFile, vars
<1>14. req' = req /\ reload' = reload /\ daemon' = daemon => Goal
  BY <1>1
<1> HIDE DEF Goal
<1>15. Goal
  BY <1>3, <1>4, <1>5, <1>7, <1>8, <1>9, <1>10, <1>11, <1>12, <1>13, <1>14 DEF Next, Loop
<1> QED
  BY <1>15 DEF Goal

-----------------------------------------------------------------------------
(* The invariant and what follows from it. *)

(* The invariant holds initially. *)
LEMMA InitIInv == Init => IInv
<1> SUFFICES ASSUME Init PROVE IInv
  OBVIOUS
<1> USE GateAssumption DEF Init
<1>1. Typed
  BY IdleType DEF Typed, Lives, Inode
<1>2. \A r \in Requests : StageInv(r)
  BY DEF StageInv, Idle
<1>3. PinInv
  BY DEF PinInv
<1>4. \A o \in Operations : OperationInv(o)
  BY DEF OperationInv, Rest
<1>5. FlockInv
  BY DEF FlockInv, Rest
<1>6. QueueInv
  BY DEF QueueInv
<1>6a. \A d \in Daemons : ReloadInv(d)
  BY DEF ReloadInv
<1>7. SlotsInv
  <2>1. \A d \in Daemons, kind \in Kinds : Taking(d, kind) = {}
    BY DEF Taking, Idle
  <2>2. \A d \in Daemons, kind \in Kinds : Cardinality(Taking(d, kind)) = 0
    BY <2>1, FS_EmptySet
  <2> QED
    BY <2>2 DEF SlotsInv, SlotsBalanced, Kinds
<1> QED
  BY <1>1, <1>2, <1>3, <1>4, <1>5, <1>6, <1>6a, <1>7 DEF IInv

(* The invariant is kept by every step. *)
LEMMA StepIInv == IInv /\ [Next]_vars => IInv'
<1> SUFFICES ASSUME IInv, [Next]_vars PROVE IInv'
  OBVIOUS
<1>1. Typed'
  BY TypedStep DEF IInv
<1>2. \A r \in Requests : StageInv(r)'
  BY <1>1, StageStep DEF IInv
<1>3. PinInv'
  BY <1>1, PinSteps DEF IInv
<1>4. \A o \in Operations : OperationInv(o)'
  BY <1>1, OperationStep DEF IInv
<1>5. FlockInv'
  BY <1>1, FlockStep DEF IInv
<1>6. QueueInv'
  BY <1>1, QueueStep DEF IInv
<1>6a. \A d \in Daemons : ReloadInv(d)'
  BY ReloadStep DEF IInv
<1>7. SlotsInv'
  BY SlotsStep DEF IInv
<1> QED
  BY <1>1, <1>2, <1>3, <1>4, <1>5, <1>6, <1>6a, <1>7 DEF IInv

(* Every reachable state satisfies the invariant. *)
THEOREM GateInvariance == Spec => []IInv
BY InitIInv, StepIInv, PTL DEF Spec

(* The counter stays between zero and its limit, and all else in its type.  *)
THEOREM GateTypeCorrect == Spec => []TypeOK
<1>1. ASSUME IInv PROVE TypeOK
  <2>1. ASSUME NEW d \in Daemons PROVE pending[d] \in 0 .. MaxPending
    <3> DEFINE saves == Cardinality(Taking(d, "save"))
               bulks == Cardinality(Taking(d, "bulk"))
    <3>1. saves \in Nat /\ bulks \in Nat /\ MaxPending \in Nat
      BY TakingFinite, GateAssumption
    <3>2. pending[d] = saves + MaxPending * bulks /\ pending[d] <= MaxPending
      BY <1>1 DEF IInv, SlotsInv, SlotsBalanced
    <3>3. MaxPending * bulks \in Nat
      BY <3>1
    <3> QED
      BY <3>1, <3>2, <3>3
  <2> QED
    BY <1>1, <2>1 DEF IInv, Typed, TypeOK
<1> QED
  BY <1>1, GateInvariance, PTL

(* No path through the daemon leaks a slot of the write gate or returns one *)
(* twice.                                                                   *)
THEOREM SlotsNeverLeak == Spec => []SlotsBalanced
<1>1. IInv => SlotsBalanced
  BY DEF IInv, SlotsInv
<1> QED
  BY <1>1, GateInvariance, PTL

(* A restoration of a backup or a removal of media overlaps no other write  *)
(* of the daemon.                                                           *)
THEOREM BulkRunsAlone == Spec => []BulkAlone
<1>1. ASSUME IInv PROVE BulkAlone
  <2> SUFFICES ASSUME NEW r \in Requests, NEW s \in Requests \ {r},
                      req[r].kind = "bulk", req[s].of = req[r].of
               PROVE  FALSE
    BY DEF BulkAlone
  <2>1. req[r].of \in Daemons /\ req[s].kind \in Kinds
    <3>1. req[r].at # "idle"
      BY <1>1 DEF IInv, StageInv, Idle
    <3> QED
      BY <1>1, <3>1 DEF IInv, StageInv, Typed, RequestType
  <2> DEFINE saves == Cardinality(Taking(req[r].of, "save"))
             bulks == Cardinality(Taking(req[r].of, "bulk"))
  <2>2. saves \in Nat /\ bulks \in Nat /\ MaxPending \in Nat \ {0}
    BY TakingFinite, GateAssumption
  <2>3. saves + MaxPending * bulks <= MaxPending
    BY <1>1, <2>1 DEF IInv, SlotsInv, SlotsBalanced
  <2>4. r \in Taking(req[r].of, "bulk") /\ s \in Taking(req[r].of, req[s].kind)
    BY DEF Taking
  <2>5. bulks # 0
    BY <2>4, TakingFinite, FS_EmptySet
  <2>6. MaxPending * bulks >= MaxPending
    BY <2>2, <2>5
  <2>7. saves = 0 /\ MaxPending * bulks = MaxPending
    BY <2>2, <2>3, <2>6
  <2>8. CASE req[s].kind = "save"
    BY <2>4, <2>7, <2>8, TakingFinite, FS_EmptySet
  <2>9. CASE req[s].kind = "bulk"
    <3> DEFINE both == Taking(req[r].of, "bulk")
    <3>1. IsFiniteSet(both \ {r}) /\ Cardinality(both \ {r}) = bulks - 1
      BY <2>4, TakingFinite, FS_RemoveElement
    <3>2. s \in both \ {r}
      BY <2>4, <2>9
    <3>3. Cardinality(both \ {r}) # 0
      BY <3>1, <3>2, FS_EmptySet
    <3>4. bulks = 1
      <4>1. bulks >= 2 => MaxPending * bulks >= MaxPending + MaxPending
        BY <2>2
      <4> QED
        BY <2>2, <2>5, <2>7, <4>1
    <3> QED
      BY <3>1, <3>3, <3>4
  <2> QED
    BY <2>1, <2>8, <2>9 DEF Kinds
<1> QED
  BY <1>1, GateInvariance, PTL

(* Once a service operation acts on a daemon, no request of that daemon is  *)
(* being persisted, queued or uploading, and no reload waits for an upload, *)
(* however often the lock file was replaced.  Reloads that no permit covers *)
(* (put off for pixel cleaning, or sent after an upload) are not excluded.  *)
THEOREM WritesKeptOut == Spec => []NoWriteWhileActing
<1>1. ASSUME IInv PROVE NoWriteWhileActing
  <2> SUFFICES ASSUME NEW o \in Operations, op[o].at = "acting"
               PROVE  /\ \A r \in Requests : req[r].of = op[o].target => ~Sharing(r)
                      /\ "upload" \notin reload[op[o].target]
    BY DEF NoWriteWhileActing
  <2>1. /\ op[o].held # None /\ pinned[op[o].target] = op[o].held
        /\ op[o].target \in Daemons
    BY <1>1 DEF IInv, OperationInv
  <2>2. ASSUME NEW r \in Requests, req[r].of = op[o].target, Sharing(r) PROVE FALSE
    <3>1. Pin(r) = op[o].held
      BY <2>1, <2>2 DEF Pin
    <3> QED
      BY <1>1, <2>1, <2>2, <3>1 DEF IInv, FlockInv
  <2>3. ASSUME "upload" \in reload[op[o].target] PROVE FALSE
    <3>1. PICK r \in Requests : req[r].of = op[o].target /\ "job" \in req[r].refs
      BY <1>1, <2>1, <2>3 DEF IInv, ReloadInv, Uploading
    <3>2. Sharing(r)
      BY <1>1, <3>1 DEF IInv, StageInv, Sharing
    <3> QED
      BY <2>2, <3>1, <3>2
  <2> QED
    BY <2>2, <2>3
<1> QED
  BY <1>1, GateInvariance, PTL

(* No two service operations act on one daemon. *)
THEOREM OneActsAtATime == Spec => []OneOperationActs
<1>1. IInv => OneOperationActs
  BY DEF IInv, OperationInv, FlockInv, OneOperationActs
<1> QED
  BY <1>1, GateInvariance, PTL
=============================================================================
