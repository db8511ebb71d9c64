---------------------- MODULE CommandConvergenceProofs ----------------------
(***************************************************************************)
(* The newest command for a slot is the one that is sent, the queue keeps   *)
(* its limit, no control frame disturbs a binding or an upload, and no      *)
(* command costs more frames than its retries allow: for any devices,       *)
(* opcodes, threads, any limit of the queue, any retries and any numbers of *)
(* commands, bindings, uploads and frames.                                  *)
(***************************************************************************)
EXTENDS CommandConvergence, TLAPS, FiniteSetTheorems

(* The types of the variables, and what is in hand. *)
Typed ==
  /\ queue \in SUBSET Command
  /\ batch \in SUBSET Command
  /\ hand \in Command \cup {None}
  /\ drain \in {"pick", "send", "requeue"}
  /\ (hand = None) <=> (drain = "pick")
  /\ call \in [Callers -> [at : {"idle", "waiting", "sending"},
                           cmd : Command \cup {None}]]
  /\ \A c \in Callers : (call[c].at = "idle") <=> (call[c].cmd = None)
  /\ order \in Callers \cup {None}
  /\ tx \in [by : Actors \cup {None}, stage : {"free", "ready", "air", "reopen"},
             again : BOOLEAN, sent : BOOLEAN]
  /\ dongle \in [open : BOOLEAN, backoff : BOOLEAN]
  /\ binder \in [at : {"idle", "checking", "sending", "observing", "saving"},
                 dev : Devices \cup {None}, verb : {"bind", "unbind"}, tries : Nat]
  /\ uploader \in [at : {"idle", "sending", "acking"},
                   dev : Devices \cup {None}, chunks : Nat]
  /\ unbound \in SUBSET Devices
  /\ admitted \in Nat
  /\ newest \in [Devices \X Slots -> Nat]
  /\ purged \in SUBSET Nat
  /\ once \in SUBSET Nat

(* The limit of the queue. *)
LimitInv == IsFiniteSet(queue) /\ Cardinality(queue) <= MaxQueue

(* Who holds the order and the dongle is about to send, and what is reserved *)
(* is a device.                                                              *)
HolderInv ==
  /\ \A c \in Callers : (call[c].at = "sending") <=> (order = c)
  /\ tx.by \in Callers => order = tx.by
  /\ tx.by = Drain => drain = "send"
  /\ tx.by = Binder => binder.at \in {"sending", "saving"}
  /\ tx.by = Uploader => uploader.at = "sending"
  /\ binder.dev = None => binder.at = "idle"

(* Commands the convergence thread has taken out. *)
Taken == batch \cup ({hand} \ {None})

(* One command for a slot; what comes back is older than what came in.       *)
OrderInv ==
  /\ \A x \in queue \cup Taken : x.id <= admitted
  /\ \A x, y \in queue : SameSlot(x, y) => x = y
  /\ \A x, y \in batch : SameSlot(x, y) => x = y
  /\ hand # None => \A x \in batch : ~SameSlot(x, hand)
  /\ \A x \in queue, y \in Taken : SameSlot(x, y) => y.id < x.id

(* Where the newest command of a slot is, if it is not the one at hand: back *)
(* in the queue, where superseded_command finds it, or purged.               *)
NewestInv ==
  /\ \A x \in queue : newest[<<x.dev, x.slot>>] \in purged \cup {x.id}
  /\ \A y \in Taken :
       \/ newest[<<y.dev, y.slot>>] \in purged \cup {y.id}
       \/ \E x \in queue : SameSlot(x, y) /\ x.id > y.id
  /\ \A c \in Callers : call[c].at = "sending" =>
       newest[<<call[c].cmd.dev, call[c].cmd.slot>>] = call[c].cmd.id

(* A command whose sender holds the order was admitted with its device free, *)
(* and the order keeps others from reserving it; a frame of the convergence  *)
(* thread on the air keeps the dongle from an operation that began since.    *)
AirInv ==
  /\ \A c \in Callers : call[c].at = "sending" =>
       /\ call[c].cmd.slot # Pwm => uploader.dev # call[c].cmd.dev
       /\ binder.dev # call[c].cmd.dev
       /\ call[c].cmd.dev \notin unbound
  /\ tx.by = Drain /\ tx.stage = "air" =>
       /\ hand.slot # Pwm /\ uploader.dev = hand.dev => uploader.chunks = 0
       /\ binder.dev = hand.dev => binder.tries = 0 /\ binder.at \in {"checking", "sending"}
       /\ hand.dev \notin unbound

IInv == Typed /\ LimitInv /\ HolderInv /\ OrderInv /\ NewestInv /\ AirInv

-----------------------------------------------------------------------------
(* What the constants keep apart. *)
LEMMA Distinct ==
  /\ None \notin Devices /\ None \notin Actors /\ None \notin Command
  /\ \A c \in Callers : c # Drain /\ c # Binder /\ c # Uploader
  /\ Drain # Binder /\ Drain # Uploader /\ Binder # Uploader
BY ConvergenceAssumption DEF Actors

(* A retry changes the count of a command and nothing that tells it apart. *)
LEMMA RetryEffect ==
  ASSUME NEW cmd \in Command, NEW sent \in BOOLEAN, NEW result
  PROVE  /\ AccountRetry(cmd, sent, result) \in Command
         /\ AccountRetry(cmd, sent, result).id = cmd.id
         /\ AccountRetry(cmd, sent, result).dev = cmd.dev
         /\ AccountRetry(cmd, sent, result).slot = cmd.slot
<1>1. [cmd EXCEPT !.initial = ~sent] \in Command
  BY DEF Command
<1>2. [cmd EXCEPT !.left = IF @ = 0 THEN 0 ELSE @ - 1] \in Command
  <2>1. Retries \in Nat
    BY ConvergenceAssumption
  <2> QED
    BY <2>1 DEF Command
<1> QED
  BY <1>1, <1>2 DEF AccountRetry, Command

(* A smaller queue keeps the limit. *)
LEMMA SmallerQueue ==
  ASSUME LimitInv, NEW Q, Q \subseteq queue
  PROVE  IsFiniteSet(Q) /\ Cardinality(Q) <= MaxQueue
<1>1. IsFiniteSet(queue) /\ Cardinality(queue) <= MaxQueue /\ MaxQueue \in Nat
  BY ConvergenceAssumption DEF LimitInv
<1>2. IsFiniteSet(Q) /\ Cardinality(Q) <= Cardinality(queue)
  BY <1>1, FS_Subset
<1> QED
  BY <1>1, <1>2, FS_CardinalityType

(* A command joins a queue with room for it. *)
LEMMA LargerQueue ==
  ASSUME NEW Q, IsFiniteSet(Q), Cardinality(Q) < MaxQueue, NEW cmd
  PROVE  IsFiniteSet(Q \cup {cmd}) /\ Cardinality(Q \cup {cmd}) <= MaxQueue
<1>1. MaxQueue \in Nat /\ Cardinality(Q) \in Nat
  BY ConvergenceAssumption, FS_CardinalityType
<1>2. /\ IsFiniteSet(Q \cup {cmd})
      /\ Cardinality(Q \cup {cmd}) <= Cardinality(Q) + 1
  BY <1>1, FS_AddElement
<1>3. Cardinality(Q \cup {cmd}) \in Nat
  BY <1>2, FS_CardinalityType
<1> QED
  BY <1>1, <1>2, <1>3

(* The queue without one of its commands has room for another. *)
LEMMA ReplacedQueue ==
  ASSUME LimitInv, NEW old \in queue, NEW Q, Q \subseteq queue \ {old}
  PROVE  IsFiniteSet(Q) /\ Cardinality(Q) < MaxQueue
<1>1. IsFiniteSet(queue) /\ Cardinality(queue) <= MaxQueue /\ MaxQueue \in Nat
  BY ConvergenceAssumption DEF LimitInv
<1>2. IsFiniteSet(queue \ {old}) /\ Cardinality(queue \ {old}) = Cardinality(queue) - 1
  BY <1>1, FS_RemoveElement
<1>3. IsFiniteSet(Q) /\ Cardinality(Q) <= Cardinality(queue \ {old})
  BY <1>2, FS_Subset
<1> QED
  BY <1>1, <1>2, <1>3, FS_CardinalityType

(* A caller has a command to send. *)
LEMMA IssueKeeps ==
  ASSUME IInv, NEW c \in Callers, NEW dev \in Devices, NEW slot \in Slots,
         NEW retries \in {0, Retries}, Issue(c, dev, slot, retries)
  PROVE  IInv'
<1>1. Typed'
  <2>1. Retries \in Nat /\ 0 \in Nat
    BY ConvergenceAssumption
  <2>2. [id |-> 0, dev |-> dev, slot |-> slot, left |-> retries, initial |-> FALSE] \in Command
    BY <2>1 DEF Command
  <2>3. \A b \in {"idle", "waiting", "sending"}, x \in Command \cup {None} :
          [at |-> b, cmd |-> x] \in [at : {"idle", "waiting", "sending"}, cmd : Command \cup {None}]
    OBVIOUS
  <2>4. call' \in [Callers -> [at : {"idle", "waiting", "sending"}, cmd : Command \cup {None}]]
    BY <2>2, <2>3 DEF Issue, IInv, Typed
  <2>5. \A d \in Callers : (call'[d].at = "idle") <=> (call'[d].cmd = None)
    BY <2>2, Distinct DEF Issue, IInv, Typed
  <2> QED
    BY <2>1, <2>2, <2>3, <2>4, <2>5 DEF IInv, Typed, Issue, thread, history
<1>2. LimitInv'
  BY DEF IInv, LimitInv, Issue
<1>3. HolderInv'
  BY DEF IInv, HolderInv, Issue, Idle, thread
<1>4. OrderInv'
  BY DEF IInv, OrderInv, Issue, Taken, thread
<1>5. NewestInv'
  BY DEF IInv, NewestInv, Issue, Taken, thread, history
<1>6. AirInv'
  BY DEF IInv, AirInv, Issue, thread
<1> QED
  BY <1>1, <1>2, <1>3, <1>4, <1>5, <1>6 DEF IInv

(* A cooling caller gives up. *)
LEMMA BusyKeeps ==
  ASSUME IInv, NEW c \in Callers, Busy(c)
  PROVE  IInv'
<1>1. Typed'
  BY DEF IInv, Typed, Busy, Idle, thread, history
<1>2. LimitInv'
  BY DEF IInv, LimitInv, Busy
<1>3. HolderInv'
  BY DEF IInv, HolderInv, Busy, Waiting, Idle, thread
<1>4. OrderInv'
  BY DEF IInv, OrderInv, Busy, Taken, thread
<1>5. NewestInv'
  BY DEF IInv, NewestInv, Busy, Taken, Idle, thread, history
<1>6. AirInv'
  BY DEF IInv, AirInv, Busy, Idle, thread
<1> QED
  BY <1>1, <1>2, <1>3, <1>4, <1>5, <1>6 DEF IInv

(* A command is refused. *)
LEMMA RefuseKeeps ==
  ASSUME IInv, NEW c \in Callers, Refuse(c)
  PROVE  IInv'
<1>1. Typed'
  BY DEF IInv, Typed, Refuse, Idle, thread, history
<1>2. LimitInv'
  BY DEF IInv, LimitInv, Refuse
<1>3. HolderInv'
  BY DEF IInv, HolderInv, Refuse, Waiting, Idle, thread
<1>4. OrderInv'
  BY DEF IInv, OrderInv, Refuse, Taken, thread
<1>5. NewestInv'
  BY DEF IInv, NewestInv, Refuse, Taken, Idle, thread, history
<1>6. AirInv'
  BY DEF IInv, AirInv, Refuse, Idle, thread
<1> QED
  BY <1>1, <1>2, <1>3, <1>4, <1>5, <1>6 DEF IInv

(* A command is admitted: it replaces the one of its slot, or the queue has  *)
(* room for it; its number is greater than all others.                       *)
LEMMA AdmitKeeps ==
  ASSUME IInv, NEW c \in Callers, Admit(c)
  PROVE  IInv'
<1> DEFINE old == call[c].cmd
           cmd == [old EXCEPT !.id = admitted + 1, !.initial = Deferred(old)]
           Q == {x \in queue : ~SameSlot(x, cmd)}
<1>1. old \in Command /\ admitted \in Nat /\ admitted + 1 \in Nat
  BY DEF IInv, Typed, Admit, Waiting
<1>2. Deferred(old) \in BOOLEAN
  BY DEF Deferred
<1>3. /\ cmd \in Command
      /\ cmd.id = admitted + 1 /\ cmd.dev = old.dev /\ cmd.slot = old.slot
      /\ cmd.left = old.left
  BY <1>1, <1>2 DEF Command
<1>4. /\ order = None /\ queue' = Q \cup {cmd} /\ admitted' = admitted + 1
      /\ newest' = [newest EXCEPT ![<<old.dev, old.slot>>] = admitted + 1]
      /\ once' \in {once, once \cup {admitted + 1}}
      /\ ~Uploading(old) /\ ~Blocks(old.dev)
      /\ Cardinality(queue) < MaxQueue \/ Replaces(old)
      /\ UNCHANGED <<thread, tx, dongle, binder, uploader, unbound, purged>>
  BY <1>3 DEF Admit, AdmitCommand, Admissible
<1>5. \/ call' = [call EXCEPT ![c] = Idle] /\ order' = None
      \/ call' = [call EXCEPT ![c] = [at |-> "sending", cmd |-> cmd]] /\ order' = c
  BY <1>4 DEF Admit
<1>6. <<old.dev, old.slot>> \in Devices \X Slots
  BY <1>1 DEF Command
<1>7. \A x \in Q : x \in queue /\ ~SameSlot(x, cmd)
  OBVIOUS
<1>8. \A x \in queue : SameSlot(x, old) <=> SameSlot(x, cmd)
  BY <1>3 DEF SameSlot
<1> HIDE DEF cmd, Q
<1>9. /\ \A d \in Callers : call[d].at # "sending"
      /\ tx.by \notin Callers
  BY <1>4, Distinct, ConvergenceAssumption DEF IInv, HolderInv
<1>10. \A d \in Callers : /\ call'[d].at = "sending" => d = c /\ call'[d].cmd = cmd
                          /\ (call'[d].at = "sending") <=> (order' = d)
  <2>1. \A d \in Callers : d # None
    BY ConvergenceAssumption
  <2> QED
    BY <1>5, <1>9, <2>1 DEF IInv, Typed, Idle
<1>11. Typed'
  <2>1. /\ call' \in [Callers -> [at : {"idle", "waiting", "sending"},
                                  cmd : Command \cup {None}]]
        /\ \A d \in Callers : (call'[d].at = "idle") <=> (call'[d].cmd = None)
    <3>1. /\ call \in [Callers -> [at : {"idle", "waiting", "sending"},
                                   cmd : Command \cup {None}]]
          /\ \A d \in Callers : (call[d].at = "idle") <=> (call[d].cmd = None)
      BY DEF IInv, Typed
    <3>2. \A x \in {Idle, [at |-> "sending", cmd |-> cmd]} :
             /\ x \in [at : {"idle", "waiting", "sending"}, cmd : Command \cup {None}]
             /\ (x.at = "idle") <=> (x.cmd = None)
      BY <1>3, Distinct DEF Idle
    <3> QED
      BY <1>5, <3>1, <3>2
  <2>2. queue' \in SUBSET Command
    BY <1>3, <1>4, <1>7 DEF IInv, Typed
  <2>3. newest' \in [Devices \X Slots -> Nat]
    BY <1>1, <1>4, <1>6 DEF IInv, Typed
  <2>4. once' \in SUBSET Nat /\ admitted' \in Nat
    BY <1>1, <1>4 DEF IInv, Typed
  <2>5. order' \in Callers \cup {None}
    BY <1>5
  <2> QED
    BY <1>4, <2>1, <2>2, <2>3, <2>4, <2>5 DEF IInv, Typed, thread
<1>12. LimitInv'
  <2>1. IsFiniteSet(Q) /\ Cardinality(Q) < MaxQueue
    <3>1. CASE Replaces(old)
      <4>1. PICK x \in queue : SameSlot(x, old)
        BY <3>1 DEF Replaces
      <4>2. Q \subseteq queue \ {x}
        BY <1>7, <1>8, <4>1
      <4> QED
        BY <4>1, <4>2, ReplacedQueue DEF IInv
    <3>2. CASE ~Replaces(old)
      <4>1. Q = queue
        BY <1>8, <3>2 DEF Replaces, Q
      <4> QED
        BY <1>4, <3>2, <4>1 DEF IInv, LimitInv
    <3> QED
      BY <3>1, <3>2
  <2> QED
    BY <1>4, <2>1, LargerQueue DEF LimitInv
<1>13. HolderInv'
  BY <1>4, <1>9, <1>10 DEF IInv, HolderInv, thread
<1>14. OrderInv'
  <2>1. Taken' = Taken
    BY <1>4 DEF Taken, thread
  <2>2. \A x \in queue \cup Taken : x \in Command /\ x.id <= admitted
    BY DEF IInv, Typed, OrderInv, Taken
  <2>3. \A x \in queue \cup Taken : x.id < admitted + 1 /\ x.id <= admitted + 1
    BY <1>1, <2>2 DEF Command
  <2>4. \A x \in queue' \cup Taken' : x.id <= admitted'
    BY <1>1, <1>3, <1>4, <1>7, <2>1, <2>3
  <2>5. \A x, y \in queue' : SameSlot(x, y) => x = y
    BY <1>4, <1>7 DEF IInv, OrderInv, SameSlot
  <2>6. \A x \in queue', y \in Taken' : SameSlot(x, y) => y.id < x.id
    BY <1>3, <1>4, <1>7, <2>1, <2>3 DEF IInv, OrderInv
  <2> QED
    BY <1>4, <2>4, <2>5, <2>6 DEF IInv, OrderInv, thread
<1>15. NewestInv'
  <2>1. newest \in [Devices \X Slots -> Nat] /\ purged \in SUBSET Nat
    BY DEF IInv, Typed
  <2>2. newest'[<<cmd.dev, cmd.slot>>] = cmd.id
    BY <1>3, <1>4, <1>6, <2>1
  <2>3. \A x \in Command : ~SameSlot(x, cmd) =>
           newest'[<<x.dev, x.slot>>] = newest[<<x.dev, x.slot>>]
    BY <1>3, <1>4, <2>1 DEF SameSlot, Command
  <2>4. \A x \in queue \cup Taken : x \in Command /\ x.id < cmd.id
    BY <1>1, <1>3 DEF IInv, Typed, OrderInv, Taken, Command
  <2>5. \A x \in queue' : newest'[<<x.dev, x.slot>>] \in purged \cup {x.id}
    BY <1>4, <1>7, <2>2, <2>3, <2>4 DEF IInv, NewestInv
  <2>6. ASSUME NEW y \in Taken
        PROVE  \/ newest'[<<y.dev, y.slot>>] \in purged \cup {y.id}
               \/ \E x \in queue' : SameSlot(x, y) /\ x.id > y.id
    <3>1. CASE SameSlot(y, cmd)
      <4>1. cmd \in queue' /\ SameSlot(cmd, y) /\ cmd.id > y.id
        BY <1>1, <1>3, <1>4, <2>4, <3>1 DEF SameSlot, Command
      <4> QED
        BY <4>1
    <3>2. CASE ~SameSlot(y, cmd)
      <4>1. newest'[<<y.dev, y.slot>>] = newest[<<y.dev, y.slot>>]
        BY <2>3, <2>4, <3>2
      <4>2. \A x \in queue : SameSlot(x, y) => x \in queue'
        BY <1>4, <3>2 DEF SameSlot, Q
      <4> QED
        BY <4>1, <4>2 DEF IInv, NewestInv
    <3> QED
      BY <3>1, <3>2
  <2> QED
    BY <1>4, <1>10, <2>2, <2>5, <2>6 DEF NewestInv, Taken, thread
<1>16. AirInv'
  BY <1>3, <1>4, <1>10 DEF IInv, AirInv, Uploading, Blocks, thread
<1> QED
  BY <1>11, <1>12, <1>13, <1>14, <1>15, <1>16 DEF IInv

(* The whole queue is taken out. *)
LEMMA TakeQueueKeeps ==
  ASSUME IInv, TakeQueue
  PROVE  IInv'
<1>1. Typed'
  BY DEF IInv, Typed, TakeQueue, history
<1>2. LimitInv'
  <2>1. queue' \subseteq queue
    BY DEF TakeQueue
  <2> QED
    BY <2>1, SmallerQueue DEF IInv, LimitInv
<1>3. HolderInv'
  BY DEF IInv, HolderInv, TakeQueue
<1>4. OrderInv'
  BY DEF IInv, Typed, OrderInv, TakeQueue, Taken
<1>5. NewestInv'
  BY DEF IInv, Typed, NewestInv, TakeQueue, Taken, history
<1>6. AirInv'
  BY DEF IInv, AirInv, TakeQueue
<1> QED
  BY <1>1, <1>2, <1>3, <1>4, <1>5, <1>6 DEF IInv

(* An acknowledged command is done. *)
LEMMA PickAcknowledgedKeeps ==
  ASSUME IInv, NEW cmd \in batch, PickAcknowledged(cmd)
  PROVE  IInv'
<1>1. Typed'
  BY DEF IInv, Typed, PickAcknowledged, history
<1>2. LimitInv'
  BY DEF IInv, LimitInv, PickAcknowledged
<1>3. HolderInv'
  BY DEF IInv, HolderInv, PickAcknowledged
<1>4. OrderInv'
  BY DEF IInv, OrderInv, PickAcknowledged, Taken
<1>5. NewestInv'
  BY DEF IInv, NewestInv, PickAcknowledged, Taken, history
<1>6. AirInv'
  BY DEF IInv, AirInv, PickAcknowledged
<1> QED
  BY <1>1, <1>2, <1>3, <1>4, <1>5, <1>6 DEF IInv

(* A command that is not due goes back. *)
LEMMA PickNotDueKeeps ==
  ASSUME IInv, NEW cmd \in batch, PickNotDue(cmd)
  PROVE  IInv'
<1>1. Typed'
  BY ConvergenceAssumption DEF IInv, Typed, PickNotDue, history
<1>2. LimitInv'
  BY DEF IInv, LimitInv, PickNotDue
<1>3. HolderInv'
  BY DEF IInv, HolderInv, PickNotDue
<1>4. OrderInv'
  BY DEF IInv, OrderInv, PickNotDue, Taken
<1>5. NewestInv'
  BY DEF IInv, NewestInv, PickNotDue, Taken, history
<1>6. AirInv'
  BY DEF IInv, HolderInv, AirInv, PickNotDue
<1> QED
  BY <1>1, <1>2, <1>3, <1>4, <1>5, <1>6 DEF IInv

(* A command is due, or given up. *)
LEMMA PickDueKeeps ==
  ASSUME IInv, NEW cmd \in batch, PickDue(cmd)
  PROVE  IInv'
<1>1. Typed'
  BY ConvergenceAssumption DEF IInv, Typed, PickDue, history
<1>2. LimitInv'
  BY DEF IInv, LimitInv, PickDue
<1>3. HolderInv'
  BY DEF IInv, HolderInv, PickDue
<1>4. OrderInv'
  BY DEF IInv, OrderInv, PickDue, Taken
<1>5. NewestInv'
  BY DEF IInv, NewestInv, PickDue, Taken, history
<1>6. AirInv'
  BY DEF IInv, HolderInv, AirInv, PickDue
<1> QED
  BY <1>1, <1>2, <1>3, <1>4, <1>5, <1>6 DEF IInv

(* A command goes back, unless a newer one for its slot is there or the      *)
(* queue is full.                                                            *)
LEMMA RequeueKeeps ==
  ASSUME IInv, Requeue
  PROVE  IInv'
<1>1. hand \in Command /\ Taken = batch \cup {hand} /\ Taken' = batch
  BY Distinct DEF IInv, Typed, Requeue, Taken
<1>2. /\ \/ queue' = queue
         \/ GoesBack(hand) /\ queue' = queue \cup {hand}
      /\ hand' = None /\ drain' = "pick"
      /\ UNCHANGED <<batch, call, order, tx, dongle, binder, uploader, unbound,
                     admitted, history>>
  BY DEF Requeue
<1>3. \A x \in queue : SameSlot(x, hand) => x.id > hand.id
  BY <1>1 DEF IInv, Typed, OrderInv, Command
<1>4. GoesBack(hand) => \A x \in queue : ~SameSlot(x, hand)
  BY <1>3 DEF GoesBack, Superseded
<1>5. Typed'
  BY <1>1, <1>2 DEF IInv, Typed, history
<1>6. LimitInv'
  BY <1>2, LargerQueue DEF IInv, LimitInv, GoesBack
<1>7. HolderInv'
  BY <1>2 DEF IInv, HolderInv, Requeue
<1>8. OrderInv'
  <2>1. /\ \A x \in queue' \cup batch : x.id <= admitted
        /\ \A x, y \in queue' : SameSlot(x, y) => x = y
    BY <1>1, <1>2, <1>4 DEF IInv, OrderInv, SameSlot
  <2>2. \A x \in queue', y \in batch : SameSlot(x, y) => y.id < x.id
    <3>1. \A y \in batch : ~SameSlot(hand, y)
      BY <1>1, Distinct DEF IInv, OrderInv, SameSlot
    <3> QED
      BY <1>1, <1>2, <3>1 DEF IInv, OrderInv
  <2> QED
    BY <1>1, <1>2, <2>1, <2>2 DEF IInv, OrderInv
<1>9. NewestInv'
  <2>1. GoesBack(hand) => newest[<<hand.dev, hand.slot>>] \in purged \cup {hand.id}
    BY <1>1, <1>4 DEF IInv, NewestInv
  <2> QED
    BY <1>1, <1>2, <2>1 DEF IInv, NewestInv, history
<1>10. AirInv'
  BY <1>2, Distinct DEF IInv, AirInv, HolderInv, Requeue
<1> QED
  BY <1>5, <1>6, <1>7, <1>8, <1>9, <1>10 DEF IInv

(* An operation gets the dongle. *)
LEMMA LockDongleKeeps ==
  ASSUME IInv, NEW a \in Actors, LockDongle(a)
  PROVE  IInv'
<1>1. Typed'
  <2>1. tx' \in [by : Actors \cup {None}, stage : {"free", "ready", "air", "reopen"},
             again : BOOLEAN, sent : BOOLEAN]
    BY DEF LockDongle, Free
  <2> QED
    BY <2>1 DEF IInv, Typed, LockDongle, thread, history
<1>2. LimitInv'
  BY DEF IInv, LimitInv, LockDongle
<1>3. HolderInv'
  BY ConvergenceAssumption DEF IInv, HolderInv, LockDongle, thread
<1>4. OrderInv'
  BY DEF IInv, OrderInv, LockDongle, Taken, thread
<1>5. NewestInv'
  BY DEF IInv, NewestInv, LockDongle, Taken, thread, history
<1>6. AirInv'
  BY DEF IInv, AirInv, LockDongle
<1> QED
  BY <1>1, <1>2, <1>3, <1>4, <1>5, <1>6 DEF IInv

(* An operation of another thread sends its frame. *)
LEMMA SendFrameKeeps ==
  ASSUME IInv, NEW a \in Actors, SendFrame(a)
  PROVE  IInv'
<1>1. Typed'
  BY DEF IInv, Typed, SendFrame, thread
<1>2. LimitInv'
  BY DEF IInv, LimitInv, SendFrame
<1>3. HolderInv'
  BY DEF IInv, Typed, HolderInv, SendFrame, thread
<1>4. OrderInv'
  BY DEF IInv, OrderInv, SendFrame, Taken, thread
<1>5. NewestInv'
  BY DEF IInv, NewestInv, SendFrame, Taken, thread
<1>6. AirInv'
  BY ConvergenceAssumption DEF IInv, Typed, AirInv, SendFrame, Holds
<1> QED
  BY <1>1, <1>2, <1>3, <1>4, <1>5, <1>6 DEF IInv

(* The convergence thread sends a command that nothing keeps away. *)
LEMMA SendPendingKeeps ==
  ASSUME IInv, SendPending
  PROVE  IInv'
<1>1. Typed'
  BY DEF IInv, Typed, SendPending, thread
<1>2. LimitInv'
  BY DEF IInv, LimitInv, SendPending
<1>3. HolderInv'
  BY DEF IInv, HolderInv, SendPending, thread
<1>4. OrderInv'
  BY DEF IInv, OrderInv, SendPending, Taken, thread
<1>5. NewestInv'
  BY DEF IInv, NewestInv, SendPending, Taken, thread
<1>6. AirInv'
  BY DEF IInv, AirInv, SendPending, Uploading, Blocks, thread
<1> QED
  BY <1>1, <1>2, <1>3, <1>4, <1>5, <1>6 DEF IInv

(* The convergence thread is done with its attempt: the command keeps its    *)
(* number and its slot.                                                      *)
LEMMA AttemptOver ==
  ASSUME IInv, tx.by = Drain, tx' = Free,
         NEW sent \in BOOLEAN, NEW result, hand' = AccountRetry(hand, sent, result),
         drain' = "requeue", dongle' \in [open : BOOLEAN, backoff : BOOLEAN],
         UNCHANGED <<queue, batch, call, order, binder, uploader, unbound, admitted,
                     history>>
  PROVE  IInv'
<1>1. drain = "send" /\ hand \in Command
  BY DEF IInv, Typed, HolderInv
<1>2. hand' \in Command /\ hand'.id = hand.id /\ hand'.dev = hand.dev /\ hand'.slot = hand.slot
  BY <1>1, RetryEffect
<1>3. Typed'
  <2>1. tx' \in [by : Actors \cup {None}, stage : {"free", "ready", "air", "reopen"},
                 again : BOOLEAN, sent : BOOLEAN]
    BY DEF Free
  <2> QED
    BY <1>2, <2>1, Distinct DEF IInv, Typed, history
<1>4. Taken = batch \cup {hand} /\ Taken' = batch \cup {hand'}
  BY <1>1, <1>2, Distinct DEF Taken
<1>5. LimitInv' /\ HolderInv'
  BY Distinct DEF IInv, LimitInv, HolderInv, Free, Actors
<1>6. OrderInv'
  BY <1>1, <1>2, <1>4, Distinct DEF IInv, OrderInv, SameSlot
<1>7. NewestInv'
  BY <1>1, <1>2, <1>4 DEF IInv, NewestInv, SameSlot, history
<1>8. AirInv'
  BY Distinct DEF IInv, AirInv, Free, Actors
<1> QED
  BY <1>3, <1>5, <1>6, <1>7, <1>8 DEF IInv

(* An operation is over. *)
LEMMA AnsweredKeeps ==
  ASSUME IInv, NEW a \in Actors, tx.by = a, NEW sent \in BOOLEAN, NEW result,
         Answered(a, sent, result), dongle' \in [open : BOOLEAN, backoff : BOOLEAN]
  PROVE  IInv'
<1>1. tx' = Free /\ UNCHANGED <<queue, batch, unbound, admitted, history>>
  BY DEF Answered
<1>2. tx' \in [by : Actors \cup {None}, stage : {"free", "ready", "air", "reopen"},
               again : BOOLEAN, sent : BOOLEAN]
  BY <1>1 DEF Free
<1>3. CASE a \in Callers
  <2>1. call' = [call EXCEPT ![a] = Idle] /\ order' = None /\ order = a
        /\ UNCHANGED <<hand, drain, binder, uploader>>
    BY <1>3, Distinct DEF Answered, IInv, HolderInv
  <2>2. /\ call' \in [Callers -> [at : {"idle", "waiting", "sending"},
                                  cmd : Command \cup {None}]]
        /\ \A d \in Callers : (call'[d].at = "idle") <=> (call'[d].cmd = None)
    <3>1. Idle \in [at : {"idle", "waiting", "sending"}, cmd : Command \cup {None}]
      BY DEF Idle
    <3> QED
      BY <2>1, <3>1 DEF IInv, Typed, Idle
  <2>3. \A d \in Callers : call'[d].at # "sending"
    BY <2>1 DEF IInv, Typed, HolderInv, Idle
  <2>4. Typed'
    BY <1>1, <1>2, <2>1, <2>2 DEF IInv, Typed, history
  <2>5. LimitInv' /\ HolderInv'
    BY <1>1, <2>1, <2>3, Distinct DEF IInv, LimitInv, HolderInv, Free, Actors
  <2>6. OrderInv' /\ NewestInv'
    BY <1>1, <2>1, <2>3 DEF IInv, OrderInv, NewestInv, Taken, history
  <2>7. AirInv'
    BY <1>1, <2>3, Distinct DEF AirInv, Free, Actors
  <2> QED
    BY <2>4, <2>5, <2>6, <2>7 DEF IInv
<1>4. CASE a = Drain
  BY <1>1, <1>4, AttemptOver, Distinct DEF Answered
<1>5. CASE a = Binder
  <2>1. UNCHANGED <<hand, drain, call, order, uploader>>
    BY <1>5, Distinct DEF Answered
  <2>2. binder' \in {[binder EXCEPT !.at = "observing"], NoBind}
    BY <1>5, Distinct DEF Answered
  <2>3. /\ binder' \in [at : {"idle", "checking", "sending", "observing", "saving"},
                        dev : Devices \cup {None}, verb : {"bind", "unbind"}, tries : Nat]
        /\ binder'.dev \in {binder.dev, None}
        /\ binder'.dev = None => binder'.at = "idle"
    <3>1. CASE binder' = [binder EXCEPT !.at = "observing"]
      BY <1>5, <3>1 DEF IInv, Typed, HolderInv
    <3>2. CASE binder' = NoBind
      <4>1. 0 \in Nat
        OBVIOUS
      <4> QED
        BY <3>2, <4>1 DEF NoBind
    <3> QED
      BY <2>2, <3>1, <3>2
  <2>4. Typed'
    BY <1>1, <1>2, <2>1, <2>3 DEF IInv, Typed, history
  <2>5. LimitInv' /\ HolderInv'
    BY <1>1, <2>1, <2>3, Distinct DEF IInv, LimitInv, HolderInv, Free, Actors
  <2>6. OrderInv' /\ NewestInv'
    BY <1>1, <2>1 DEF IInv, OrderInv, NewestInv, Taken, history
  <2>7. AirInv'
    <3>1. \A d \in Callers : call[d].at = "sending" => call[d].cmd \in Command
      BY DEF IInv, Typed
    <3>2. \A d \in Callers : call[d].at = "sending" => call[d].cmd.dev # None
      BY <3>1, Distinct DEF Command
    <3> QED
      BY <1>1, <2>1, <2>3, <3>2, Distinct DEF IInv, AirInv, Free, Actors
  <2> QED
    BY <2>4, <2>5, <2>6, <2>7 DEF IInv
<1>6. CASE a = Uploader
  <2>1. UNCHANGED <<hand, drain, call, order, binder>>
    BY <1>6, Distinct DEF Answered
  <2>2. uploader' \in {[uploader EXCEPT !.at = "acking"], NoUpload}
    BY <1>6, Distinct DEF Answered
  <2>3. /\ uploader' \in [at : {"idle", "sending", "acking"},
                          dev : Devices \cup {None}, chunks : Nat]
        /\ uploader'.dev \in {uploader.dev, None}
    <3>1. CASE uploader' = [uploader EXCEPT !.at = "acking"]
      BY <3>1 DEF IInv, Typed
    <3>2. CASE uploader' = NoUpload
      <4>1. 0 \in Nat
        OBVIOUS
      <4> QED
        BY <3>2, <4>1 DEF NoUpload
    <3> QED
      BY <2>2, <3>1, <3>2
  <2>4. Typed'
    BY <1>1, <1>2, <2>1, <2>3 DEF IInv, Typed, history
  <2>5. LimitInv' /\ HolderInv'
    BY <1>1, <2>1, Distinct DEF IInv, LimitInv, HolderInv, Free, Actors
  <2>6. OrderInv' /\ NewestInv'
    BY <1>1, <2>1 DEF IInv, OrderInv, NewestInv, Taken, history
  <2>7. AirInv'
    <3>1. \A d \in Callers : call[d].at = "sending" => call[d].cmd \in Command
      BY DEF IInv, Typed
    <3>2. \A d \in Callers : call[d].at = "sending" => call[d].cmd.dev # None
      BY <3>1, Distinct DEF Command
    <3> QED
      BY <1>1, <2>1, <2>3, <3>2, Distinct DEF IInv, AirInv, Free, Actors
  <2> QED
    BY <2>4, <2>5, <2>6, <2>7 DEF IInv
<1> QED
  BY <1>3, <1>4, <1>5, <1>6 DEF Actors

(* The attempt goes on, before its frame. *)
LEMMA AttemptContinues ==
  ASSUME IInv, NEW stage \in {"ready", "reopen"}, NEW again \in BOOLEAN, NEW sent \in BOOLEAN,
         tx' = [tx EXCEPT !.stage = stage, !.again = again, !.sent = sent],
         dongle' \in [open : BOOLEAN, backoff : BOOLEAN],
         UNCHANGED <<queue, thread, call, order, binder, uploader, unbound, admitted,
                     history>>
  PROVE  IInv'
<1>1. /\ tx' \in [by : Actors \cup {None}, stage : {"free", "ready", "air", "reopen"},
                  again : BOOLEAN, sent : BOOLEAN]
      /\ tx'.by = tx.by /\ tx'.stage # "air"
  BY DEF IInv, Typed
<1>2. Typed'
  BY <1>1 DEF IInv, Typed, thread, history
<1>3. LimitInv' /\ HolderInv'
  BY <1>1 DEF IInv, LimitInv, HolderInv, thread
<1>4. OrderInv' /\ NewestInv'
  BY DEF IInv, OrderInv, NewestInv, Taken, thread, history
<1>5. AirInv'
  BY <1>1 DEF IInv, AirInv
<1> QED
  BY <1>2, <1>3, <1>4, <1>5 DEF IInv

(* An operation finds the dongle missing, reopens it, or ends. *)
LEMMA OperationKeeps ==
  ASSUME IInv, NEW a \in Actors,
         \/ FrameSent(a) \/ FrameFails(a) \/ DongleFails(a)
         \/ FindMissing(a) \/ BackOff(a) \/ ReopenFails(a) \/ Reopen(a)
  PROVE  IInv'
<1>1. /\ dongle \in [open : BOOLEAN, backoff : BOOLEAN]
      /\ tx \in [by : Actors \cup {None}, stage : {"free", "ready", "air", "reopen"},
                 again : BOOLEAN, sent : BOOLEAN]
      /\ tx.again \in BOOLEAN /\ tx.sent \in BOOLEAN
  BY DEF IInv, Typed
<1>2. CASE FrameSent(a) \/ FrameFails(a)
  BY <1>1, <1>2, AnsweredKeeps DEF FrameSent, FrameFails, Holds
<1>3. CASE BackOff(a)
  BY <1>1, <1>3, AnsweredKeeps DEF BackOff, Holds
<1>4. CASE ReopenFails(a)
  <2>1. dongle' \in [open : BOOLEAN, backoff : BOOLEAN]
    BY <1>4 DEF ReopenFails
  <2> QED
    BY <1>1, <1>4, <2>1, AnsweredKeeps DEF ReopenFails, Holds
<1>5. CASE FindMissing(a)
  <2>1. tx' = [tx EXCEPT !.stage = "reopen", !.again = tx.again, !.sent = tx.sent]
    BY <1>1, <1>5 DEF FindMissing
  <2> QED
    BY <1>1, <1>5, <2>1, AttemptContinues DEF FindMissing
<1>6. CASE Reopen(a)
  <2>1. tx' = [tx EXCEPT !.stage = "ready", !.again = TRUE, !.sent = tx.sent]
    BY <1>1, <1>6 DEF Reopen
  <2>2. dongle' \in [open : BOOLEAN, backoff : BOOLEAN]
    BY <1>6 DEF Reopen
  <2> QED
    BY <1>1, <1>6, <2>1, <2>2, AttemptContinues DEF Reopen
<1>7. CASE DongleFails(a)
  <2>1. CASE Replayable(a) /\ ~tx.again
    <3>1. tx' = [tx EXCEPT !.stage = "reopen", !.again = tx.again, !.sent = TRUE]
      BY <1>1, <1>7, <2>1 DEF DongleFails
    <3> QED
      BY <1>1, <1>7, <2>1, <3>1, AttemptContinues DEF DongleFails
  <2>2. CASE ~(Replayable(a) /\ ~tx.again)
    <3>1. Replayable(a) \in BOOLEAN
      BY DEF Replayable
    <3>2. dongle' \in [open : BOOLEAN, backoff : BOOLEAN]
      BY <1>1, <1>7, <2>2, <3>1 DEF DongleFails
    <3> QED
      BY <1>7, <2>2, <3>2, AnsweredKeeps DEF DongleFails, Holds
  <2> QED
    BY <2>1, <2>2
<1> QED
  BY <1>2, <1>3, <1>4, <1>5, <1>6, <1>7

(* The device is under an upload, and its command waits. *)
LEMMA DeferPendingKeeps ==
  ASSUME IInv, DeferPending
  PROVE  IInv'
<1>1. tx.sent \in BOOLEAN /\ dongle' \in [open : BOOLEAN, backoff : BOOLEAN]
  BY DEF IInv, Typed, DeferPending
<1> QED
  BY <1>1, AttemptOver DEF DeferPending, Holds

(* An obsolete command is dropped. *)
LEMMA DropObsoleteKeeps ==
  ASSUME IInv, DropObsolete
  PROVE  IInv'
<1>1. /\ tx' = Free /\ hand' = None /\ drain' = "pick"
      /\ UNCHANGED <<queue, batch, call, order, dongle, binder, uploader, unbound,
                     admitted, history>>
  BY DEF DropObsolete
<1>2. Typed'
  <2>1. tx' \in [by : Actors \cup {None}, stage : {"free", "ready", "air", "reopen"},
                 again : BOOLEAN, sent : BOOLEAN]
    BY <1>1 DEF Free
  <2> QED
    BY <1>1, <2>1 DEF IInv, Typed, history
<1>3. LimitInv' /\ HolderInv'
  BY <1>1, Distinct DEF IInv, LimitInv, HolderInv, Free, Actors
<1>4. Taken' \subseteq Taken
  BY <1>1 DEF Taken
<1>5. OrderInv' /\ NewestInv'
  BY <1>1, <1>4 DEF IInv, OrderInv, NewestInv, history
<1>6. AirInv'
  BY <1>1, Distinct DEF IInv, AirInv, Free, Actors
<1> QED
  BY <1>2, <1>3, <1>5, <1>6 DEF IInv

(* The dongle may be reopened. *)
LEMMA BackoffEndsKeeps ==
  ASSUME IInv, BackoffEnds
  PROVE  IInv'
<1>1. Typed'
  <2>1. dongle' \in [open : BOOLEAN, backoff : BOOLEAN]
    BY DEF BackoffEnds, IInv, Typed
  <2> QED
    BY <2>1 DEF IInv, Typed, BackoffEnds, thread, history
<1>2. LimitInv'
  BY DEF IInv, LimitInv, BackoffEnds
<1>3. HolderInv'
  BY DEF IInv, HolderInv, BackoffEnds, thread
<1>4. OrderInv'
  BY DEF IInv, OrderInv, BackoffEnds, Taken, thread
<1>5. NewestInv'
  BY DEF IInv, NewestInv, BackoffEnds, Taken, thread, history
<1>6. AirInv'
  BY DEF IInv, AirInv, BackoffEnds, thread
<1> QED
  BY <1>1, <1>2, <1>3, <1>4, <1>5, <1>6 DEF IInv

(* The commands of a device that is bound are purged. *)
LEMMA BeginBindingKeeps ==
  ASSUME IInv, NEW dev \in Devices, NEW verb \in {"bind", "unbind"},
         BeginBinding(dev, verb)
  PROVE  IInv'
<1>1. Typed'
  <2>1. 0 \in Nat
    OBVIOUS
  <2>2. binder' \in [at : {"idle", "checking", "sending", "observing", "saving"},
               dev : Devices \cup {None}, verb : {"bind", "unbind"}, tries : Nat]
    BY <2>1 DEF BeginBinding, NoBind
  <2>3. purged' \subseteq Nat
    BY DEF BeginBinding, IInv, Typed, Command
  <2> QED
    BY <2>1, <2>2, <2>3 DEF IInv, Typed, BeginBinding, thread
<1>2. LimitInv'
  <2>1. queue' \subseteq queue
    BY DEF BeginBinding
  <2> QED
    BY <2>1, SmallerQueue DEF IInv, LimitInv
<1>3. HolderInv'
  BY ConvergenceAssumption DEF IInv, HolderInv, BeginBinding, thread
<1>4. OrderInv'
  BY DEF IInv, OrderInv, BeginBinding, Taken, thread
<1>5. NewestInv'
  BY DEF IInv, NewestInv, BeginBinding, Taken, Slots, SameSlot, NoBind, thread
<1>6. AirInv'
  BY ConvergenceAssumption DEF IInv, HolderInv, AirInv, BeginBinding, NoBind, thread
<1> QED
  BY <1>1, <1>2, <1>3, <1>4, <1>5, <1>6 DEF IInv

(* The operation passes its checks. *)
LEMMA BindingAllowedKeeps ==
  ASSUME IInv, BindingAllowed
  PROVE  IInv'
<1>1. Typed'
  BY DEF IInv, Typed, BindingAllowed, thread, history
<1>2. LimitInv'
  BY DEF IInv, LimitInv, BindingAllowed
<1>3. HolderInv'
  BY DEF IInv, HolderInv, BindingAllowed, thread
<1>4. OrderInv'
  BY DEF IInv, OrderInv, BindingAllowed, Taken, thread
<1>5. NewestInv'
  BY DEF IInv, NewestInv, BindingAllowed, Taken, thread, history
<1>6. AirInv'
  BY DEF IInv, AirInv, BindingAllowed, thread
<1> QED
  BY <1>1, <1>2, <1>3, <1>4, <1>5, <1>6 DEF IInv

(* The operation fails. *)
LEMMA BindingFailsKeeps ==
  ASSUME IInv, BindingFails
  PROVE  IInv'
<1>1. Typed'
  BY DEF IInv, Typed, BindingFails, NoBind, thread, history
<1>2. LimitInv'
  BY DEF IInv, LimitInv, BindingFails
<1>3. HolderInv'
  BY DEF IInv, HolderInv, BindingFails, NoBind, thread
<1>4. OrderInv'
  BY DEF IInv, OrderInv, BindingFails, Taken, thread
<1>5. NewestInv'
  BY DEF IInv, NewestInv, BindingFails, Taken, thread, history
<1>6. AirInv'
  BY ConvergenceAssumption DEF IInv, Typed, HolderInv, AirInv, BindingFails, Command,
    NoBind, thread
<1> QED
  BY <1>1, <1>2, <1>3, <1>4, <1>5, <1>6 DEF IInv

(* Another bind frame. *)
LEMMA SendBindAgainKeeps ==
  ASSUME IInv, SendBindAgain
  PROVE  IInv'
<1>1. Typed'
  BY DEF IInv, Typed, SendBindAgain, thread, history
<1>2. LimitInv'
  BY DEF IInv, LimitInv, SendBindAgain
<1>3. HolderInv'
  BY DEF IInv, HolderInv, SendBindAgain, thread
<1>4. OrderInv'
  BY DEF IInv, OrderInv, SendBindAgain, Taken, thread
<1>5. NewestInv'
  BY DEF IInv, NewestInv, SendBindAgain, Taken, thread, history
<1>6. AirInv'
  BY DEF IInv, AirInv, SendBindAgain, thread
<1> QED
  BY <1>1, <1>2, <1>3, <1>4, <1>5, <1>6 DEF IInv

(* The device reports its new state. *)
LEMMA ConfirmBindingKeeps ==
  ASSUME IInv, ConfirmBinding
  PROVE  IInv'
<1>1. Typed'
  <2>1. binder' \in [at : {"idle", "checking", "sending", "observing", "saving"},
               dev : Devices \cup {None}, verb : {"bind", "unbind"}, tries : Nat]
    BY DEF ConfirmBinding, IInv, Typed
  <2>2. unbound' \subseteq Devices
    BY Distinct DEF ConfirmBinding, IInv, Typed, HolderInv
  <2> QED
    BY <2>1, <2>2 DEF IInv, Typed, ConfirmBinding, thread, history
<1>2. LimitInv'
  BY DEF IInv, LimitInv, ConfirmBinding
<1>3. HolderInv'
  BY DEF IInv, HolderInv, ConfirmBinding, thread
<1>4. OrderInv'
  BY DEF IInv, OrderInv, ConfirmBinding, Taken, thread
<1>5. NewestInv'
  BY DEF IInv, NewestInv, ConfirmBinding, Taken, thread, history
<1>6. AirInv'
  BY DEF IInv, AirInv, ConfirmBinding, thread
<1> QED
  BY <1>1, <1>2, <1>3, <1>4, <1>5, <1>6 DEF IInv

(* A device without queued commands is reserved. *)
LEMMA ReservePictureKeeps ==
  ASSUME IInv, NEW dev \in Devices, ReservePicture(dev)
  PROVE  IInv'
<1>1. Typed'
  <2>1. 0 \in Nat
    OBVIOUS
  <2>2. uploader' \in [at : {"idle", "sending", "acking"}, dev : Devices \cup {None}, chunks : Nat]
    BY <2>1 DEF ReservePicture, NoUpload
  <2> QED
    BY <2>1, <2>2 DEF IInv, Typed, ReservePicture, thread
<1>2. LimitInv'
  BY DEF IInv, LimitInv, ReservePicture
<1>3. HolderInv'
  BY DEF IInv, HolderInv, ReservePicture, thread
<1>4. OrderInv'
  BY DEF IInv, OrderInv, ReservePicture, Taken, thread
<1>5. NewestInv'
  BY DEF IInv, NewestInv, ReservePicture, Taken, thread
<1>6. AirInv'
  BY ConvergenceAssumption DEF IInv, HolderInv, AirInv, ReservePicture, NoUpload, thread
<1> QED
  BY <1>1, <1>2, <1>3, <1>4, <1>5, <1>6 DEF IInv

(* Another chunk. *)
LEMMA NextChunkKeeps ==
  ASSUME IInv, NextChunk
  PROVE  IInv'
<1>1. Typed'
  BY DEF IInv, Typed, NextChunk, thread, history
<1>2. LimitInv'
  BY DEF IInv, LimitInv, NextChunk
<1>3. HolderInv'
  BY DEF IInv, HolderInv, NextChunk, thread
<1>4. OrderInv'
  BY DEF IInv, OrderInv, NextChunk, Taken, thread
<1>5. NewestInv'
  BY DEF IInv, NewestInv, NextChunk, Taken, thread, history
<1>6. AirInv'
  BY DEF IInv, AirInv, NextChunk, thread
<1> QED
  BY <1>1, <1>2, <1>3, <1>4, <1>5, <1>6 DEF IInv

(* The upload is over. *)
LEMMA EndUploadKeeps ==
  ASSUME IInv, EndUpload
  PROVE  IInv'
<1>1. Typed'
  BY DEF IInv, Typed, EndUpload, NoUpload, thread, history
<1>2. LimitInv'
  BY DEF IInv, LimitInv, EndUpload
<1>3. HolderInv'
  BY DEF IInv, HolderInv, EndUpload, thread
<1>4. OrderInv'
  BY DEF IInv, OrderInv, EndUpload, Taken, thread
<1>5. NewestInv'
  BY DEF IInv, NewestInv, EndUpload, Taken, thread, history
<1>6. AirInv'
  BY ConvergenceAssumption DEF IInv, Typed, AirInv, EndUpload, Command, NoUpload, thread
<1> QED
  BY <1>1, <1>2, <1>3, <1>4, <1>5, <1>6 DEF IInv

-----------------------------------------------------------------------------
(* Before anything begins. *)
LEMMA InitInv == Init => IInv
<1> SUFFICES ASSUME Init PROVE IInv
  OBVIOUS
<1>1. 0 \in Nat
  OBVIOUS
<1>2. Typed
  <2>1. tx \in [by : Actors \cup {None}, stage : {"free", "ready", "air", "reopen"},
                again : BOOLEAN, sent : BOOLEAN]
    BY DEF Init, Free
  <2>2. /\ binder \in [at : {"idle", "checking", "sending", "observing", "saving"},
                       dev : Devices \cup {None}, verb : {"bind", "unbind"}, tries : Nat]
        /\ uploader \in [at : {"idle", "sending", "acking"},
                         dev : Devices \cup {None}, chunks : Nat]
    BY <1>1 DEF Init, NoBind, NoUpload
  <2>3. /\ call \in [Callers -> [at : {"idle", "waiting", "sending"},
                                 cmd : Command \cup {None}]]
        /\ \A c \in Callers : (call[c].at = "idle") <=> (call[c].cmd = None)
    <3>1. Idle \in [at : {"idle", "waiting", "sending"}, cmd : Command \cup {None}]
      BY DEF Idle
    <3> QED
      BY <3>1 DEF Init, Idle
  <2>4. newest \in [Devices \X Slots -> Nat]
    BY <1>1 DEF Init
  <2>5. dongle \in [open : BOOLEAN, backoff : BOOLEAN]
    BY DEF Init
  <2> QED
    BY <1>1, <2>1, <2>2, <2>3, <2>4, <2>5 DEF Init, Typed
<1>3. LimitInv
  BY ConvergenceAssumption, FS_EmptySet DEF Init, LimitInv
<1>4. HolderInv
  BY Distinct DEF Init, HolderInv, Idle, Free, NoBind, Actors
<1>5. OrderInv /\ NewestInv /\ AirInv
  BY Distinct DEF Init, OrderInv, NewestInv, AirInv, Taken, Idle, Free, Actors
<1> QED
  BY <1>2, <1>3, <1>4, <1>5 DEF IInv

(* Nothing happens. *)
LEMMA StutterInv == IInv /\ UNCHANGED vars => IInv'
BY DEF IInv, Typed, LimitInv, HolderInv, OrderInv, NewestInv, AirInv, Taken, vars

(* The inductive invariant holds in every behaviour. *)
THEOREM QueueInvariance == Spec => []IInv
<1>1. IInv /\ [Next]_vars => IInv'
  <2> SUFFICES ASSUME IInv, [Next]_vars PROVE IInv'
    OBVIOUS
  <2>1. ASSUME NEW c \in Callers, NEW dev \in Devices, NEW slot \in Slots,
               NEW retries \in {0, Retries}, Issue(c, dev, slot, retries)
        PROVE  IInv'
    BY <2>1, IssueKeeps
  <2>2. ASSUME NEW c \in Callers, Enqueue(c) PROVE IInv'
    BY <2>2, BusyKeeps, RefuseKeeps, AdmitKeeps DEF Enqueue
  <2>3. CASE TakeQueue \/ Requeue \/ DrainStep
    BY <2>3, TakeQueueKeeps, RequeueKeeps, SendPendingKeeps, DeferPendingKeeps,
       DropObsoleteKeeps DEF DrainStep
  <2>4. ASSUME NEW cmd \in batch,
               PickAcknowledged(cmd) \/ PickNotDue(cmd) \/ PickDue(cmd)
        PROVE  IInv'
    BY <2>4, PickAcknowledgedKeeps, PickNotDueKeeps, PickDueKeeps
  <2>5. ASSUME NEW a \in Actors, LockDongle(a) \/ Operate(a) PROVE IInv'
    BY <2>5, LockDongleKeeps, SendFrameKeeps, OperationKeeps DEF Operate
  <2>6. CASE BackoffEnds
    BY <2>6, BackoffEndsKeeps
  <2>7. CASE Binding
    BY <2>7, BeginBindingKeeps, BindingAllowedKeeps, BindingFailsKeeps,
       SendBindAgainKeeps, ConfirmBindingKeeps DEF Binding
  <2>8. CASE Upload
    BY <2>8, ReservePictureKeeps, NextChunkKeeps, EndUploadKeeps DEF Upload
  <2>9. CASE UNCHANGED vars
    BY <2>9, StutterInv
  <2> QED
    BY <2>1, <2>2, <2>3, <2>4, <2>5, <2>6, <2>7, <2>8, <2>9 DEF Next
<1> QED
  BY <1>1, InitInv, PTL DEF Spec

(* MAX_PENDING_COMMANDS and the replacement of a queued command: the queue    *)
(* keeps its limit and one command for a slot while commands leave it and    *)
(* come back.                                                                *)
THEOREM QueueTypeCorrect == Spec => []TypeOK
<1>1. IInv => TypeOK
  BY DEF IInv, Typed, LimitInv, OrderInv, TypeOK
<1> QED
  BY <1>1, QueueInvariance, PTL

(* send_aio_pic, begin_binding and binding_blocks_control: no control frame   *)
(* is on the air for a device once a chunk or a bind frame has left for it,  *)
(* or while it is unbound by hand.                                           *)
THEOREM FramesKeepAway == Spec => []ControlUndisturbed
<1>1. IInv => ControlUndisturbed
  <2> SUFFICES ASSUME IInv, OnAir # None
               PROVE  /\ OnAir.slot # Pwm => ~(uploader.dev = OnAir.dev /\ uploader.chunks > 0)
                      /\ ~(binder.dev = OnAir.dev /\ binder.tries > 0)
                      /\ OnAir.dev \notin unbound
    BY DEF ControlUndisturbed
  <2>1. CASE tx.by \in Callers
    <3>1. OnAir = call[tx.by].cmd /\ call[tx.by].at = "sending"
      BY <2>1 DEF OnAir, IInv, HolderInv
    <3> QED
      BY <2>1, <3>1 DEF IInv, AirInv
  <2>2. CASE tx.by \notin Callers
    <3>1. tx.by = Drain /\ tx.stage = "air" /\ OnAir = hand
      BY <2>2 DEF OnAir
    <3>2. uploader.chunks \in Nat /\ binder.tries \in Nat
      BY DEF IInv, Typed
    <3> QED
      BY <3>1, <3>2 DEF IInv, AirInv
  <2> QED
    BY <2>1, <2>2
<1> QED
  BY <1>1, QueueInvariance, PTL

(* A frame is started only by a caller in its turn, with the newest command   *)
(* of its slot, or by the convergence thread after a look at the queue.      *)
LEMMA FrameStarts ==
  ASSUME IInv, Next, OnAir = None, OnAir' # None
  PROVE  newest[<<OnAir'.dev, OnAir'.slot>>] \in purged \cup {OnAir'.id}
<1>1. tx.stage = "air" => tx.by \notin Callers \cup {Drain}
  <2>1. tx.by \in Callers => call[tx.by].cmd # None
    BY DEF IInv, Typed, HolderInv
  <2>2. tx.by = Drain => hand # None
    BY DEF IInv, Typed, HolderInv
  <2> QED
    BY <2>1, <2>2, Distinct DEF OnAir
<1>2. tx'.stage = "air" /\ tx'.by \in Callers \cup {Drain}
  BY DEF OnAir
<1>3. tx' # tx
  BY <1>1, <1>2
<1>4. Free.stage # "air"
  BY DEF Free
<1>5. /\ tx \in [by : Actors \cup {None}, stage : {"free", "ready", "air", "reopen"},
                again : BOOLEAN, sent : BOOLEAN]
  BY DEF IInv, Typed
<1>6. PICK a \in Actors : SendFrame(a) \/ SendPending
  <2>1. ASSUME NEW a \in Actors, LockDongle(a) \/ DongleFails(a) \/ FindMissing(a) \/ Reopen(a)
        PROVE  FALSE
    BY <1>2, <1>4, <1>5, <2>1
    DEF LockDongle, DongleFails, FindMissing, Reopen, Answered, Free
  <2>2. ASSUME NEW a \in Actors, FrameSent(a) \/ FrameFails(a) \/ BackOff(a) \/ ReopenFails(a)
        PROVE  FALSE
    BY <1>2, <1>4, <2>2 DEF FrameSent, FrameFails, BackOff, ReopenFails, Answered
  <2>3. ~DeferPending /\ ~DropObsolete
    BY <1>2, <1>4 DEF DeferPending, DropObsolete
  <2>4. ~TakeQueue /\ ~Requeue /\ ~BackoffEnds /\ ~Binding /\ ~Upload
    BY <1>3 DEF TakeQueue, Requeue, BackoffEnds, Binding, BeginBinding, BindingAllowed,
                BindingFails, SendBindAgain, ConfirmBinding, Upload, ReservePicture,
                NextChunk, EndUpload
  <2>5. ASSUME NEW c \in Callers PROVE ~Enqueue(c)
    BY <1>3 DEF Enqueue, Busy, Refuse, Admit
  <2>6. ASSUME NEW cmd \in batch
        PROVE  ~(PickAcknowledged(cmd) \/ PickNotDue(cmd) \/ PickDue(cmd))
    BY <1>3 DEF PickAcknowledged, PickNotDue, PickDue
  <2>7. ASSUME NEW c \in Callers, NEW dev \in Devices, NEW slot \in Slots,
               NEW retries \in {0, Retries}
        PROVE  ~Issue(c, dev, slot, retries)
    BY <1>3 DEF Issue
  <2>8. (\E a \in Actors : LockDongle(a) \/ Operate(a)) \/ DrainStep
    BY <2>4, <2>5, <2>6, <2>7 DEF Next
  <2>9. Drain \in Actors
    BY DEF Actors
  <2> QED
    BY <2>1, <2>2, <2>3, <2>8, <2>9 DEF Operate, DrainStep
<1>7. CASE SendPending
  <2>1. OnAir' = hand /\ hand \in Taken
    BY <1>2, <1>5, <1>7, Distinct
    DEF SendPending, Holds, OnAir, Taken, IInv, Typed, HolderInv, thread
  <2> QED
    BY <1>7, <2>1 DEF SendPending, Superseded, IInv, NewestInv
<1>8. CASE SendFrame(a)
  <2>1. tx.by = a /\ tx'.by = a /\ call' = call
    BY <1>5, <1>8 DEF SendFrame, Holds
  <2>2. a \in Callers
    BY <1>2, <1>8, <2>1, Distinct DEF SendFrame
  <2>3. OnAir' = call[a].cmd /\ call[a].at = "sending"
    BY <1>2, <2>1, <2>2 DEF OnAir, IInv, HolderInv
  <2> QED
    BY <2>2, <2>3 DEF IInv, NewestInv
<1> QED
  BY <1>6, <1>7, <1>8

(* superseded_command: the frame that is started is the newest of its slot,   *)
(* except for one that a binding operation has purged.                       *)
THEOREM NewestCommandWins == Spec => NewestWins
<1>1. IInv /\ [Next]_vars =>
        [OnAir = None /\ OnAir' # None =>
           LET i == newest[<<OnAir'.dev, OnAir'.slot>>]
           IN  i = OnAir'.id \/ i \in purged]_vars
  <2> SUFFICES ASSUME IInv, Next, OnAir = None, OnAir' # None
               PROVE  newest[<<OnAir'.dev, OnAir'.slot>>] \in purged \cup {OnAir'.id}
    OBVIOUS
  <2> QED
    BY FrameStarts
<1> QED
  BY <1>1, QueueInvariance, PTL DEF Spec, NewestWins

-----------------------------------------------------------------------------
(* The number of frames. *)

(* The frames that a caller under way may still send: one, and if it repeats *)
(* one for a lost dongle; none when the last is on the air.                  *)
Remaining ==
  LET single == call[order].cmd.left = 0
  IN IF tx.by # order THEN IF single THEN 1 ELSE 2
     ELSE IF tx.stage = "air" THEN IF single \/ tx.again THEN 0 ELSE 1
     ELSE IF single \/ tx.again \/ tx.stage = "reopen" THEN 1 ELSE 2

(* What a command has cost, or may cost its caller yet. *)
Used(i) == frames[i] + (IF order # None /\ call[order].cmd.id = i THEN Remaining ELSE 0)

Limit == 2 * (Retries + 1) + started.uploads

(* The attempts the convergence thread may make yet. *)
Attempts(x) == x.left + (IF x.initial THEN 1 ELSE 0)

(* The frames of the attempt under way, which is still counted among them,   *)
(* and one that an upload has made room for.                                 *)
InFlight ==
  IF tx.by # Drain THEN 0
  ELSE IF tx.stage = "air" /\ tx.again THEN 2
  ELSE IF (tx.stage = "air" \/ tx.sent) /\ ~Uploading(hand) THEN 1
  ELSE 0

(* Commands are numbered, and one without retries is never sent by the       *)
(* convergence thread.                                                       *)
NumberInv ==
  /\ frames \in [Ids -> Nat]
  /\ started \in [bindings : Nat, uploads : Nat]
  /\ \A i \in once : i <= admitted
  /\ \A i \in Ids : i > admitted => frames[i] = 0
  /\ order # None =>
       /\ call[order].cmd.id <= admitted
       /\ (call[order].cmd.left = 0) <=> (call[order].cmd.id \in once)
  /\ \A x, y \in queue \cup Taken : x.id = y.id => SameSlot(x, y)
  /\ \A x \in queue \cup Taken : x.id \in once => x.left = 0 /\ ~x.initial
  /\ drain = "send" => ~Exhausted(hand)
  /\ tx.by = Drain /\ tx.sent => tx.again \/ tx.stage = "reopen"

(* What a command has cost and its attempts yet to come keep the limit. *)
BudgetInv ==
  /\ \A i \in Ids : Used(i) <= IF i \in once THEN 1 ELSE Limit
  /\ \A x \in queue \cup batch : x.id \in Ids \ once =>
       Used(x.id) + 2 * Attempts(x) <= Limit
  /\ hand # None /\ hand.id \in Ids \ once =>
       Used(hand.id) + 2 * Attempts(hand) <= Limit + InFlight

Costs == NumberInv /\ BudgetInv

(* Every count is a number. *)
LEMMA CostTypes ==
  ASSUME IInv, NumberInv
  PROVE  /\ \A i \in Ids : frames[i] \in Nat /\ Used(i) \in Nat /\ frames[i] <= Used(i)
         /\ Limit \in Nat /\ InFlight \in 0..2
         /\ \A x \in Command : Attempts(x) \in Nat
         /\ order # None => Remaining \in 0..2
<1>1. Retries \in Nat /\ started.uploads \in Nat
  BY ConvergenceAssumption DEF NumberInv
<1>2. Limit \in Nat
  BY <1>1 DEF Limit
<1>3. InFlight \in 0..2
  BY DEF InFlight
<1>4. ASSUME NEW x \in Command
      PROVE  Attempts(x) \in Nat
  <2>1. x.left \in Nat /\ x.initial \in BOOLEAN
    BY <1>1 DEF Command
  <2> QED
    BY <2>1 DEF Attempts
<1>5. order # None => Remaining \in 0..2
  BY DEF Remaining
<1>6. ASSUME NEW i \in Ids
      PROVE  frames[i] \in Nat /\ Used(i) \in Nat /\ frames[i] <= Used(i)
  <2>1. frames[i] \in Nat
    BY <1>6 DEF NumberInv
  <2> QED
    BY <1>5, <2>1 DEF Used
<1> QED
  BY <1>2, <1>3, <1>4, <1>5, <1>6

(* Commands move or go, and others operate or reserve their devices. *)
LEMMA CommandsMove ==
  ASSUME IInv, IInv', Costs,
         UNCHANGED <<frames, admitted, once, order>>,
         started' \in [bindings : Nat, uploads : Nat], started.uploads <= started'.uploads,
         order # None => call'[order] = call[order],
         \/ tx' = tx
         \/ tx.by \notin Callers \cup {Drain} /\ tx'.by \notin Callers \cup {Drain},
         queue' \cup Taken' \subseteq queue \cup Taken,
         \/ /\ hand' = hand /\ drain' = drain /\ queue' \cup batch' \subseteq queue \cup batch
            /\ \/ uploader'.dev \in {uploader.dev, None}
               \/ started'.uploads > started.uploads
         \/ tx.by # Drain /\ (drain' = "send" => ~Exhausted(hand'))
  PROVE  Costs'
<1>1. NumberInv'
  BY DEF Costs, NumberInv, Exhausted, SameSlot
<1>2. Remaining' = Remaining \/ order = None
  BY DEF Remaining, IInv, Typed
<1>3. \A i \in Ids : Used(i)' = Used(i)
  BY <1>2 DEF Used
<1>4. /\ \A i \in Ids : Used(i) \in Nat
      /\ Limit \in Nat /\ InFlight \in 0..2 /\ Limit' \in Nat /\ InFlight' \in 0..2
      /\ Limit' = Limit + (started'.uploads - started.uploads)
      /\ started.uploads \in Nat /\ started'.uploads \in Nat
  <2>1. /\ \A i \in Ids : Used(i) \in Nat
        /\ Limit \in Nat /\ InFlight \in 0..2 /\ started.uploads \in Nat
    BY CostTypes DEF Costs, NumberInv
  <2>2. InFlight' \in 0..2
    BY DEF InFlight
  <2>3. started'.uploads \in Nat /\ Retries \in Nat
    BY ConvergenceAssumption
  <2> QED
    BY <2>1, <2>2, <2>3 DEF Limit
<1>5. \A x \in Command : Attempts(x) \in Nat
  BY CostTypes DEF Costs
<1>6. BudgetInv
  BY DEF Costs
<1>7. \A i \in Ids : Used(i)' <= IF i \in once' THEN 1 ELSE Limit'
  <2>1. ASSUME NEW i \in Ids
        PROVE  Used(i) <= IF i \in once THEN 1 ELSE Limit'
    <3>1. Used(i) <= IF i \in once THEN 1 ELSE Limit
      BY <1>6 DEF BudgetInv
    <3> QED
      BY <1>4, <3>1
  <2> QED
    BY <1>3, <2>1
<1>8. \A x \in queue \cup batch : x.id \in Ids \ once =>
        Used(x.id) + 2 * Attempts(x) <= Limit'
  <2>1. ASSUME NEW x \in queue \cup batch, x.id \in Ids \ once
        PROVE  Used(x.id) + 2 * Attempts(x) <= Limit'
    <3>1. Used(x.id) + 2 * Attempts(x) <= Limit
      BY <1>6, <2>1 DEF BudgetInv
    <3>2. Used(x.id) \in Nat /\ Attempts(x) \in Nat
      BY <1>4, <1>5, <2>1 DEF IInv, Typed
    <3> QED
      BY <1>4, <3>1, <3>2
  <2> QED
    BY <2>1
<1>9. CASE /\ hand' = hand /\ queue' \cup batch' \subseteq queue \cup batch
           /\ \/ uploader'.dev \in {uploader.dev, None}
              \/ started'.uploads > started.uploads
  <2>1. ASSUME hand # None, hand.id \in Ids \ once
        PROVE  Used(hand.id) + 2 * Attempts(hand) <= Limit' + InFlight'
    <3>1. Used(hand.id) + 2 * Attempts(hand) <= Limit + InFlight
      BY <1>6, <2>1 DEF BudgetInv
    <3>2. Used(hand.id) \in Nat /\ Attempts(hand) \in Nat /\ hand \in Command
      BY <1>4, <1>5, <2>1 DEF IInv, Typed
    <3>3. InFlight <= InFlight' \/ (started'.uploads > started.uploads /\ InFlight <= InFlight' + 1)
      <4>1. CASE tx' = tx
        <5>1. hand.dev # None
          BY <3>2, Distinct DEF Command
        <5>2. CASE uploader'.dev \in {uploader.dev, None}
          <6>1. Uploading(hand)' => Uploading(hand)
            BY <1>9, <5>1, <5>2 DEF Uploading
          <6> QED
            BY <4>1, <6>1 DEF InFlight
        <5>3. CASE started'.uploads > started.uploads
          <6> HIDE DEF Uploading
          <6> QED
            BY <4>1, <5>3 DEF InFlight
        <5> QED
          BY <1>9, <5>2, <5>3
      <4>2. CASE tx' # tx
        BY <1>4, <4>2 DEF InFlight
      <4> QED
        BY <4>1, <4>2
    <3> QED
      BY <1>4, <3>1, <3>2, <3>3
  <2>2. BudgetInv'
    BY <1>3, <1>7, <1>8, <1>9, <2>1 DEF BudgetInv, Attempts
  <2> QED
    BY <1>1, <2>2 DEF Costs
<1>10. CASE tx.by # Drain
  <2>1. InFlight = 0
    BY <1>10 DEF InFlight
  <2>2. \A x \in queue \cup Taken : x.id \in Ids \ once =>
          Used(x.id) + 2 * Attempts(x) <= Limit'
    <3>1. ASSUME hand # None, hand.id \in Ids \ once
          PROVE  Used(hand.id) + 2 * Attempts(hand) <= Limit'
      <4>1. Used(hand.id) + 2 * Attempts(hand) <= Limit
        <5>1. Used(hand.id) + 2 * Attempts(hand) <= Limit + 0
          BY <1>6, <2>1, <3>1 DEF BudgetInv
        <5> QED
          BY <1>4, <5>1
      <4>2. Used(hand.id) \in Nat /\ Attempts(hand) \in Nat
        BY <1>4, <1>5, <3>1 DEF IInv, Typed
      <4> QED
        BY <1>4, <4>1, <4>2
    <3> QED
      BY <1>8, <3>1 DEF Taken
  <2>3. \A x \in queue' \cup batch' : x.id \in Ids \ once =>
          Used(x.id) + 2 * Attempts(x) <= Limit'
    BY <2>2 DEF Taken
  <2>4. ASSUME hand' # None, hand'.id \in Ids \ once
        PROVE  Used(hand'.id) + 2 * Attempts(hand') <= Limit' + InFlight'
    <3>1. hand' \in queue \cup Taken /\ hand' \in Command
      BY <2>4 DEF Taken, IInv, Typed
    <3>2. Used(hand'.id) + 2 * Attempts(hand') <= Limit'
      BY <2>2, <2>4, <3>1
    <3>3. Used(hand'.id) \in Nat /\ Attempts(hand') \in Nat
      BY <1>4, <1>5, <2>4, <3>1
    <3> QED
      BY <1>4, <3>2, <3>3
  <2>5. BudgetInv'
    <3>1. \A x \in queue' \cup batch' : x.id \in Ids \ once =>
            Used(x.id)' + 2 * Attempts(x) <= Limit'
      BY <1>3, <2>3
    <3>2. hand' # None /\ hand'.id \in Ids \ once =>
            (frames[hand'.id] + (IF order # None /\ call'[order].cmd.id = hand'.id
                                 THEN Remaining' ELSE 0)) + 2 * Attempts(hand')
              <= Limit' + InFlight'
      BY <1>2, <2>4 DEF Used
    <3> QED
      BY <1>7, <3>1, <3>2 DEF BudgetInv, Attempts, Used
  <2> QED
    BY <1>1, <2>5 DEF Costs
<1> QED
  BY <1>9, <1>10

(* A caller sends, and ends. *)
LEMMA CallerPays ==
  ASSUME IInv, IInv', Costs,
         UNCHANGED <<queue, batch, hand, drain, admitted, once, started>>,
         frames' \in [Ids -> Nat],
         \A i \in Ids : i > admitted => frames'[i] = 0,
         \A i \in Ids : Used(i)' <= Used(i) /\ Used(i)' \in Nat,
         tx.by # Drain, tx'.by # Drain,
         order' = None \/ (order' = order /\ call'[order] = call[order])
  PROVE  Costs'
<1>1. NumberInv'
  BY DEF Costs, NumberInv, Exhausted, SameSlot, Taken
<1>2. /\ \A i \in Ids : Used(i) \in Nat
      /\ Limit \in Nat /\ InFlight = 0
      /\ \A x \in Command : Attempts(x) \in Nat
  BY CostTypes DEF Costs, InFlight
<1>3. Limit' = Limit /\ InFlight' = 0
  BY DEF Limit, InFlight
<1>4. \A i \in Ids : Used(i)' <= IF i \in once THEN 1 ELSE Limit
  <2>1. ASSUME NEW i \in Ids
        PROVE  Used(i)' <= IF i \in once THEN 1 ELSE Limit
    <3>1. Used(i) <= IF i \in once THEN 1 ELSE Limit
      BY DEF Costs, BudgetInv
    <3>2. Used(i)' <= Used(i) /\ Used(i)' \in Nat /\ Used(i) \in Nat
      BY <1>2
    <3> QED
      BY <1>2, <3>1, <3>2
  <2> QED
    BY <2>1
<1>5. \A x \in queue \cup Taken : x.id \in Ids \ once =>
        Used(x.id)' + 2 * Attempts(x) <= Limit
  <2>1. ASSUME NEW x \in queue \cup Taken, x.id \in Ids \ once
        PROVE  Used(x.id)' + 2 * Attempts(x) <= Limit
    <3>1. Used(x.id) + 2 * Attempts(x) <= Limit + InFlight
      <4>1. CASE x \in queue \cup batch
        <5>1. Used(x.id) + 2 * Attempts(x) <= Limit
          BY <2>1, <4>1 DEF Costs, BudgetInv
        <5> QED
          BY <1>2, <5>1
      <4>2. CASE x = hand /\ hand # None
        BY <2>1, <4>2 DEF Costs, BudgetInv
      <4> QED
        BY <2>1, <4>1, <4>2 DEF Taken
    <3>2. x \in Command
      BY <2>1 DEF Taken, IInv, Typed
    <3>3. Attempts(x) \in Nat /\ Used(x.id) \in Nat /\ Used(x.id)' \in Nat
          /\ Used(x.id)' <= Used(x.id)
      BY <1>2, <2>1, <3>2
    <3> QED
      BY <1>2, <3>1, <3>3
  <2> QED
    BY <2>1
<1>6. BudgetInv'
  <2>1. \A x \in queue \cup batch : x.id \in Ids \ once =>
          Used(x.id)' + 2 * Attempts(x) <= Limit
    BY <1>5 DEF Taken
  <2>2. hand # None /\ hand.id \in Ids \ once =>
          Used(hand.id)' + 2 * Attempts(hand) <= Limit + 0
    <3>1. ASSUME hand # None, hand.id \in Ids \ once
          PROVE  Used(hand.id)' + 2 * Attempts(hand) <= Limit + 0
      <4>1. Used(hand.id)' + 2 * Attempts(hand) <= Limit /\ hand \in Command
        BY <1>5, <3>1 DEF Taken, IInv, Typed
      <4> QED
        BY <1>2, <3>1, <4>1
    <3> QED
      BY <3>1
  <2> QED
    BY <1>3, <1>4, <2>1, <2>2 DEF BudgetInv, Attempts, Used
<1> QED
  BY <1>1, <1>6 DEF Costs

(* The convergence thread begins an attempt, sends a frame or tries again:   *)
(* the frame is one of the attempt.                                          *)
LEMMA AttemptPays ==
  ASSUME IInv, IInv', Costs, tx.by = Drain \/ tx = Free, tx'.by = Drain,
         UNCHANGED <<queue, batch, hand, call, order, admitted, once, started, uploader>>,
         drain = "send", drain' = "send",
         tx'.sent => tx'.again \/ tx'.stage = "reopen",
         \/ frames' = frames /\ InFlight <= InFlight'
         \/ /\ frames' = [frames EXCEPT ![hand.id] = @ + 1]
            /\ InFlight + 1 <= InFlight'
  PROVE  Costs'
<1>1. hand \in Command /\ hand # None /\ hand \in Taken
  BY DEF IInv, Typed, Taken
<1>2. hand.id \notin once
  BY <1>1 DEF Costs, NumberInv, Exhausted
<1>3. hand.id <= admitted /\ admitted \in Nat /\ hand.id \in Nat
  BY <1>1 DEF IInv, OrderInv, Typed, Command
<1>4. /\ \A i \in Ids : Used(i) \in Nat /\ frames[i] \in Nat
      /\ Limit \in Nat /\ InFlight \in 0..2
      /\ \A x \in Command : Attempts(x) \in Nat
  BY CostTypes DEF Costs
<1>5. Limit' = Limit /\ InFlight' \in 0..2
  BY DEF Limit, InFlight
<1>6. /\ frames' \in [Ids -> Nat]
      /\ \A i \in Ids : i # hand.id => frames'[i] = frames[i]
      /\ hand.id \in Ids => frames'[hand.id] + InFlight <= frames[hand.id] + InFlight'
  <2>1. frames \in [Ids -> Nat]
    BY DEF Costs, NumberInv
  <2>2. CASE frames' = frames /\ InFlight <= InFlight'
    BY <1>4, <1>5, <2>1, <2>2
  <2>3. CASE /\ frames' = [frames EXCEPT ![hand.id] = @ + 1]
             /\ InFlight + 1 <= InFlight'
    <3>1. frames' \in [Ids -> Nat] /\ \A i \in Ids : i # hand.id => frames'[i] = frames[i]
      <4>1. hand.id \in Ids => frames[hand.id] + 1 \in Nat
        BY <1>4
      <4> QED
        BY <2>1, <2>3, <4>1
    <3>2. hand.id \in Ids => frames'[hand.id] = frames[hand.id] + 1
      BY <2>1, <2>3
    <3> QED
      BY <1>4, <1>5, <2>3, <3>1, <3>2
  <2> QED
    BY <2>2, <2>3
<1>7. NumberInv'
  <2>1. \A i \in Ids : i > admitted => frames'[i] = 0
    BY <1>3, <1>6 DEF Costs, NumberInv, Ids
  <2> QED
    BY <1>6, <2>1 DEF Costs, NumberInv, Exhausted, SameSlot, Taken
<1>8. order # None => Remaining' = Remaining
  BY Distinct DEF Remaining, Free, IInv, Typed
<1>9. /\ \A i \in Ids : i # hand.id => Used(i)' = Used(i)
      /\ hand.id \in Ids => /\ Used(hand.id)' \in Nat
                            /\ Used(hand.id)' + InFlight <= Used(hand.id) + InFlight'
  <2>1. \A i \in Ids : i # hand.id => Used(i)' = Used(i)
    BY <1>6, <1>8 DEF Used
  <2>2. order # None => Remaining \in 0..2
    BY CostTypes DEF Costs
  <2>3. ASSUME hand.id \in Ids
        PROVE  /\ Used(hand.id)' \in Nat
               /\ Used(hand.id)' + InFlight <= Used(hand.id) + InFlight'
    BY <1>4, <1>5, <1>6, <1>8, <2>2, <2>3 DEF Used
  <2> QED
    BY <2>1, <2>3
<1>10. \A x \in queue \cup batch : x.id # hand.id
  <2>1. ASSUME NEW x \in queue, x.id = hand.id
        PROVE  FALSE
    <3>1. SameSlot(x, hand)
      BY <1>1, <2>1 DEF Costs, NumberInv
    <3>2. hand.id < x.id
      BY <1>1, <3>1 DEF IInv, OrderInv
    <3> QED
      BY <1>3, <2>1, <3>2
  <2>2. ASSUME NEW x \in batch, x.id = hand.id
        PROVE  FALSE
    <3>1. x \in Taken
      BY DEF Taken
    <3>2. SameSlot(x, hand)
      BY <1>1, <2>2, <3>1 DEF Costs, NumberInv
    <3> QED
      BY <1>1, <3>2 DEF IInv, OrderInv
  <2> QED
    BY <2>1, <2>2
<1>11. BudgetInv'
  <2>1. hand.id \in Ids => Used(hand.id)' + 2 * Attempts(hand) <= Limit + InFlight'
    <3>1. ASSUME hand.id \in Ids
          PROVE  Used(hand.id)' + 2 * Attempts(hand) <= Limit + InFlight'
      <4>1. Used(hand.id) + 2 * Attempts(hand) <= Limit + InFlight
        BY <1>1, <1>2, <3>1 DEF Costs, BudgetInv
      <4>2. Attempts(hand) \in Nat /\ Used(hand.id) \in Nat
        BY <1>1, <1>4, <3>1
      <4> QED
        BY <1>4, <1>5, <1>9, <3>1, <4>1, <4>2
    <3> QED
      BY <3>1
  <2>2. ASSUME NEW i \in Ids
        PROVE  Used(i)' <= IF i \in once THEN 1 ELSE Limit
    <3>1. CASE i # hand.id
      BY <1>9, <3>1 DEF Costs, BudgetInv
    <3>2. CASE i = hand.id
      <4>1. InFlight' <= 2 * Attempts(hand)
        <5>1. Attempts(hand) >= 1
          <6>1. hand.left \in Nat /\ hand.initial \in BOOLEAN
            BY <1>1, ConvergenceAssumption DEF Command
          <6>2. hand.initial \/ hand.left # 0
            BY DEF Costs, NumberInv, Exhausted
          <6> QED
            BY <6>1, <6>2 DEF Attempts
        <5>2. Attempts(hand) \in Nat
          BY <1>1, <1>4
        <5> QED
          BY <1>5, <5>1, <5>2
      <4>2. Attempts(hand) \in Nat
        BY <1>1, <1>4
      <4>3. Used(i)' \in Nat /\ Used(i)' + 2 * Attempts(hand) <= Limit + InFlight'
        BY <1>9, <2>1, <3>2
      <4>4. Used(i)' <= Limit
        BY <1>4, <1>5, <4>1, <4>2, <4>3
      <4> QED
        BY <1>2, <3>2, <4>4
    <3> QED
      BY <3>1, <3>2
  <2>3. \A x \in queue \cup batch : x.id \in Ids \ once =>
          Used(x.id)' + 2 * Attempts(x) <= Limit
    BY <1>9, <1>10 DEF Costs, BudgetInv
  <2> QED
    BY <1>5, <2>1, <2>2, <2>3 DEF BudgetInv, Attempts, Used
<1> QED
  BY <1>7, <1>11 DEF Costs

(* An attempt that is over is taken off the retries, unless nothing was sent *)
(* for a reason that costs none, or an upload has made room.                 *)
LEMMA AttemptCounted ==
  ASSUME IInv, IInv', Costs, tx.by = Drain, tx' = Free,
         NEW sent \in BOOLEAN, NEW result, hand' = AccountRetry(hand, sent, result),
         drain' = "requeue",
         UNCHANGED <<queue, batch, call, order, admitted, once, started, frames>>,
         \/ sent /\ result \in {"ok", "failed"}
         \/ ~sent /\ InFlight = 0
         \/ result = "deferred" /\ InFlight = 0
         \/ sent /\ result = "backoff"
  PROVE  Costs'
<1>1. hand \in Command /\ hand # None /\ hand \in Taken /\ drain = "send"
  BY DEF IInv, Typed, HolderInv, Taken
<1>2. hand.left \in Nat /\ hand.initial \in BOOLEAN /\ (hand.initial \/ hand.left # 0)
      /\ Retries \in Nat
  BY <1>1, ConvergenceAssumption DEF Command, Costs, NumberInv, Exhausted
<1>3. /\ hand' \in Command /\ hand'.id = hand.id /\ hand'.dev = hand.dev
      /\ hand'.slot = hand.slot /\ hand' # None
  BY <1>1, RetryEffect, Distinct
<1>4. hand.id \notin once
  BY <1>1, <1>2 DEF Costs, NumberInv
<1>5. Taken = batch \cup {hand} /\ Taken' = batch \cup {hand'}
  BY <1>1, <1>3 DEF Taken
<1>6. NumberInv'
  BY <1>3, <1>4, <1>5, Distinct DEF Costs, NumberInv, SameSlot, Free, Actors
<1>7. /\ \A i \in Ids : Used(i) \in Nat
      /\ Limit \in Nat /\ InFlight \in 0..2
      /\ \A x \in Command : Attempts(x) \in Nat
  BY CostTypes DEF Costs
<1>8. Limit' = Limit /\ InFlight' = 0
  BY Distinct DEF Limit, InFlight, Free, Actors
<1>9. order # None => Remaining' = Remaining
  BY Distinct DEF Remaining, Free, IInv, Typed, Actors
<1>10. \A i \in Ids : Used(i)' = Used(i)
  BY <1>9 DEF Used
<1>11. Attempts(hand') \in Nat /\ 2 * Attempts(hand') + InFlight <= 2 * Attempts(hand)
  <2>1. CASE hand' = [hand EXCEPT !.initial = ~sent] /\ hand.initial /\ sent
    <3>1. hand'.initial = FALSE /\ hand'.left = hand.left
      BY <1>1, <2>1 DEF Command
    <3>2. Attempts(hand') = hand.left + 0 /\ Attempts(hand) = hand.left + 1
      BY <2>1, <3>1 DEF Attempts
    <3> QED
      BY <1>2, <1>7, <3>2
  <2>2. CASE hand' = [hand EXCEPT !.initial = ~sent] /\ hand.initial /\ ~sent
    <3>1. hand'.initial = TRUE /\ hand'.left = hand.left
      BY <1>1, <2>2 DEF Command
    <3>2. InFlight = 0 \/ result = "deferred"
      BY <2>2
    <3> QED
      BY <1>2, <1>7, <2>2, <3>1, <3>2 DEF Attempts
  <2>3. CASE hand' = [hand EXCEPT !.left = IF @ = 0 THEN 0 ELSE @ - 1] /\ ~hand.initial
    <3>1. hand'.initial = FALSE /\ hand'.left = hand.left - 1
      BY <1>1, <1>2, <2>3 DEF Command
    <3> QED
      BY <1>2, <1>7, <2>3, <3>1 DEF Attempts
  <2>4. CASE hand' = hand /\ InFlight = 0
    BY <1>1, <1>7, <2>4
  <2> QED
    BY <2>1, <2>2, <2>3, <2>4 DEF AccountRetry
<1>12. BudgetInv'
  <2>1. hand.id \in Ids => Used(hand.id) + 2 * Attempts(hand') <= Limit + 0
    <3>1. ASSUME hand.id \in Ids
          PROVE  Used(hand.id) + 2 * Attempts(hand') <= Limit + 0
      <4>1. Used(hand.id) + 2 * Attempts(hand) <= Limit + InFlight
        BY <1>1, <1>4, <3>1 DEF Costs, BudgetInv
      <4>2. Attempts(hand) \in Nat /\ Used(hand.id) \in Nat
        BY <1>1, <1>7, <3>1
      <4> QED
        BY <1>7, <1>11, <4>1, <4>2
    <3> QED
      BY <3>1
  <2>2. \A i \in Ids : Used(i)' <= IF i \in once THEN 1 ELSE Limit
    BY <1>10 DEF Costs, BudgetInv
  <2>3. \A x \in queue \cup batch : x.id \in Ids \ once =>
          Used(x.id)' + 2 * Attempts(x) <= Limit
    BY <1>10 DEF Costs, BudgetInv
  <2>4. hand'.id \in Ids =>
          (frames[hand'.id] + (IF order # None /\ call[order].cmd.id = hand'.id
                               THEN Remaining' ELSE 0)) + 2 * Attempts(hand') <= Limit + 0
    BY <1>3, <1>9, <2>1 DEF Used
  <2> QED
    BY <1>8, <2>2, <2>3, <2>4 DEF BudgetInv, Attempts, Used
<1> QED
  BY <1>6, <1>12 DEF Costs

(* A command is admitted with all its attempts before it, and the sum of     *)
(* them keeps the limit.                                                     *)
LEMMA AdmitPays ==
  ASSUME IInv, IInv', Costs, NEW c \in Callers, Admit(c)
  PROVE  Costs'
<1> PICK old : old = call[c].cmd
  OBVIOUS
<1> PICK cmd : cmd = [old EXCEPT !.id = admitted + 1, !.initial = Deferred(old)]
  OBVIOUS
<1>1. old \in Command /\ admitted \in Nat /\ admitted + 1 \in Nat /\ Retries \in Nat \ {0}
  BY ConvergenceAssumption DEF IInv, Typed, Admit, Waiting
<1>2. Deferred(old) \in BOOLEAN
  BY DEF Deferred
<1>3. /\ cmd \in Command /\ cmd.id = admitted + 1 /\ cmd.left = old.left
      /\ cmd.left \in 0..Retries /\ cmd.initial = Deferred(old)
  BY <1>1, <1>2 DEF Command
<1>4. /\ order = None /\ queue' = {x \in queue : ~SameSlot(x, cmd)} \cup {cmd}
      /\ admitted' = admitted + 1
      /\ once' = IF cmd.left = 0 THEN once \cup {admitted + 1} ELSE once
      /\ UNCHANGED <<batch, hand, drain, tx, uploader, frames, started>>
  BY <1>3 DEF Admit, AdmitCommand, thread
<1>5. \/ call' = [call EXCEPT ![c] = Idle] /\ order' = None /\ Deferred(old)
      \/ call' = [call EXCEPT ![c] = [at |-> "sending", cmd |-> cmd]] /\ order' = c
         /\ ~Deferred(old)
  BY <1>4 DEF Admit
<1>6. Deferred(old) => old.left > 0
  BY DEF Deferred
<1>7. tx.by \notin Callers /\ c # None
  BY <1>4, Distinct DEF IInv, HolderInv, Actors
<1>8. order' # None => call'[order'].cmd = cmd /\ order' = c /\ ~Deferred(old)
  BY <1>5 DEF IInv, Typed
<1>9. \A x \in queue \cup Taken : x \in Command /\ x.id <= admitted /\ x.id \in Nat
  BY DEF IInv, Typed, OrderInv, Taken, Command
<1>10. /\ \A i \in Ids : Used(i) \in Nat /\ frames[i] \in Nat
       /\ Limit \in Nat /\ InFlight \in 0..2
       /\ \A x \in Command : Attempts(x) \in Nat
  BY CostTypes DEF Costs
<1>11. Limit' = Limit /\ InFlight' = InFlight /\ Taken' = Taken
       /\ Limit >= 2 * (Retries + 1)
  <2>1. started.uploads \in Nat
    BY DEF Costs, NumberInv
  <2> QED
    BY <1>1, <1>4, <2>1 DEF Limit, InFlight, Taken, Uploading
<1>12. \A i \in Ids : Used(i) = frames[i]
  BY <1>4, <1>10 DEF Used
<1>13. NumberInv'
  <2>1. \A i \in once' : i <= admitted'
    <3>1. \A i \in once : i \in Nat /\ i <= admitted
      BY DEF Costs, NumberInv, IInv, Typed
    <3> QED
      BY <1>1, <1>4, <3>1
  <2>2. \A i \in Ids : i > admitted' => frames'[i] = 0
    BY <1>1, <1>4 DEF Costs, NumberInv, Ids
  <2>3. admitted + 1 \notin once
    BY <1>1 DEF Costs, NumberInv
  <2>4. order' # None =>
          /\ call'[order'].cmd.id <= admitted'
          /\ (call'[order'].cmd.left = 0) <=> (call'[order'].cmd.id \in once')
    <3>1. cmd.id <= admitted'
      BY <1>1, <1>3, <1>4
    <3>2. (cmd.left = 0) <=> (cmd.id \in once')
      BY <1>3, <1>4, <2>3
    <3> QED
      BY <1>8, <3>1, <3>2
  <2>5. \A x \in queue \cup Taken : x.id # cmd.id
    BY <1>1, <1>3, <1>9
  <2>6. \A x, y \in queue' \cup Taken' : x.id = y.id => SameSlot(x, y)
    <3>1. \A x, y \in queue \cup Taken : x.id = y.id => SameSlot(x, y)
      BY DEF Costs, NumberInv
    <3>2. queue' \cup Taken' \subseteq (queue \cup Taken) \cup {cmd}
      BY <1>4, <1>11
    <3>3. SameSlot(cmd, cmd)
      BY DEF SameSlot
    <3> QED
      BY <2>5, <3>1, <3>2, <3>3
  <2>7. cmd.id \in once' => cmd.left = 0 /\ ~cmd.initial
    BY <1>1, <1>3, <1>4, <1>6, <2>3
  <2>8. \A x \in queue \cup Taken : x.id \in once' => x.id \in once
    BY <1>3, <1>4, <2>5
  <2>9. \A x \in queue' \cup Taken' : x.id \in once' => x.left = 0 /\ ~x.initial
    BY <1>4, <1>11, <2>7, <2>8 DEF Costs, NumberInv
  <2> QED
    BY <1>4, <2>1, <2>2, <2>4, <2>6, <2>9 DEF Costs, NumberInv, Exhausted
<1>14. \A i \in Ids : i # cmd.id => Used(i)' = Used(i)
  BY <1>4, <1>8, <1>10, <1>12 DEF Used
<1>15. cmd.id \in Ids =>
         Used(cmd.id)' = IF Deferred(old) THEN 0 ELSE IF cmd.left = 0 THEN 1 ELSE 2
  <2>1. ASSUME cmd.id \in Ids
        PROVE  frames'[cmd.id] = 0
    BY <1>1, <1>3, <1>4, <2>1 DEF Costs, NumberInv
  <2>2. ~Deferred(old) => order' = c /\ call'[order'].cmd = cmd /\ tx'.by # order'
    BY <1>4, <1>5, <1>7, <1>8
  <2>3. CASE Deferred(old)
    <3>1. order' = None
      BY <1>5, <2>3
    <3>2. cmd.id \in Ids => Used(cmd.id)' = 0
      BY <2>1, <3>1 DEF Used
    <3> QED
      BY <2>3, <3>2
  <2>4. CASE ~Deferred(old)
    <3>1. order' = c /\ order' # None /\ call'[order'].cmd = cmd
      BY <1>7, <2>2, <2>4
    <3>2. Remaining' = IF cmd.left = 0 THEN 1 ELSE 2
      BY <2>2, <2>4, <3>1 DEF Remaining
    <3>3. cmd.id \in Ids => Used(cmd.id)' = 0 + Remaining'
      BY <2>1, <3>1 DEF Used
    <3> QED
      BY <2>4, <3>2, <3>3
  <2> QED
    BY <2>3, <2>4
<1>16. cmd.id \in Ids =>
         IF cmd.left = 0 THEN Used(cmd.id)' <= 1
         ELSE /\ Used(cmd.id)' + 2 * Attempts(cmd) <= Limit
              /\ Used(cmd.id)' <= Limit
  <2>1. CASE Deferred(old)
    <3>1. cmd.initial = TRUE /\ cmd.left # 0 /\ Attempts(cmd) = cmd.left + 1
      BY <1>3, <1>6, <2>1 DEF Attempts
    <3> QED
      BY <1>1, <1>3, <1>10, <1>11, <1>15, <2>1, <3>1
  <2>2. CASE ~Deferred(old)
    <3>1. Attempts(cmd) = cmd.left + 0
      BY <1>3, <2>2 DEF Attempts
    <3> QED
      BY <1>1, <1>3, <1>10, <1>11, <1>15, <2>2, <3>1
  <2> QED
    BY <2>1, <2>2
<1>17. BudgetInv'
  <2>1. admitted + 1 \notin once
    BY <1>1 DEF Costs, NumberInv
  <2>2. \A i \in Ids : i # cmd.id => (i \in once' <=> i \in once)
    BY <1>3, <1>4
  <2>3. cmd.id \in once' <=> cmd.left = 0
    BY <1>3, <1>4, <2>1
  <2>4. \A x \in queue \cup Taken : x.id # cmd.id
    BY <1>1, <1>3, <1>9
  <2>5. \A i \in Ids : Used(i)' <= IF i \in once' THEN 1 ELSE Limit
    <3>1. ASSUME NEW i \in Ids, i # cmd.id
          PROVE  Used(i)' <= IF i \in once' THEN 1 ELSE Limit
      <4>1. Used(i) <= IF i \in once THEN 1 ELSE Limit
        BY DEF Costs, BudgetInv
      <4> QED
        BY <1>14, <2>2, <3>1, <4>1
    <3>2. cmd.id \in Ids => Used(cmd.id)' <= IF cmd.id \in once' THEN 1 ELSE Limit
      BY <1>16, <2>3
    <3> QED
      BY <3>1, <3>2
  <2>6. \A x \in queue' \cup batch' : x.id \in Ids \ once' =>
          Used(x.id)' + 2 * Attempts(x) <= Limit
    <3>1. \A x \in queue \cup batch : x.id \in Ids \ once' =>
            Used(x.id)' + 2 * Attempts(x) <= Limit
      BY <1>14, <2>2, <2>4 DEF Costs, BudgetInv, Taken
    <3>2. cmd.id \in Ids \ once' => Used(cmd.id)' + 2 * Attempts(cmd) <= Limit
      BY <1>16, <2>3
    <3>3. queue' \cup batch' \subseteq queue \cup batch \cup {cmd}
      BY <1>4
    <3> QED
      BY <3>1, <3>2, <3>3
  <2>7. hand # None /\ hand.id \in Ids \ once' =>
          Used(hand.id)' + 2 * Attempts(hand) <= Limit + InFlight
    <3>1. hand # None => hand.id # cmd.id
      BY <2>4 DEF Taken
    <3>2. hand # None /\ hand.id \in Ids \ once =>
            Used(hand.id) + 2 * Attempts(hand) <= Limit + InFlight
      BY DEF Costs, BudgetInv
    <3>3. hand # None /\ hand.id \in Ids \ once' =>
            hand.id \in Ids \ once /\ Used(hand.id)' = Used(hand.id)
      BY <1>14, <2>2, <3>1, <1>4
    <3> QED
      BY <3>2, <3>3
  <2> QED
    BY <1>4, <1>11, <2>5, <2>6, <2>7 DEF BudgetInv, Attempts, Used
<1> QED
  BY <1>13, <1>17 DEF Costs

(* No command moves. *)
LEMMA NothingMoves ==
  ASSUME IInv, IInv', Costs,
         UNCHANGED <<queue, batch, hand, drain, order, admitted, once, frames, started>>,
         order # None => call'[order] = call[order],
         \/ tx' = tx
         \/ tx.by \notin Callers \cup {Drain} /\ tx'.by \notin Callers \cup {Drain},
         uploader'.dev \in {uploader.dev, None}
  PROVE  Costs'
<1>1. started' \in [bindings : Nat, uploads : Nat] /\ started.uploads <= started'.uploads
  BY DEF Costs, NumberInv
<1>2. queue' \cup Taken' \subseteq queue \cup Taken
  BY DEF Taken
<1> QED
  BY <1>1, <1>2, CommandsMove

(* A caller waits or gives up. *)
LEMMA WaitingCosts ==
  ASSUME IInv, IInv', Costs, NEW c \in Callers,
         \/ \E dev \in Devices, slot \in Slots, retries \in {0, Retries} :
               Issue(c, dev, slot, retries)
         \/ Busy(c) \/ Refuse(c)
  PROVE  Costs'
<1>1. /\ UNCHANGED <<queue, batch, hand, drain, order, admitted, once, frames, started, tx,
                     uploader>>
      /\ call[c].at \in {"idle", "waiting"}
      /\ \A d \in Callers : d # c => call'[d] = call[d]
  <2>1. CASE \E dev \in Devices, slot \in Slots, retries \in {0, Retries} :
                Issue(c, dev, slot, retries)
    BY <2>1 DEF Issue, Idle, thread, history, IInv, Typed
  <2>2. CASE Busy(c) \/ Refuse(c)
    BY <2>2 DEF Busy, Refuse, Waiting, thread, history, IInv, Typed
  <2> QED
    BY <2>1, <2>2
<1>2. order # None => order # c /\ order \in Callers
  BY <1>1 DEF IInv, Typed, HolderInv
<1> QED
  BY <1>1, <1>2, NothingMoves

(* A binding or an upload goes on. *)
LEMMA ReservedCosts ==
  ASSUME IInv, IInv', Costs,
         \/ BackoffEnds \/ BindingAllowed \/ BindingFails \/ SendBindAgain \/ ConfirmBinding
         \/ NextChunk \/ EndUpload
  PROVE  Costs'
<1>1. UNCHANGED <<queue, batch, hand, drain, call, order, admitted, once, frames, started, tx>>
  BY DEF BackoffEnds, BindingAllowed, BindingFails, SendBindAgain, ConfirmBinding, NextChunk,
         EndUpload, thread, history
<1>2. uploader'.dev \in {uploader.dev, None}
  BY DEF BackoffEnds, BindingAllowed, BindingFails, SendBindAgain, ConfirmBinding, NextChunk,
         EndUpload, NoUpload, IInv, Typed
<1> QED
  BY <1>1, <1>2, NothingMoves

(* A binding empties the queue of its device, and an upload waits for it.    *)
LEMMA ReservingCosts ==
  ASSUME IInv, IInv', Costs, NEW dev \in Devices,
         \/ \E verb \in {"bind", "unbind"} : BeginBinding(dev, verb)
         \/ ReservePicture(dev)
  PROVE  Costs'
<1>1. started \in [bindings : Nat, uploads : Nat]
  BY DEF Costs, NumberInv
<1>2. CASE \E verb \in {"bind", "unbind"} : BeginBinding(dev, verb)
  <2>1. /\ UNCHANGED <<batch, hand, drain, call, order, admitted, once, frames, tx, uploader>>
        /\ queue' \subseteq queue
        /\ started' = [started EXCEPT !.bindings = @ + 1]
    BY <1>2 DEF BeginBinding, thread
  <2>2. started' \in [bindings : Nat, uploads : Nat] /\ started.uploads <= started'.uploads
    <3>1. started.bindings + 1 \in Nat /\ started.uploads \in Nat
      BY <1>1
    <3> QED
      BY <1>1, <2>1, <3>1
  <2>3. queue' \cup Taken' \subseteq queue \cup Taken /\ queue' \cup batch' \subseteq queue \cup batch
    BY <2>1 DEF Taken
  <2> QED
    BY <2>1, <2>2, <2>3, CommandsMove
<1>3. CASE ReservePicture(dev)
  <2>1. /\ UNCHANGED <<queue, batch, hand, drain, call, order, admitted, once, frames, tx>>
        /\ started' = [started EXCEPT !.uploads = @ + 1]
    BY <1>3 DEF ReservePicture, thread
  <2>2. started' \in [bindings : Nat, uploads : Nat] /\ started.uploads < started'.uploads
        /\ started.uploads <= started'.uploads
    <3>1. started.uploads + 1 \in Nat /\ started.uploads \in Nat
      BY <1>1
    <3> QED
      BY <1>1, <2>1, <3>1
  <2>3. queue' \cup Taken' \subseteq queue \cup Taken /\ queue' \cup batch' \subseteq queue \cup batch
    BY <2>1 DEF Taken
  <2>4. started'.uploads > started.uploads
    BY <1>1, <2>2
  <2> QED
    BY <2>1, <2>2, <2>3, <2>4, CommandsMove
<1> QED
  BY <1>2, <1>3

(* The convergence thread takes a command up and puts it back. *)
LEMMA PickingCosts ==
  ASSUME IInv, IInv', Costs,
         \/ TakeQueue \/ Requeue
         \/ \E cmd \in batch : PickAcknowledged(cmd) \/ PickNotDue(cmd) \/ PickDue(cmd)
  PROVE  Costs'
<1>1. drain \in {"pick", "requeue"}
  BY DEF TakeQueue, Requeue, PickAcknowledged, PickNotDue, PickDue
<1>2. tx.by # Drain
  BY <1>1 DEF IInv, HolderInv
<1>3. UNCHANGED <<call, order, admitted, once, frames, started, tx, uploader>>
  BY DEF TakeQueue, Requeue, PickAcknowledged, PickNotDue, PickDue, history
<1>4. queue' \cup Taken' \subseteq queue \cup Taken
  <2>1. CASE TakeQueue
    BY <2>1 DEF TakeQueue, Taken
  <2>2. CASE Requeue
    BY <2>2 DEF Requeue, Taken, IInv, Typed
  <2>3. CASE \E cmd \in batch : PickAcknowledged(cmd) \/ PickNotDue(cmd) \/ PickDue(cmd)
    BY <2>3 DEF PickAcknowledged, PickNotDue, PickDue, Taken
  <2> QED
    BY <2>1, <2>2, <2>3
<1>5. drain' = "send" => ~Exhausted(hand')
  BY <1>1 DEF TakeQueue, Requeue, PickAcknowledged, PickNotDue, PickDue
<1>6. started' \in [bindings : Nat, uploads : Nat] /\ started.uploads <= started'.uploads
  BY <1>3 DEF Costs, NumberInv
<1> QED
  BY <1>2, <1>3, <1>4, <1>5, <1>6, CommandsMove

(* A binding or an upload has the dongle. *)
LEMMA OthersCosts ==
  ASSUME IInv, IInv', Costs, NEW a \in {Binder, Uploader}, LockDongle(a) \/ Operate(a)
  PROVE  Costs'
<1>1. a \notin Callers /\ a # Drain /\ a # None /\ None # Drain /\ None \notin Callers
  BY Distinct DEF Actors
<1>2. /\ UNCHANGED <<queue, batch, hand, drain, call, order, admitted, once, frames, started>>
      /\ tx.by \in {a, None} /\ tx'.by \in {a, None}
  <2>1. CASE LockDongle(a)
    BY <2>1 DEF LockDongle, Free, thread, history
  <2>2. CASE SendFrame(a)
    BY <1>1, <2>2 DEF SendFrame, Holds, thread, IInv, Typed
  <2>3. ASSUME NEW sent, NEW result, Answered(a, sent, result), tx.by = a
        PROVE  /\ UNCHANGED <<queue, batch, hand, drain, call, order, admitted, once, frames,
                              started>>
               /\ tx.by \in {a, None} /\ tx'.by \in {a, None}
    BY <1>1, <2>3 DEF Answered, Free, history
  <2>4. CASE FindMissing(a) \/ Reopen(a)
    BY <2>4 DEF FindMissing, Reopen, Holds, thread, history, IInv, Typed
  <2>5. CASE FrameSent(a) \/ FrameFails(a) \/ BackOff(a) \/ ReopenFails(a)
    BY <2>3, <2>5 DEF FrameSent, FrameFails, BackOff, ReopenFails, Holds
  <2>6. CASE DongleFails(a)
    BY <2>3, <2>6 DEF DongleFails, Holds, thread, history, IInv, Typed
  <2> QED
    BY <2>1, <2>2, <2>4, <2>5, <2>6 DEF Operate
<1>3. uploader'.dev \in {uploader.dev, None}
  <2>1. CASE LockDongle(a)
    BY <2>1 DEF LockDongle
  <2>2. CASE SendFrame(a)
    BY <1>1, <2>2 DEF SendFrame, IInv, Typed
  <2>3. ASSUME NEW sent, NEW result, Answered(a, sent, result)
        PROVE  uploader'.dev \in {uploader.dev, None}
    BY <1>1, <2>3 DEF Answered, NoUpload, IInv, Typed
  <2>4. CASE FindMissing(a) \/ Reopen(a)
    BY <2>4 DEF FindMissing, Reopen
  <2>5. CASE FrameSent(a) \/ FrameFails(a) \/ BackOff(a) \/ ReopenFails(a)
    BY <2>3, <2>5 DEF FrameSent, FrameFails, BackOff, ReopenFails
  <2>6. CASE DongleFails(a)
    BY <2>3, <2>6 DEF DongleFails
  <2> QED
    BY <2>1, <2>2, <2>4, <2>5, <2>6 DEF Operate
<1> QED
  BY <1>1, <1>2, <1>3, NothingMoves

(* A caller has the dongle: what it may cost yet is spent or given up. *)
LEMMA CallerCosts ==
  ASSUME IInv, IInv', Costs, NEW c \in Callers, LockDongle(c) \/ Operate(c)
  PROVE  Costs'
<1>1. c # Drain /\ c # Binder /\ c # Uploader /\ c # None /\ None # Drain
  BY Distinct DEF Actors
<1>2. /\ \A i \in Ids : frames[i] \in Nat /\ Used(i) \in Nat /\ frames[i] <= Used(i)
      /\ order # None => Remaining \in 0..2
      /\ frames \in [Ids -> Nat]
  BY CostTypes DEF Costs, NumberInv
<1>3. call[c].at = "sending" => order = c
  BY DEF IInv, HolderInv
<1>4. tx.by = c => order = c
  BY DEF IInv, HolderInv
<1>5. tx.again \in BOOLEAN /\ tx.sent \in BOOLEAN
  BY DEF IInv, Typed
<1>6. ASSUME UNCHANGED <<queue, batch, hand, drain, call, order, admitted, once, frames, started>>,
             order = c, tx.by # Drain, tx'.by = c,
             Remaining' <= Remaining, Remaining' \in 0..2
      PROVE  Costs'
  <2>1. \A i \in Ids : Used(i)' <= Used(i) /\ Used(i)' \in Nat
    <3>1. ASSUME NEW i \in Ids
          PROVE  Used(i)' <= Used(i) /\ Used(i)' \in Nat
      BY <1>1, <1>2, <1>6, <3>1 DEF Used
    <3> QED
      BY <3>1
  <2>2. frames' \in [Ids -> Nat] /\ \A i \in Ids : i > admitted => frames'[i] = 0
    BY <1>6 DEF Costs, NumberInv
  <2> QED
    BY <1>1, <1>6, <2>1, <2>2, CallerPays
<1>7. CASE LockDongle(c)
  <2>1. /\ UNCHANGED <<queue, batch, hand, drain, call, order, admitted, once, frames, started>>
        /\ order = c /\ tx = Free /\ tx' = [Free EXCEPT !.by = c, !.stage = "ready"]
    BY <1>1, <1>3, <1>7 DEF LockDongle, thread, history
  <2>2. tx.by = None /\ tx'.by = c /\ tx'.stage = "ready" /\ ~tx'.again
    BY <2>1 DEF Free
  <2>3. Remaining' = Remaining
    BY <1>1, <2>1, <2>2 DEF Remaining
  <2>4. Remaining \in 0..2
    BY <1>1, <1>2, <2>1
  <2> QED
    BY <1>1, <1>6, <2>1, <2>2, <2>3, <2>4
<1>8. CASE SendFrame(c)
  <2>1. /\ UNCHANGED <<queue, batch, hand, drain, call, order, admitted, once, started>>
        /\ order = c /\ tx.by = c /\ tx.stage = "ready"
        /\ tx' = [tx EXCEPT !.stage = "air"]
        /\ frames' = [frames EXCEPT ![call[c].cmd.id] = @ + 1]
    BY <1>1, <1>4, <1>8 DEF SendFrame, Holds, CountFrame, thread
  <2>2. tx'.by = c /\ tx'.stage = "air" /\ tx'.again = tx.again
    BY <2>1 DEF IInv, Typed
  <2>3. Remaining \in 1..2 /\ Remaining' = Remaining - 1
    BY <1>1, <2>1, <2>2 DEF Remaining
  <2>4. call[c].cmd.id \in Ids => frames[call[c].cmd.id] + 1 \in Nat
    BY <1>2
  <2>5. frames' \in [Ids -> Nat]
    BY <1>2, <2>1, <2>4
  <2>6. \A i \in Ids : Used(i)' <= Used(i) /\ Used(i)' \in Nat
    <3>1. ASSUME NEW i \in Ids
          PROVE  Used(i)' <= Used(i) /\ Used(i)' \in Nat
      <4>1. CASE i = call[c].cmd.id
        <5>1. frames'[i] = frames[i] + 1
          BY <1>2, <2>1, <4>1
        <5>2. Used(i) = frames[i] + Remaining /\ Used(i)' = frames'[i] + Remaining'
          BY <1>1, <2>1, <4>1 DEF Used
        <5> QED
          BY <1>2, <2>3, <5>1, <5>2
      <4>2. CASE i # call[c].cmd.id
        <5>1. frames'[i] = frames[i]
          BY <1>2, <2>1, <4>2
        <5>2. Used(i) = frames[i] + 0 /\ Used(i)' = frames'[i] + 0
          BY <1>1, <2>1, <4>2 DEF Used
        <5> QED
          BY <1>2, <5>1, <5>2
      <4> QED
        BY <4>1, <4>2
    <3> QED
      BY <3>1
  <2>7. \A i \in Ids : i > admitted => frames'[i] = 0
    <3>1. call[c].cmd.id <= admitted /\ admitted \in Nat
      BY <1>1, <2>1 DEF Costs, NumberInv, IInv, Typed
    <3>2. call[c].cmd.id \in Nat
      <4>1. call[c].cmd \in Command
        BY <1>1, <2>1 DEF IInv, Typed, HolderInv
      <4> QED
        BY <4>1 DEF Command
    <3>3. \A i \in Ids : i > admitted => i # call[c].cmd.id /\ frames[i] = 0
      BY <3>1, <3>2 DEF Costs, NumberInv, Ids
    <3> QED
      BY <1>2, <2>1, <3>3
  <2> QED
    BY <1>1, <2>1, <2>2, <2>5, <2>6, <2>7, CallerPays
<1>9. ASSUME NEW sent, NEW result, Answered(c, sent, result), tx.by = c
      PROVE  Costs'
  <2>1. /\ UNCHANGED <<queue, batch, hand, drain, admitted, once, frames, started>>
        /\ order' = None /\ tx'.by = None
    BY <1>1, <1>9 DEF Answered, Free, history
  <2>2. \A i \in Ids : Used(i)' <= Used(i) /\ Used(i)' \in Nat
    <3>1. \A i \in Ids : Used(i)' = frames[i] + 0
      BY <2>1 DEF Used
    <3> QED
      BY <1>2, <3>1
  <2>3. frames' \in [Ids -> Nat] /\ \A i \in Ids : i > admitted => frames'[i] = 0
    BY <2>1 DEF Costs, NumberInv
  <2> QED
    BY <1>1, <1>9, <2>1, <2>2, <2>3, CallerPays
<1>10. CASE FindMissing(c) \/ Reopen(c)
  <2>1. /\ UNCHANGED <<queue, batch, hand, drain, call, order, admitted, once, frames, started>>
        /\ order = c /\ tx.by = c /\ tx'.by = c /\ tx.stage \in {"ready", "reopen"}
        /\ \/ tx'.stage = "reopen" /\ tx.stage = "ready"
           \/ tx'.stage = "ready" /\ tx.stage = "reopen" /\ tx'.again
    BY <1>4, <1>10 DEF FindMissing, Reopen, Holds, thread, history, IInv, Typed
  <2>2. Remaining \in 1..2 /\ Remaining' = 1
    BY <1>1, <2>1 DEF Remaining
  <2>3. Remaining' <= Remaining /\ Remaining' \in 0..2
    BY <2>2
  <2> QED
    BY <1>1, <1>6, <2>1, <2>3
<1>11. CASE FrameSent(c) \/ FrameFails(c) \/ BackOff(c) \/ ReopenFails(c)
  BY <1>9, <1>11 DEF FrameSent, FrameFails, BackOff, ReopenFails, Holds
<1>12. CASE DongleFails(c)
  <2>1. CASE Replayable(c) /\ ~tx.again
    <3>1. /\ UNCHANGED <<queue, batch, hand, drain, call, order, admitted, once, frames, started>>
          /\ order = c /\ tx.by = c /\ tx'.by = c /\ tx.stage = "air" /\ tx'.stage = "reopen"
          /\ ~tx.again
      BY <1>4, <1>12, <2>1 DEF DongleFails, Holds, thread, history, IInv, Typed
    <3>2. call[c].cmd.left > 0
      BY <2>1 DEF Replayable
    <3>3. call[c].cmd.left # 0
      BY <3>2
    <3>4. Remaining = 1 /\ Remaining' = 1
      BY <1>1, <3>1, <3>3 DEF Remaining
    <3>5. Remaining' <= Remaining /\ Remaining' \in 0..2
      BY <3>4
    <3> QED
      BY <1>1, <1>6, <3>1, <3>5
  <2>2. CASE ~(Replayable(c) /\ ~tx.again)
    BY <1>9, <1>12, <2>2 DEF DongleFails, Holds
  <2> QED
    BY <2>1, <2>2
<1> QED
  BY <1>7, <1>8, <1>10, <1>11, <1>12 DEF Operate

(* The convergence thread has the dongle. *)
LEMMA AttemptCosts ==
  ASSUME IInv, IInv', Costs, LockDongle(Drain) \/ Operate(Drain) \/ SendPending \/ DeferPending
  PROVE  Costs'
<1>1. Drain \notin Callers /\ Drain # Binder /\ Drain # Uploader /\ Drain # None
  BY Distinct DEF Actors
<1>2. tx.by = Drain => drain = "send"
  BY DEF IInv, HolderInv
<1>3. tx.again \in BOOLEAN /\ tx.sent \in BOOLEAN
  BY DEF IInv, Typed
<1>4. InFlight \in 0..2
  BY CostTypes DEF Costs
<1>5. tx.by = Drain /\ tx.sent => tx.again \/ tx.stage = "reopen"
  BY DEF Costs, NumberInv
<1>6. CASE LockDongle(Drain)
  <2>1. /\ UNCHANGED <<queue, batch, hand, drain, call, order, admitted, once, started, uploader,
                       frames>>
        /\ drain = "send" /\ tx = Free /\ tx' = [Free EXCEPT !.by = Drain, !.stage = "ready"]
    BY <1>1, <1>6 DEF LockDongle, thread, history
  <2>2. tx.by = None /\ tx'.by = Drain /\ tx'.stage = "ready" /\ ~tx'.again /\ ~tx'.sent
    BY <2>1 DEF Free
  <2>3. InFlight = 0 /\ InFlight' = 0
    BY <1>1, <2>2 DEF InFlight
  <2>4. InFlight <= InFlight'
    BY <2>3
  <2> QED
    BY <2>1, <2>2, <2>4, AttemptPays
<1>7. CASE FindMissing(Drain) \/ Reopen(Drain)
  <2>1. /\ UNCHANGED <<queue, batch, hand, drain, call, order, admitted, once, started, uploader,
                       frames>>
        /\ tx.by = Drain /\ tx'.by = Drain /\ tx.stage # "air" /\ tx'.stage # "air"
        /\ tx'.sent = tx.sent
        /\ tx'.stage = "reopen" \/ tx'.again
    BY <1>7 DEF FindMissing, Reopen, Holds, thread, history, IInv, Typed
  <2>2. InFlight' = InFlight
    BY <1>1, <2>1 DEF InFlight, Uploading
  <2>3. InFlight <= InFlight'
    BY <1>4, <2>2
  <2> QED
    BY <1>2, <2>1, <2>3, AttemptPays
<1>8. CASE SendPending
  <2>1. /\ UNCHANGED <<queue, batch, hand, drain, call, order, admitted, once, started, uploader>>
        /\ tx.by = Drain /\ tx.stage = "ready" /\ ~Uploading(hand)
        /\ tx' = [tx EXCEPT !.stage = "air"]
        /\ frames' = [frames EXCEPT ![hand.id] = @ + 1]
    BY <1>8 DEF SendPending, Holds, CountFrame, thread
  <2>2. tx'.by = Drain /\ tx'.stage = "air" /\ tx'.again = tx.again /\ tx'.sent = tx.sent
    BY <2>1 DEF IInv, Typed
  <2>3. tx.sent => tx.again
    BY <1>5, <2>1
  <2>4. ~Uploading(hand)'
    BY <2>1 DEF Uploading
  <2>5. InFlight + 1 <= InFlight'
    <3>1. InFlight = IF tx.sent THEN 1 ELSE 0
      BY <1>1, <2>1 DEF InFlight
    <3>2. InFlight' = IF tx.again THEN 2 ELSE 1
      BY <1>1, <2>2, <2>4 DEF InFlight
    <3> QED
      BY <1>3, <2>3, <3>1, <3>2
  <2> QED
    BY <1>2, <2>1, <2>2, <2>3, <2>5, AttemptPays
<1>9. ASSUME NEW sent \in BOOLEAN, NEW result, Answered(Drain, sent, result), tx.by = Drain,
             \/ sent /\ result \in {"ok", "failed"}
             \/ ~sent /\ InFlight = 0
             \/ result = "deferred" /\ InFlight = 0
             \/ sent /\ result = "backoff"
      PROVE  Costs'
  <2>1. /\ tx' = Free /\ hand' = AccountRetry(hand, sent, result) /\ drain' = "requeue"
        /\ UNCHANGED <<queue, batch, call, order, admitted, once, started, frames>>
    BY <1>1, <1>9 DEF Answered, history
  <2> QED
    BY <1>9, <2>1, AttemptCounted
<1>10. CASE FrameSent(Drain) \/ FrameFails(Drain)
  BY <1>9, <1>10 DEF FrameSent, FrameFails, Holds
<1>11. CASE BackOff(Drain) \/ ReopenFails(Drain)
  <2>1. tx.by = Drain /\ tx.stage = "reopen"
    BY <1>11 DEF BackOff, ReopenFails, Holds
  <2>2. ~tx.sent => InFlight = 0
    BY <2>1 DEF InFlight
  <2>3. Answered(Drain, tx.sent, "backoff") \/ Answered(Drain, tx.sent, "failed")
    BY <1>11 DEF BackOff, ReopenFails
  <2> QED
    BY <1>3, <1>9, <2>1, <2>2, <2>3
<1>12. CASE DongleFails(Drain)
  <2>1. CASE Replayable(Drain) /\ ~tx.again
    <3>1. /\ UNCHANGED <<queue, batch, hand, drain, call, order, admitted, once, started, uploader,
                         frames>>
          /\ tx.by = Drain /\ tx'.by = Drain /\ tx.stage = "air" /\ tx'.stage = "reopen"
          /\ ~tx.again /\ tx'.sent
      BY <1>12, <2>1 DEF DongleFails, Holds, thread, history, IInv, Typed
    <3>2. InFlight' = InFlight
      BY <1>1, <3>1 DEF InFlight, Uploading
    <3>3. InFlight <= InFlight'
      BY <1>4, <3>2
    <3> QED
      BY <1>2, <3>1, <3>3, AttemptPays
  <2>2. CASE ~(Replayable(Drain) /\ ~tx.again)
    BY <1>9, <1>12, <2>2 DEF DongleFails, Holds
  <2> QED
    BY <2>1, <2>2
<1>13. CASE DeferPending
  <2>1. /\ tx' = Free /\ hand' = AccountRetry(hand, tx.sent, "deferred") /\ drain' = "requeue"
        /\ UNCHANGED <<queue, batch, call, order, admitted, once, started, frames>>
        /\ tx.by = Drain /\ tx.stage = "ready" /\ Uploading(hand)
    BY <1>13 DEF DeferPending, Holds, history
  <2>2. InFlight = 0
    BY <2>1 DEF InFlight
  <2> QED
    BY <1>3, <2>1, <2>2, AttemptCounted
<1> QED
  BY <1>6, <1>7, <1>8, <1>10, <1>11, <1>12, <1>13, <1>1 DEF Operate, SendFrame, Holds

(* An obsolete command costs nothing more. *)
LEMMA DroppedCosts ==
  ASSUME IInv, IInv', Costs, DropObsolete
  PROVE  Costs'
<1>1. /\ tx.by = Drain /\ tx' = Free /\ hand' = None /\ drain' = "pick"
      /\ UNCHANGED <<queue, batch, call, order, admitted, once, frames, started>>
  BY DEF DropObsolete, Holds, history
<1>2. Drain \notin Callers /\ Drain # None /\ None \notin Callers /\ Free.by = None
  BY Distinct DEF Free, Actors
<1>3. Taken' \subseteq Taken
  BY <1>1 DEF Taken
<1>4. NumberInv'
  BY <1>1, <1>2, <1>3 DEF Costs, NumberInv, SameSlot
<1>5. order # None => Remaining' = Remaining
  BY <1>1, <1>2 DEF Remaining, IInv, Typed
<1>6. \A i \in Ids : Used(i)' = Used(i)
  BY <1>1, <1>5 DEF Used
<1>7. BudgetInv'
  BY <1>1, <1>6 DEF Costs, BudgetInv, Limit, Attempts, Used
<1> QED
  BY <1>4, <1>7 DEF Costs

(* Nothing has cost anything yet. *)
LEMMA InitCosts == Init => Costs
<1> SUFFICES ASSUME Init PROVE Costs
  OBVIOUS
<1>1. 0 \in Nat /\ Retries \in Nat
  BY ConvergenceAssumption
<1>2. NumberInv
  BY <1>1, Distinct DEF Init, NumberInv, Taken, Free, Exhausted, Actors
<1>3. \A i \in Ids : Used(i) = 0
  BY DEF Init, Used
<1>4. Limit \in Nat
  BY <1>1 DEF Init, Limit
<1>5. BudgetInv
  BY <1>3, <1>4 DEF Init, BudgetInv
<1> QED
  BY <1>2, <1>5 DEF Costs

(* The accounts balance in every behaviour. *)
THEOREM CostInvariance == Spec => [](IInv /\ Costs)
<1>1. IInv /\ IInv' /\ Costs /\ [Next]_vars => Costs'
  <2> SUFFICES ASSUME IInv, IInv', Costs, [Next]_vars PROVE Costs'
    OBVIOUS
  <2>1. CASE \/ \E c \in Callers, dev \in Devices, slot \in Slots, retries \in {0, Retries} :
                  Issue(c, dev, slot, retries)
             \/ \E c \in Callers : Enqueue(c)
    BY <2>1, WaitingCosts, AdmitPays DEF Enqueue
  <2>2. CASE \/ TakeQueue \/ Requeue
             \/ \E cmd \in batch : PickAcknowledged(cmd) \/ PickNotDue(cmd) \/ PickDue(cmd)
    BY <2>2, PickingCosts
  <2>3. CASE (\E a \in Actors : LockDongle(a) \/ Operate(a)) \/ DrainStep
    BY <2>3, CallerCosts, OthersCosts, AttemptCosts, DroppedCosts DEF Actors, DrainStep
  <2>4. CASE BackoffEnds \/ Binding \/ Upload
    BY <2>4, ReservedCosts, ReservingCosts DEF Binding, Upload
  <2>5. CASE UNCHANGED vars
    <3>1. UNCHANGED <<queue, batch, hand, drain, call, order, admitted, once, frames, started, tx,
                      uploader>>
      BY <2>5 DEF vars
    <3> QED
      BY <3>1, NothingMoves
  <2> QED
    BY <2>1, <2>2, <2>3, <2>4, <2>5 DEF Next
<1> QED
  BY <1>1, QueueInvariance, InitCosts, PTL DEF Spec

(* with_ready_transport and account_retry: a command without retries is sent  *)
(* at most once and any other at most twice for each of its attempts, but    *)
(* for those that an upload has made room for.                               *)
THEOREM FramesLimited == Spec => []FramesBounded
<1>1. IInv /\ Costs => FramesBounded
  <2> SUFFICES ASSUME IInv, Costs, NEW i \in Ids
               PROVE  frames[i] <= IF i \in once THEN 1
                                   ELSE 2 * (Retries + 1) + started.uploads
    BY DEF FramesBounded
  <2>1. frames[i] \in Nat /\ Used(i) \in Nat /\ frames[i] <= Used(i) /\ Limit \in Nat
    BY CostTypes DEF Costs
  <2>2. Used(i) <= IF i \in once THEN 1 ELSE Limit
    BY DEF Costs, BudgetInv
  <2>3. frames[i] <= IF i \in once THEN 1 ELSE Limit
    BY <2>1, <2>2
  <2> QED
    BY <2>3 DEF Limit
<1> QED
  BY <1>1, CostInvariance, PTL

=============================================================================
