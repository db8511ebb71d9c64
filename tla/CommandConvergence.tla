------------------------- MODULE CommandConvergence -------------------------
(* The control commands of the wireless controller on their way to the TX   *)
(* dongle.                                                                  *)
(*                                                                          *)
(* Any thread enqueues commands.  Most of them also send the first frame    *)
(* themselves and hold command_order while they do; a cooling command (fan  *)
(* PWM) leaves even that to the convergence thread, so that the fan loop    *)
(* never waits for the dongle.  The convergence thread takes the whole      *)
(* queue out, sends what is due, and puts back what was not acknowledged.   *)
(* Binding a device and uploading a picture reserve that device.  All of    *)
(* them share one dongle behind a mutex, which is lost and reopened.        *)
(*                                                                          *)
(* A pass over the queue is in queue order in the code; no property depends *)
(* on it, and queue and batch are sets here.  Which acknowledgements arrive *)
(* and whether a retry is due are choices.  Shutdown is left out: a         *)
(* stopping controller only refuses and discards.                           *)
EXTENDS Naturals, FiniteSets

CONSTANTS
    Devices,      \* wireless devices, by MAC address
    Opcodes,      \* RF opcodes of the commands acknowledged by cmd_seq
    Pwm,          \* the slot of the fan PWM commands
    Callers,      \* threads that call enqueue_rf_command
    Drain,        \* the convergence thread
    Binder,       \* the thread in bind_device or unbind_device
    Uploader,     \* the thread in send_aio_pic
    None,
    MaxQueue,     \* MAX_PENDING_COMMANDS, 256 in the code
    Retries,      \* INITIAL_RETRIES, 10 in the code
    MaxCommands,  \* bound: commands that callers issue
    MaxBindings,  \* bound: binding operations
    MaxUploads,   \* bound: picture uploads
    MaxFrames     \* bound: bind attempts of one operation, chunks of one upload

Slots  == Opcodes \cup {Pwm}
Actors == Callers \cup {Drain, Binder, Uploader}
Ids    == 1..MaxCommands

Command == [id : Nat, dev : Devices, slot : Slots, left : 0..Retries,
            initial : BOOLEAN]

ASSUME ConvergenceAssumption ==
    /\ MaxQueue \in Nat \ {0}
    /\ Retries \in Nat \ {0}
    /\ MaxCommands \in Nat /\ MaxBindings \in Nat /\ MaxUploads \in Nat
    /\ MaxFrames \in Nat
    /\ IsFiniteSet(Callers)
    /\ Pwm \notin Opcodes
    /\ Callers \cap {Drain, Binder, Uploader} = {}
    /\ Drain # Binder /\ Drain # Uploader /\ Binder # Uploader
    /\ None \notin Devices \cup Callers \cup {Drain, Binder, Uploader}
    /\ None \notin Command

VARIABLES
    queue,     \* pending_commands
    batch,     \* commands the convergence thread has taken out of the queue
    hand,      \* the command it is working on
    drain,     \* what it does with that command
    call,      \* each enqueuing thread
    order,     \* the thread that holds command_order beyond one step
    tx,        \* the mutex of the TX dongle and the operation under it
    dongle,    \* TransportState: handle and recovery backoff
    binder,    \* the binding operation; binder.dev is binding_mac
    uploader,  \* the picture upload; uploader.dev is picture_target
    unbound,   \* devices with man_unbind
    admitted,  \* commands admitted so far; numbers stand for queued_at
    newest,    \* history: the newest command admitted for a slot
    purged,    \* history: commands a binding operation took out of the queue
    frames,    \* history: frames sent for a command
    once,      \* history: commands admitted without retries
    started    \* history: binding operations and uploads begun

vars == <<queue, batch, hand, drain, call, order, tx, dongle, binder, uploader,
          unbound, admitted, newest, purged, frames, once, started>>
thread  == <<batch, hand, drain>>
history == <<newest, purged, frames, once, started>>

Free     == [by |-> None, stage |-> "free", again |-> FALSE, sent |-> FALSE]
Idle     == [at |-> "idle", cmd |-> None]
NoBind   == [at |-> "idle", dev |-> None, verb |-> "bind", tries |-> 0]
NoUpload == [at |-> "idle", dev |-> None, chunks |-> 0]

Init ==
    /\ queue = {} /\ batch = {} /\ hand = None /\ drain = "pick"
    /\ call = [c \in Callers |-> Idle]
    /\ order = None
    /\ tx = Free
    /\ dongle = [open |-> TRUE, backoff |-> FALSE]
    /\ binder = NoBind
    /\ uploader = NoUpload
    /\ unbound \in SUBSET Devices
    /\ admitted = 0
    /\ newest = [place \in Devices \X Slots |-> 0]
    /\ purged = {}
    /\ frames = [i \in Ids |-> 0]
    /\ once = {}
    /\ started = [bindings |-> 0, uploads |-> 0]

SameSlot(x, y) == x.dev = y.dev /\ x.slot = y.slot

Superseded(cmd) == \E new \in queue : SameSlot(new, cmd) /\ new.id > cmd.id

\* Mutant: a binding operation in progress keeps no command away.
BlocksUnbound(dev) == dev \in unbound

Blocks(dev) == binder.dev = dev \/ dev \in unbound

Uploading(cmd) == cmd.slot # Pwm /\ uploader.dev = cmd.dev

Deferred(cmd) == cmd.left > 0 /\ cmd.slot = Pwm

-----------------------------------------------------------------------------
(* Enqueuing.  command_order is held across a step only by a thread that    *)
(* sends its own first frame.                                               *)

Waiting(c) == call[c].at = "waiting"

Issue(c, dev, slot, retries) ==
    /\ call[c] = Idle
    /\ slot = Pwm => retries = Retries
    /\ admitted + Cardinality({x \in Callers : Waiting(x)}) < MaxCommands
    /\ call' = [call EXCEPT ![c] =
                  [at |-> "waiting",
                   cmd |-> [id |-> 0, dev |-> dev, slot |-> slot,
                            left |-> retries, initial |-> FALSE]]]
    /\ UNCHANGED <<queue, thread, order, tx, dongle, binder, uploader, unbound,
                   admitted, history>>

\* try_lock_for(ORDER_WAIT) runs out.
Busy(c) ==
    /\ Waiting(c)
    /\ Deferred(call[c].cmd)
    /\ order # None
    /\ call' = [call EXCEPT ![c] = Idle]
    /\ UNCHANGED <<queue, thread, order, tx, dongle, binder, uploader, unbound,
                   admitted, history>>

Replaces(cmd) == \E old \in queue : SameSlot(old, cmd)

Admissible(cmd) ==
    /\ ~Uploading(cmd)
    /\ ~Blocks(cmd.dev)
    /\ Cardinality(queue) < MaxQueue \/ Replaces(cmd)

Refuse(c) ==
    /\ Waiting(c)
    /\ order = None
    /\ ~Admissible(call[c].cmd)
    /\ call' = [call EXCEPT ![c] = Idle]
    /\ UNCHANGED <<queue, thread, order, tx, dongle, binder, uploader, unbound,
                   admitted, history>>

AdmitCommand(q, cmd) == {old \in q : ~SameSlot(old, cmd)} \cup {cmd}

Admit(c) ==
    LET cmd == [call[c].cmd EXCEPT !.id = admitted + 1,
                                   !.initial = Deferred(call[c].cmd)]
    IN  /\ Waiting(c)
        /\ order = None
        /\ Admissible(call[c].cmd)
        /\ queue' = AdmitCommand(queue, cmd)
        /\ admitted' = cmd.id
        /\ IF Deferred(call[c].cmd)
             THEN call' = [call EXCEPT ![c] = Idle] /\ UNCHANGED order
             ELSE call' = [call EXCEPT ![c] = [at |-> "sending", cmd |-> cmd]]
                  /\ order' = c
        /\ newest' = [newest EXCEPT ![<<cmd.dev, cmd.slot>>] = cmd.id]
        /\ once' = IF cmd.left = 0 THEN once \cup {cmd.id} ELSE once
        /\ UNCHANGED <<thread, tx, dongle, binder, uploader, unbound, purged,
                       frames, started>>

-----------------------------------------------------------------------------
(* The convergence thread. *)

TakeQueue ==
    /\ drain = "pick" /\ batch = {} /\ queue # {}
    /\ batch' = queue
    /\ queue' = {}
    /\ UNCHANGED <<hand, drain, call, order, tx, dongle, binder, uploader,
                   unbound, admitted, history>>

\* An acknowledgement does not count before the deferred first frame.
PickAcknowledged(cmd) ==
    /\ drain = "pick" /\ cmd \in batch
    /\ ~cmd.initial
    /\ batch' = batch \ {cmd}
    /\ UNCHANGED <<queue, hand, drain, call, order, tx, dongle, binder, uploader,
                   unbound, admitted, history>>

PickNotDue(cmd) ==
    /\ drain = "pick" /\ cmd \in batch
    /\ ~cmd.initial
    /\ batch' = batch \ {cmd}
    /\ hand' = cmd /\ drain' = "requeue"
    /\ UNCHANGED <<queue, call, order, tx, dongle, binder, uploader, unbound,
                   admitted, history>>

\* Mutant: a command without retries left is sent once more.
SendExhausted(cmd) == FALSE

Exhausted(cmd) == ~cmd.initial /\ cmd.left = 0

PickDue(cmd) ==
    /\ drain = "pick" /\ cmd \in batch
    /\ batch' = batch \ {cmd}
    /\ IF Exhausted(cmd)
         THEN UNCHANGED <<hand, drain>>
         ELSE hand' = cmd /\ drain' = "send"
    /\ UNCHANGED <<queue, call, order, tx, dongle, binder, uploader, unbound,
                   admitted, history>>

\* Mutant: a command goes back although the queue is full.
RequeueBeyondLimit(cmd) == ~Superseded(cmd)

GoesBack(cmd) == ~Superseded(cmd) /\ Cardinality(queue) < MaxQueue

Requeue ==
    /\ drain = "requeue"
    /\ queue' = IF GoesBack(hand) THEN queue \cup {hand} ELSE queue
    /\ hand' = None /\ drain' = "pick"
    /\ UNCHANGED <<batch, call, order, tx, dongle, binder, uploader, unbound,
                   admitted, history>>

\* Mutant: only an attempt that reached the dongle uses up a retry.
CountFramesOnly(cmd, sent, result) ==
    IF cmd.initial THEN [cmd EXCEPT !.initial = ~sent]
    ELSE IF sent THEN [cmd EXCEPT !.left = IF @ = 0 THEN 0 ELSE @ - 1]
    ELSE cmd

\* account_retry: waiting out the recovery backoff costs no retry.
AccountRetry(cmd, sent, result) ==
    IF cmd.initial THEN [cmd EXCEPT !.initial = ~sent]
    ELSE IF result # "deferred" /\ (sent \/ result # "backoff")
         THEN [cmd EXCEPT !.left = IF @ = 0 THEN 0 ELSE @ - 1]
    ELSE cmd

-----------------------------------------------------------------------------
(* Operations under the mutex of the dongle: with_transport_recovery and    *)
(* with_ready_transport.                                                    *)

Holds(a, stage) == tx.by = a /\ tx.stage = stage

\* An operation that must not run twice is not repeated on a new handle.
Replayable(a) ==
    /\ a # Uploader
    /\ a \in Callers => call[a].cmd.left > 0

LockDongle(a) ==
    /\ tx = Free
    /\ \/ a \in Callers /\ call[a].at = "sending"
       \/ a = Drain /\ drain = "send"
       \/ a = Binder /\ binder.at \in {"sending", "saving"}
       \/ a = Uploader /\ uploader.at = "sending"
    /\ tx' = [Free EXCEPT !.by = a, !.stage = "ready"]
    /\ UNCHANGED <<queue, thread, call, order, dongle, binder, uploader, unbound,
                   admitted, history>>

CountFrame(cmd) == frames' = [frames EXCEPT ![cmd.id] = @ + 1]

\* The operations other than the convergence thread's have no conditions.
SendFrame(a) ==
    /\ Holds(a, "ready") /\ dongle.open
    /\ tx' = [tx EXCEPT !.stage = "air"]
    /\ \/ /\ a \in Callers
          /\ CountFrame(call[a].cmd)
          /\ UNCHANGED <<binder, uploader>>
       \/ /\ a = Binder
          /\ binder' = [binder EXCEPT !.tries = IF @ < MaxFrames THEN @ + 1 ELSE @]
          /\ UNCHANGED <<uploader, frames>>
       \/ /\ a = Uploader
          /\ uploader' = [uploader EXCEPT !.chunks = @ + 1]
          /\ UNCHANGED <<binder, frames>>
    /\ UNCHANGED <<queue, thread, call, order, dongle, unbound, admitted, newest,
                   purged, once, started>>

\* Mutant: newer commands are looked for only when the command goes back.
SendUnlessReserved ==
    /\ Holds(Drain, "ready") /\ dongle.open
    /\ ~Uploading(hand) /\ ~Blocks(hand.dev)
    /\ tx' = [tx EXCEPT !.stage = "air"]
    /\ CountFrame(hand)
    /\ UNCHANGED <<queue, thread, call, order, dongle, binder, uploader, unbound,
                   admitted, newest, purged, once, started>>

\* Mutant: the picture upload is not respected.
SendDuringUpload ==
    /\ Holds(Drain, "ready") /\ dongle.open
    /\ ~Blocks(hand.dev) /\ ~Superseded(hand)
    /\ tx' = [tx EXCEPT !.stage = "air"]
    /\ CountFrame(hand)
    /\ UNCHANGED <<queue, thread, call, order, dongle, binder, uploader, unbound,
                   admitted, newest, purged, once, started>>

SendPending ==
    /\ Holds(Drain, "ready") /\ dongle.open
    /\ ~Uploading(hand) /\ ~Blocks(hand.dev) /\ ~Superseded(hand)
    /\ tx' = [tx EXCEPT !.stage = "air"]
    /\ CountFrame(hand)
    /\ UNCHANGED <<queue, thread, call, order, dongle, binder, uploader, unbound,
                   admitted, newest, purged, once, started>>

\* A command for a device under upload waits; the upload costs it no retry.
DeferPending ==
    /\ Holds(Drain, "ready") /\ dongle.open
    /\ Uploading(hand)
    /\ tx' = Free
    /\ hand' = AccountRetry(hand, tx.sent, "deferred") /\ drain' = "requeue"
    /\ UNCHANGED <<queue, batch, call, order, dongle, binder, uploader, unbound,
                   admitted, history>>

\* Mutant: an obsolete command stays in hand.
DropStaysInHand ==
    /\ Holds(Drain, "ready") /\ dongle.open
    /\ ~Uploading(hand)
    /\ Blocks(hand.dev) \/ Superseded(hand)
    /\ tx' = Free
    /\ drain' = "pick"
    /\ UNCHANGED <<queue, batch, hand, call, order, dongle, binder, uploader,
                   unbound, admitted, history>>

DropObsolete ==
    /\ Holds(Drain, "ready") /\ dongle.open
    /\ ~Uploading(hand)
    /\ Blocks(hand.dev) \/ Superseded(hand)
    /\ tx' = Free
    /\ hand' = None /\ drain' = "pick"
    /\ UNCHANGED <<queue, batch, call, order, dongle, binder, uploader, unbound,
                   admitted, history>>

\* The operation is over, with a frame sent or not, and its caller goes on.
Answered(a, sent, result) ==
    /\ tx' = Free
    /\ \/ /\ a \in Callers
          /\ call' = [call EXCEPT ![a] = Idle] /\ order' = None
          /\ UNCHANGED <<hand, drain, binder, uploader>>
       \/ /\ a = Drain
          /\ hand' = AccountRetry(hand, sent, result) /\ drain' = "requeue"
          /\ UNCHANGED <<call, order, binder, uploader>>
       \/ /\ a = Binder
          /\ binder' = IF binder.at = "sending" /\ result = "ok"
                         THEN [binder EXCEPT !.at = "observing"] ELSE NoBind
          /\ UNCHANGED <<hand, drain, call, order, uploader>>
       \/ /\ a = Uploader
          /\ uploader' = IF result = "ok"
                           THEN [uploader EXCEPT !.at = "acking"] ELSE NoUpload
          /\ UNCHANGED <<hand, drain, call, order, binder>>
    /\ UNCHANGED <<queue, batch, unbound, admitted, history>>

FrameSent(a) ==
    /\ Holds(a, "air")
    /\ Answered(a, TRUE, "ok")
    /\ UNCHANGED dongle

\* An error that does not call for a new handle, such as a timeout.
FrameFails(a) ==
    /\ Holds(a, "air")
    /\ Answered(a, TRUE, "failed")
    /\ UNCHANGED dongle

\* The dongle reports NoDevice, Io or Pipe.
DongleFails(a) ==
    /\ Holds(a, "air")
    /\ IF Replayable(a) /\ ~tx.again
         THEN /\ tx' = [tx EXCEPT !.stage = "reopen", !.sent = TRUE]
              /\ UNCHANGED <<queue, thread, call, order, dongle, binder, uploader,
                             unbound, admitted, history>>
         ELSE /\ dongle' = [dongle EXCEPT !.open = Replayable(a)]
              /\ Answered(a, TRUE, "failed")

FindMissing(a) ==
    /\ Holds(a, "ready") /\ ~dongle.open
    /\ tx' = [tx EXCEPT !.stage = "reopen"]
    /\ UNCHANGED <<queue, thread, call, order, dongle, binder, uploader, unbound,
                   admitted, history>>

BackOff(a) ==
    /\ Holds(a, "reopen") /\ dongle.backoff
    /\ Answered(a, tx.sent, "backoff")
    /\ UNCHANGED dongle

ReopenFails(a) ==
    /\ Holds(a, "reopen") /\ ~dongle.backoff
    /\ dongle' = [open |-> FALSE, backoff |-> TRUE]
    /\ Answered(a, tx.sent, "failed")

Reopen(a) ==
    /\ Holds(a, "reopen") /\ ~dongle.backoff
    /\ dongle' = [open |-> TRUE, backoff |-> TRUE]
    /\ tx' = [tx EXCEPT !.stage = "ready", !.again = TRUE]
    /\ UNCHANGED <<queue, thread, call, order, binder, uploader, unbound,
                   admitted, history>>

\* retry_after passes.
BackoffEnds ==
    /\ dongle.backoff
    /\ dongle' = [dongle EXCEPT !.backoff = FALSE]
    /\ UNCHANGED <<queue, thread, call, order, tx, binder, uploader, unbound,
                   admitted, history>>

-----------------------------------------------------------------------------
(* Binding and unbinding. *)

BeginBinding(dev, verb) ==
    LET dropped == {cmd \in queue : cmd.dev = dev}
    IN  /\ order = None
        /\ uploader.dev = None /\ binder.dev = None
        /\ started.bindings < MaxBindings
        /\ started' = [started EXCEPT !.bindings = @ + 1]
        /\ binder' = [NoBind EXCEPT !.at = "checking", !.dev = dev, !.verb = verb]
        /\ queue' = queue \ dropped
        /\ purged' = purged \cup {cmd.id : cmd \in dropped}
        /\ UNCHANGED <<thread, call, order, tx, dongle, uploader, unbound,
                       admitted, newest, frames, once>>

\* check_bind_allowed, check_unbind_allowed and get_rx_unused pass.
BindingAllowed ==
    /\ binder.at = "checking"
    /\ binder' = [binder EXCEPT !.at = "sending"]
    /\ UNCHANGED <<queue, thread, call, order, tx, dongle, uploader, unbound,
                   admitted, history>>

\* One of them fails, or the device does not converge in time.
BindingFails ==
    /\ binder.at \in {"checking", "observing"}
    /\ binder' = NoBind
    /\ UNCHANGED <<queue, thread, call, order, tx, dongle, uploader, unbound,
                   admitted, history>>

SendBindAgain ==
    /\ binder.at = "observing" /\ binder.tries < MaxFrames
    /\ binder' = [binder EXCEPT !.at = "sending"]
    /\ UNCHANGED <<queue, thread, call, order, tx, dongle, uploader, unbound,
                   admitted, history>>

\* The device reports the new state; save_rf_config is still to come.
ConfirmBinding ==
    /\ binder.at = "observing"
    /\ binder' = [binder EXCEPT !.at = "saving"]
    /\ unbound' = IF binder.verb = "bind" THEN unbound \ {binder.dev}
                                          ELSE unbound \cup {binder.dev}
    /\ UNCHANGED <<queue, thread, call, order, tx, dongle, uploader, admitted,
                   history>>

-----------------------------------------------------------------------------
(* Uploading a picture. *)

ReservePicture(dev) ==
    /\ order = None
    /\ uploader.dev = None /\ binder.dev = None
    /\ ~\E cmd \in queue : cmd.dev = dev /\ cmd.slot # Pwm
    /\ started.uploads < MaxUploads
    /\ started' = [started EXCEPT !.uploads = @ + 1]
    /\ uploader' = [NoUpload EXCEPT !.at = "sending", !.dev = dev]
    /\ UNCHANGED <<queue, thread, call, order, tx, dongle, binder, unbound,
                   admitted, newest, purged, frames, once>>

\* The device acknowledges a chunk, and another one follows.
NextChunk ==
    /\ uploader.at = "acking" /\ uploader.chunks < MaxFrames
    /\ uploader' = [uploader EXCEPT !.at = "sending"]
    /\ UNCHANGED <<queue, thread, call, order, tx, dongle, binder, unbound,
                   admitted, history>>

\* The terminator is acknowledged, an acknowledgement times out, or the
\* upload is cancelled between two frames.
EndUpload ==
    /\ uploader.at \in {"sending", "acking"}
    /\ tx.by # Uploader
    /\ uploader' = NoUpload
    /\ UNCHANGED <<queue, thread, call, order, tx, dongle, binder, unbound,
                   admitted, history>>

-----------------------------------------------------------------------------

Enqueue(c) == Busy(c) \/ Refuse(c) \/ Admit(c)

Operate(a) ==
    \/ SendFrame(a) \/ FrameSent(a) \/ FrameFails(a) \/ DongleFails(a)
    \/ FindMissing(a) \/ BackOff(a) \/ ReopenFails(a) \/ Reopen(a)

DrainStep == SendPending \/ DeferPending \/ DropObsolete

Binding ==
    \/ \E dev \in Devices, verb \in {"bind", "unbind"} : BeginBinding(dev, verb)
    \/ BindingAllowed \/ BindingFails \/ SendBindAgain \/ ConfirmBinding

Upload ==
    \/ \E dev \in Devices : ReservePicture(dev)
    \/ NextChunk \/ EndUpload

Next ==
    \/ \E c \in Callers, dev \in Devices, slot \in Slots, retries \in {0, Retries} :
          Issue(c, dev, slot, retries)
    \/ \E c \in Callers : Enqueue(c)
    \/ TakeQueue
    \/ \E cmd \in batch : PickAcknowledged(cmd) \/ PickNotDue(cmd) \/ PickDue(cmd)
    \/ Requeue
    \/ \E a \in Actors : LockDongle(a) \/ Operate(a)
    \/ DrainStep
    \/ BackoffEnds
    \/ Binding
    \/ Upload

Spec == Init /\ [][Next]_vars

Due(i) == \E cmd \in batch : cmd.id = i /\ PickDue(cmd)

\* The convergence thread runs every TICK_INTERVAL and time makes a command
\* due; the mutex of the dongle is eventually fair; USB calls time out, and so
\* do the recovery backoff and an upload.  Nothing is assumed about
\* acknowledgements, or about the dongle coming back.
Fairness ==
    /\ WF_vars(TakeQueue \/ Requeue)
    /\ \A i \in Ids : SF_vars(Due(i))
    /\ SF_vars(LockDongle(Drain))
    /\ WF_vars(DrainStep \/ \E a \in Actors : Operate(a))
    /\ WF_vars(BackoffEnds)
    /\ WF_vars(EndUpload)

FairSpec == Spec /\ Fairness

-----------------------------------------------------------------------------
(* Properties. *)

\* The control command whose frame is being sent, if one is.
OnAir == IF tx.stage # "air" THEN None
         ELSE IF tx.by \in Callers THEN call[tx.by].cmd
         ELSE IF tx.by = Drain THEN hand
         ELSE None

\* Every variable has its type; a command is in hand exactly while the
\* convergence thread works on one; and the queue keeps to one command for a
\* slot and to its limit, although commands leave it and come back.
TypeOK ==
    /\ queue \in SUBSET Command
    /\ Cardinality(queue) <= MaxQueue
    /\ \A x, y \in queue : SameSlot(x, y) => x = y
    /\ batch \in SUBSET Command
    /\ hand \in Command \cup {None}
    /\ drain \in {"pick", "send", "requeue"}
    /\ (hand = None) <=> (drain = "pick")
    /\ call \in [Callers -> [at : {"idle", "waiting", "sending"},
                             cmd : Command \cup {None}]]
    /\ \A c \in Callers : (call[c].at = "idle") <=> (call[c].cmd = None)
    /\ order \in Callers \cup {None}
    /\ tx \in [by : Actors \cup {None},
               stage : {"free", "ready", "air", "reopen"},
               again : BOOLEAN, sent : BOOLEAN]
    /\ dongle \in [open : BOOLEAN, backoff : BOOLEAN]
    /\ binder \in [at : {"idle", "checking", "sending", "observing", "saving"},
                   dev : Devices \cup {None}, verb : {"bind", "unbind"},
                   tries : Nat]
    /\ uploader \in [at : {"idle", "sending", "acking"},
                     dev : Devices \cup {None}, chunks : Nat]
    /\ unbound \in SUBSET Devices
    /\ admitted \in Nat
    /\ newest \in [Devices \X Slots -> Nat]
    /\ purged \in SUBSET Nat
    /\ once \in SUBSET Nat

\* superseded_command: when a control frame is started, no newer command for
\* its slot has been admitted, except one that a binding operation took out
\* of the queue again.
NewestWins ==
    [][OnAir = None /\ OnAir' # None =>
         LET i == newest[<<OnAir'.dev, OnAir'.slot>>]
         IN  i = OnAir'.id \/ i \in purged]_vars

\* The same without the exception: a newer target replaces the queued one and
\* supersedes a retry in flight.
SupersededNeverSent ==
    [][OnAir = None /\ OnAir' # None =>
         newest[<<OnAir'.dev, OnAir'.slot>>] = OnAir'.id]_vars

\* send_aio_pic, begin_binding and binding_blocks_control: no control frame
\* disturbs another operation on its device.  Of the sequenced commands none
\* is on the air from the first chunk of an upload to its end; none at all
\* after the first frame of a binding operation and before its end, nor while
\* the device stays unbound by hand.
ControlUndisturbed ==
    OnAir # None =>
        /\ OnAir.slot # Pwm => ~(uploader.dev = OnAir.dev /\ uploader.chunks > 0)
        /\ ~(binder.dev = OnAir.dev /\ binder.tries > 0)
        /\ OnAir.dev \notin unbound

\* with_ready_transport and account_retry: a command without retries is sent
\* at most once, whatever happens to the dongle; any other command at most
\* twice for its first frame and twice for each retry, and once more for an
\* upload that begins while the dongle is reopened in the middle of a retry:
\* that retry is not counted.
FramesBounded ==
    \A i \in Ids :
        frames[i] <= IF i \in once THEN 1
                     ELSE 2 * (Retries + 1) + started.uploads

Pending(i) == \E cmd \in queue \cup batch \cup {hand} : cmd # None /\ cmd.id = i
Deferring(i) == \E cmd \in queue \cup batch \cup {hand} :
                   cmd # None /\ cmd.id = i /\ cmd.initial

\* drain_pending: every command whose first frame is out is acknowledged, is
\* given up after its retries, or gives way to a newer command or a binding
\* operation, even if the dongle never comes back.
EverySettles == \A i \in Ids : Pending(i) /\ ~Deferring(i) ~> ~Pending(i)

=============================================================================
