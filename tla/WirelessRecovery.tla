-------------------------- MODULE WirelessRecovery --------------------------
(***************************************************************************)
(* The wireless link of the daemon, its loss and its recovery              *)
(* (lianli-daemon/src/service: wireless_recovery.rs, init.rs, shutdown.rs; *)
(* lianli-devices/src/wireless: recovery.rs, controller.rs, transport.rs). *)
(*                                                                         *)
(* The main loop owns a controller and hands clones of it to the fan, AIO  *)
(* and RGB controllers.  All clones share the open dongles of one          *)
(* connection.  When the link is lost the main loop stops its controller,  *)
(* and a worker connects a fresh one, perhaps after resetting one dongle   *)
(* through the other; the ladder paces those resets.  If the worker        *)
(* succeeds its controller replaces the stopped one and new clones are     *)
(* handed out.  Clones of an earlier connection may live on and must not   *)
(* touch the dongles again.                                                *)
(*                                                                         *)
(* A connection is "current" or "stale", an earlier one.  Time is counted  *)
(* in units of the check for USB devices, and ages are cut off where the   *)
(* code no longer tells them apart.                                        *)
(***************************************************************************)
EXTENDS Naturals, Sequences

CONSTANTS
  Tx, Rx,         (* the dongles                                             *)
  Fan, Aio, Rgb,  (* the controllers that hold clones                        *)
  None,
  Backoff,        (* RESET_BACKOFF                                           *)
  Slow,           (* SLOW_RETRY                                              *)
  Healthy,        (* HEALTHY_LINK                                            *)
  Loads           (* what may happen in a behaviour: unplugged or hanging    *)
                  (* dongles and failed calls, lapses of a good link, a      *)
                  (* shutdown, and whether wireless devices are configured   *)

Dongles == {Tx, Rx}
Consumers == {Fan, Aio, Rgb}
Companion(d) == IF d = Tx THEN Rx ELSE Tx

ASSUME RecoveryAssumption ==
  /\ Tx # Rx /\ None \notin Dongles \cup Consumers \cup Nat
  /\ Backoff \in Seq(Nat) /\ Len(Backoff) = 3
  /\ Slow \in Nat /\ Healthy \in Nat
  /\ Backoff[1] <= Backoff[2] /\ Backoff[2] <= Slow /\ Backoff[3] <= Slow
  /\ Slow <= Healthy
  /\ Loads \subseteq [faults : Nat, lapses : Nat, stops : Nat, configured : BOOLEAN]

VARIABLES
  dongle,   (* on the bus and answering, on the bus but hung, off the bus    *)
            (* until it is reset, or unplugged                               *)
  known,    (* presence: what the last scan saw of it, seen from now         *)
  ladder,   (* RecoveryLadder, its instants as ages or as time left          *)
  worker,   (* the recovery worker                                           *)
  main,     (* where the main loop is                                        *)
  link,     (* link_up, ever_connected, unresponsive                         *)
  session,  (* the current connection                                        *)
  open,     (* connections with an open dongle                               *)
  clone,    (* the connection each consumer's clone belongs to               *)
  op,       (* a clone's operation under the dongle's mutex                  *)
  left,     (* what may still happen                                         *)
  pace      (* history: time since the last reset, resets in a row, and time *)
            (* since the link was brought up                                 *)

daemon == <<ladder, worker, main, link>>
radio == <<session, open>>
vars == <<dongle, known, daemon, radio, clone, op, left, pace>>

Present(d) == dongle[d] \in {"works", "hung"}
Works(d) == dongle[d] = "works"

Ages == 0..Slow
Stages == {"none", "connect", "poll", "reset", "done"}
Worker ==
  {w \in [at : Stages, allow : BOOLEAN, again : BOOLEAN, cancel : BOOLEAN,
          reset : Dongles \cup {None}, ok : BOOLEAN] :
     w.at = "reset" => w.allow /\ w.reset # None}
NoWorker == [at |-> "none", allow |-> FALSE, again |-> FALSE, cancel |-> FALSE,
             reset |-> None, ok |-> FALSE]

NewLadder == [resets |-> 0, last |-> None, due |-> None, up |-> None]

Spend(what) ==
  /\ left[what] > 0
  /\ left' = [left EXCEPT ![what] = @ - 1]

(* A connection's stop flag, which its clones share and which a later        *)
(* connection does not clear.                                                *)
ClearedStop(c) == c = "current" /\ main \in {"stopping", "closing"}
Stopped(c) == c = "stale" \/ main \in {"stopping", "closing"}

(* The main loop's controller has the current connection. *)
Live == session # "none" /\ worker.at = "none"

(* is_connected of the main loop's controller. *)
Connected == Live /\ session = "up" /\ ~Stopped("current")

Scan == [d \in Dongles |-> IF Present(d) THEN "here" ELSE "absent"]

(* The result of connect_wireless_at_startup, and the consumers after it.    *)
Init ==
  /\ left \in Loads
  /\ dongle \in [Dongles -> {"works", "gone"}]
  /\ known = Scan
  /\ worker = NoWorker /\ main = "idle" /\ op = None
  /\ \/ /\ Works(Tx) /\ Works(Rx)
        /\ ladder = [NewLadder EXCEPT !.up = 0]
        /\ link = [up |-> TRUE, ever |-> TRUE, flagged |-> None]
        /\ session = "up" /\ open = {"current"}
        /\ clone = [c \in Consumers |-> "current"]
     \/ /\ ladder = [NewLadder EXCEPT !.due = IF Present(Tx) THEN Backoff[1] ELSE None]
        /\ link = [up |-> FALSE, ever |-> FALSE, flagged |-> None]
        /\ session = "none" /\ open = {}
        /\ clone = [c \in Consumers |-> IF c = Aio THEN "stale" ELSE "none"]
  /\ pace = [age |-> Slow, run |-> 0, up |-> IF link.up THEN 0 ELSE None]

-----------------------------------------------------------------------------
(* RecoveryLadder.                                                           *)

Settled == ladder.up # None /\ ladder.up >= Healthy

(* A ladder that waits for a time that was never set. *)
DueScheduled == ladder.due = 0

Due == Settled \/ ladder.due = None \/ ladder.due = 0

Spacing(resets) ==
  CASE resets = 0 -> 0
    [] resets = 1 -> Backoff[1]
    [] resets = 2 -> Backoff[2]
    [] OTHER -> Slow

AllowReset ==
  Settled \/ ladder.last = None \/ ladder.last >= Spacing(ladder.resets)

(* A ladder whose resets a good link forgives at once. *)
RecordForgiving(reset, ok) ==
  [resets |-> IF ok THEN 0 ELSE (IF Settled THEN 0 ELSE ladder.resets)
                                + (IF reset # None THEN 1 ELSE 0),
   last |-> IF reset # None THEN 0 ELSE IF Settled THEN None ELSE ladder.last,
   due |-> IF ok THEN None ELSE Backoff[1],
   up |-> IF ok THEN 0 ELSE None]

(* record: resets beyond the last rung of the ladder are not told apart.     *)
Record(reset, ok) ==
  LET base == IF Settled THEN NewLadder ELSE ladder
      resets == IF reset = None THEN base.resets
                ELSE IF base.resets > Len(Backoff) THEN base.resets
                ELSE base.resets + 1
      wait == CASE resets = 0 -> Backoff[1]
                [] resets \in 1..Len(Backoff) -> Backoff[resets]
                [] OTHER -> Slow
      rest == Slow - (IF base.last = None THEN Slow ELSE base.last)
      slow == reset = None /\ resets >= Len(Backoff) /\ rest > wait
  IN [resets |-> resets,
      last |-> IF reset = None THEN base.last ELSE 0,
      due |-> IF ok THEN None ELSE IF slow THEN rest ELSE wait,
      up |-> IF ok THEN 0 ELSE None]

Older(age, limit) == IF age = None \/ age >= limit THEN age ELSE age + 1
Sooner(rest) == IF rest = None \/ rest = 0 THEN rest ELSE rest - 1

Tick ==
  /\ ladder' = [ladder EXCEPT !.last = Older(@, Slow), !.due = Sooner(@),
                              !.up = Older(@, Healthy)]
  /\ pace' = [pace EXCEPT !.age = Older(@, Slow), !.up = Older(@, Healthy)]
  /\ <<ladder', pace'>> # <<ladder, pace>>
  /\ UNCHANGED <<dongle, known, worker, main, link, radio, clone, op, left>>

-----------------------------------------------------------------------------
(* The dongles.  A dongle that leaves the bus or is reset comes back at      *)
(* another address.                                                          *)

Moves(d) == known' = [known EXCEPT ![d] = IF @ = "here" THEN "moved" ELSE @]

Unplug(d) ==
  /\ dongle[d] # "gone"
  /\ Spend("faults")
  /\ dongle' = [dongle EXCEPT ![d] = "gone"]
  /\ Moves(d)
  /\ UNCHANGED <<daemon, radio, clone, op, pace>>

Plug(d) ==
  /\ dongle[d] = "gone"
  /\ dongle' = [dongle EXCEPT ![d] = "works"]
  /\ UNCHANGED <<known, daemon, radio, clone, op, left, pace>>

(* It stops answering, or drops off the bus, until it is reset. *)
Hang(d) ==
  /\ Works(d)
  /\ Spend("faults")
  /\ \E how \in {"hung", "lost"} :
       /\ dongle' = [dongle EXCEPT ![d] = how]
       /\ IF how = "lost" THEN Moves(d) ELSE UNCHANGED known
  /\ UNCHANGED <<daemon, radio, clone, op, pace>>

(* Five failures of the TX in a row, as during a resume. *)
GoesSilent ==
  /\ session = "up"
  /\ Spend("lapses")
  /\ session' = "silent"
  /\ UNCHANGED <<dongle, known, daemon, open, clone, op, pace>>

(* The discovery thread gives up after three resets of the TX through the RX. *)
StopsPolling ==
  /\ session \in {"up", "silent"} /\ worker.at \in {"none", "done"}
  /\ IF Works(Tx) /\ Works(Rx) THEN Spend("lapses") ELSE UNCHANGED left
  /\ session' = "dead"
  /\ IF Works(Rx) /\ Present(Tx) THEN Moves(Tx) ELSE UNCHANGED known
  /\ UNCHANGED <<dongle, daemon, open, clone, op, pace>>

-----------------------------------------------------------------------------
(* with_transport_recovery of a clone: the stop flag is looked at under the  *)
(* mutex before the operation and after a reopening.                         *)

BeginOperation(c) ==
  /\ op = None
  /\ clone[c] # "none"
  /\ ~Stopped(clone[c])
  /\ op' = [by |-> c, on |-> clone[c]]
  /\ UNCHANGED <<dongle, known, daemon, radio, clone, left, pace>>

(* Sent, on the open handle or on a new one: the failures are over. *)
Sent ==
  /\ op # None
  /\ Works(Tx) /\ ~Stopped(op.on)
  /\ open' = open \cup {op.on}
  /\ session' = IF op.on = "current" /\ session = "silent" THEN "up" ELSE session
  /\ op' = None
  /\ UNCHANGED <<dongle, known, daemon, clone, left, pace>>

(* The first error is kept, or the reopening fails and the handle is gone.   *)
NotSent ==
  /\ op # None
  /\ open' \in {open, open \ {op.on}}
  /\ op' = None
  /\ UNCHANGED <<dongle, known, daemon, session, clone, left, pace>>

-----------------------------------------------------------------------------
(* The main loop: supervise_wireless and poll_wireless_recovery.             *)

(* observe: the flag is for a dongle that stays where it is. *)
Observed ==
  [link EXCEPT !.flagged = IF @ # None /\ known[@] # Scan[@] THEN None ELSE @]

(* stop(): the flag first; the threads and the dongles' mutexes are waited for. *)
LoseLink ==
  /\ main = "idle" /\ worker.at = "none"
  /\ link.up /\ ~Connected
  /\ link' = [link EXCEPT !.up = FALSE]
  /\ clone' = [clone EXCEPT ![Rgb] = "none"]
  /\ main' = "stopping"
  /\ UNCHANGED <<dongle, known, ladder, worker, radio, op, left, pace>>

Released ==
  /\ op # None => op.on # "current"
  /\ session' = "none"
  /\ open' = open \ {"current"}
  /\ clone' = [c \in Consumers |-> IF clone[c] = "current" THEN "stale" ELSE clone[c]]

Release ==
  /\ main = "stopping"
  /\ Released
  /\ main' = "released"
  /\ UNCHANGED <<dongle, known, ladder, worker, link, op, left, pace>>

Recoverable == Present(Tx) \/ (Present(Rx) /\ (link.ever \/ left.configured))

(* The history of an attempt that ends.  The count of resets starts again    *)
(* when the link was brought up Healthy ago, also if it was lost since: then *)
(* only a reset of this attempt is left.                                     *)
Remember(reset, ok) ==
  pace' = [age |-> pace.age,
           run |-> IF pace.up # None /\ pace.up >= Healthy
                   THEN (IF reset = None THEN 0 ELSE 1) ELSE pace.run,
           up |-> IF ok THEN 0 ELSE None]

(* The rest of supervise_wireless: a change of the bus advances the next     *)
(* attempt, and an attempt that is due starts, unless no thread can be had.  *)
Supervise ==
  /\ main = "released" \/ (main = "idle" /\ ~link.up)
  /\ worker.at = "none"
  /\ known' = Scan
  /\ link' = Observed
  /\ main' = "idle"
  /\ LET changed == known # Scan
         start == Recoverable /\ (changed \/ Due)
         noticed == IF changed THEN [ladder EXCEPT !.due = 0] ELSE ladder
     IN /\ clone' = IF start THEN [clone EXCEPT ![Rgb] = "none"] ELSE clone
        /\ \/ /\ worker' = IF start THEN [NoWorker EXCEPT !.at = "connect",
                                                          !.allow = AllowReset]
                           ELSE worker
              /\ ladder' = noticed
              /\ UNCHANGED <<left, pace>>
           \/ /\ start /\ Spend("faults")
              /\ ladder' = Record(None, FALSE)
              /\ Remember(None, FALSE)
              /\ UNCHANGED worker
  /\ UNCHANGED <<dongle, radio, op>>

(* Only the fan controller is restarted. *)
HandOutFanOnly(conn, up) ==
  /\ op # None => op.by # Fan
  /\ clone' = [clone EXCEPT ![Fan] = IF up THEN conn ELSE "none", ![Rgb] = conn]

(* The fan controller gets a clone only of a connection that is up, the      *)
(* others any.  The threads of the old fan and AIO controllers are joined    *)
(* first.                                                                    *)
HandOut(conn, up) ==
  /\ op # None => op.by = Rgb
  /\ clone' = [c \in Consumers |-> IF c = Fan /\ ~up THEN "none" ELSE conn]

(* finish_wireless_attempt: twice reset and still on the bus is flagged.     *)
AttemptSucceeds ==
  /\ main = "idle" /\ worker.at = "done" /\ worker.ok
  /\ known' = Scan
  /\ ladder' = Record(worker.reset, TRUE)
  /\ link' = [up |-> TRUE, ever |-> TRUE, flagged |-> None]
  /\ worker' = NoWorker
  /\ HandOut("current", session = "up")
  /\ Remember(worker.reset, TRUE)
  /\ UNCHANGED <<dongle, main, radio, op, left>>

AttemptFails ==
  /\ main = "idle" /\ worker.at = "done" /\ ~worker.ok
  /\ known' = Scan
  /\ ladder' = Record(worker.reset, FALSE)
  /\ link' = IF worker.reset # None /\ ladder'.resets >= 2 /\ Present(worker.reset)
             THEN [link EXCEPT !.flagged = worker.reset]
             ELSE Observed
  /\ worker' = NoWorker
  /\ Remember(worker.reset, FALSE)
  /\ UNCHANGED <<dongle, main, radio, clone, op, left>>

(* SystemResumed, a stable change of the device count, new settings: the     *)
(* consumers are restarted with whatever the main loop holds.                *)
Rebuild ==
  /\ main = "idle"
  /\ HandOut(IF Live THEN "current" ELSE "stale", Connected)
  /\ UNCHANGED <<dongle, known, daemon, radio, op, left, pace>>

-----------------------------------------------------------------------------
(* The recovery worker: recover.                                             *)

Goto(at) == worker' = [worker EXCEPT !.at = at]

ConnectOk ==
  /\ worker.at = "connect"
  /\ Works(Tx) /\ Works(Rx)
  /\ open' = open \cup {"current"}
  /\ Goto("poll")
  /\ UNCHANGED <<dongle, known, ladder, main, link, session, clone, op, left, pace>>

(* reset_target: the dongle that is missing, else the one whose stage failed. *)
ResetTarget(blamed) ==
  IF blamed = "busy" THEN None ELSE
  CASE Present(Tx) /\ ~Present(Rx) -> Rx
    [] Present(Rx) /\ ~Present(Tx) -> Tx
    [] OTHER -> IF Present(Tx) /\ blamed \in Dongles THEN blamed ELSE None

(* An attempt that resets also when no dongle is to blame. *)
AttemptResets(blamed) ==
  IF worker.again \/ ~worker.allow THEN Goto("done")
  ELSE worker' = [worker EXCEPT !.at = "reset", !.reset = ResetTarget(blamed)]

(* An attempt that failed once may reset a dongle and try again. *)
AttemptOver(blamed) ==
  LET target == IF worker.again \/ ~worker.allow \/ worker.cancel THEN None
                ELSE ResetTarget(blamed)
  IN IF target = None THEN Goto("done")
     ELSE worker' = [worker EXCEPT !.at = "reset", !.reset = target]

(* A dongle that is not there or does not answer, or one that is in use. *)
ConnectFails ==
  /\ worker.at = "connect"
  /\ \/ \E d \in Dongles : ~Works(d) /\ AttemptOver(d) /\ UNCHANGED left
     \/ Spend("faults") /\ AttemptOver("busy")
     \/ worker.cancel /\ Goto("done") /\ UNCHANGED left
  /\ UNCHANGED <<dongle, known, ladder, main, link, radio, clone, op, pace>>

PollOk ==
  /\ worker.at = "poll"
  /\ session' = "up"
  /\ worker' = [worker EXCEPT !.at = "done", !.ok = TRUE]
  /\ UNCHANGED <<dongle, known, ladder, main, link, open, clone, op, left, pace>>

(* Cancelled, or a thread cannot be had: the controller stops itself. *)
PollFails ==
  /\ worker.at = "poll"
  /\ IF worker.cancel THEN UNCHANGED left ELSE Spend("faults")
  /\ open' = open \ {"current"}
  /\ AttemptOver("poll")
  /\ UNCHANGED <<dongle, known, ladder, main, link, session, clone, op, pace>>

(* reset_via_companion and wait_for_reenumeration. *)
Reset ==
  /\ worker.at = "reset"
  /\ Works(Companion(worker.reset))
  /\ dongle' = [dongle EXCEPT ![worker.reset] = IF @ = "gone" THEN @ ELSE "works"]
  /\ Moves(worker.reset)
  /\ pace' = [pace EXCEPT !.age = 0, !.run = IF pace.age >= Slow THEN 1
                                             ELSE IF @ < 3 THEN @ + 1 ELSE 3]
  /\ worker' = [worker EXCEPT !.at = "connect", !.again = TRUE]
  /\ UNCHANGED <<ladder, main, link, radio, clone, op, left>>

ResetFails ==
  /\ worker.at = "reset"
  /\ IF Works(Companion(worker.reset)) THEN Spend("faults") ELSE UNCHANGED left
  /\ Goto("done")
  /\ UNCHANGED <<dongle, known, ladder, main, link, radio, clone, op, pace>>

-----------------------------------------------------------------------------
(* shutdown(): cancel, join the worker and drop its controller, then stop.   *)

BeginShutdown ==
  /\ main = "idle"
  /\ Spend("stops")
  /\ worker' = [worker EXCEPT !.cancel = TRUE]
  /\ main' = "joining"
  /\ UNCHANGED <<dongle, known, ladder, link, radio, clone, op, pace>>

JoinWorker ==
  /\ main = "joining"
  /\ worker.at \in {"none", "done"}
  /\ worker' = NoWorker
  /\ IF worker.at = "done" /\ worker.ok
     THEN session' = "none" /\ open' = open \ {"current"}
     ELSE UNCHANGED radio
  /\ main' = "closing"
  /\ UNCHANGED <<dongle, known, ladder, link, clone, op, left, pace>>

Close ==
  /\ main = "closing"
  /\ Released
  /\ main' = "down"
  /\ UNCHANGED <<dongle, known, ladder, worker, link, op, left, pace>>

-----------------------------------------------------------------------------

WorkerStep ==
  ConnectOk \/ ConnectFails \/ PollOk \/ PollFails \/ Reset \/ ResetFails

MainStep ==
  \/ LoseLink \/ Release \/ Supervise \/ AttemptSucceeds \/ AttemptFails
  \/ JoinWorker \/ Close

OperationEnds == Sent \/ NotSent

Environment ==
  \/ \E d \in Dongles : Unplug(d) \/ Plug(d) \/ Hang(d)
  \/ GoesSilent \/ StopsPolling
  \/ Rebuild \/ BeginShutdown
  \/ \E c \in Consumers : BeginOperation(c)

Next == Tick \/ Environment \/ OperationEnds \/ WorkerStep \/ MainStep

Spec == Init /\ [][Next]_vars

(* Time passes, the main loop handles its events, a worker's calls have      *)
(* deadlines, USB operations time out, and parking_lot hands a mutex on.     *)
Fairness ==
  /\ WF_vars(Tick)
  /\ SF_vars(MainStep)
  /\ WF_vars(WorkerStep)
  /\ WF_vars(OperationEnds)

FairSpec == Spec /\ Fairness

-----------------------------------------------------------------------------

(* The type of every variable. *)
TypeOK ==
  /\ dongle \in [Dongles -> {"works", "hung", "lost", "gone"}]
  /\ known \in [Dongles -> {"absent", "here", "moved"}]
  /\ ladder \in [resets : 0..(Len(Backoff) + 1), last : Ages \cup {None},
                 due : Ages \cup {None}, up : (0..Healthy) \cup {None}]
  /\ worker \in Worker
  /\ main \in {"idle", "stopping", "released", "joining", "closing", "down"}
  /\ link \in [up : BOOLEAN, ever : BOOLEAN, flagged : Dongles \cup {None}]
  /\ session \in {"none", "up", "silent", "dead"}
  /\ open \subseteq {"current", "stale"}
  /\ clone \in [Consumers -> {"none", "current", "stale"}]
  /\ op \in [by : Consumers, on : {"current", "stale"}] \cup {None}
  /\ pace \in [age : Ages, run : 0..3, up : (0..Healthy) \cup {None}]

(* stop and with_transport_recovery: whoever still holds a clone of an       *)
(* earlier connection, and whatever it was doing when the link was lost, the *)
(* recovery worker finds the dongles free, and nobody opens them behind its  *)
(* back; after a shutdown nothing has a dongle open.                         *)
DonglesHandedOver ==
  /\ "stale" \notin open
  /\ worker.at \in {"connect", "reset"} => open = {}
  /\ main = "down" => open = {} /\ session = "none" /\ worker.at = "none"

(* finish_wireless_attempt: once the link is back no controller goes on with *)
(* a clone of the connection that was lost, also if it was restarted in the  *)
(* meantime by a resume or a change of the devices.                          *)
NobodyLeftBehind ==
  link.up /\ main = "idle" => \A c \in Consumers : clone[c] # "stale"

(* RecoveryLadder, "three fast companion resets, then one every five         *)
(* minutes": whatever happens to the link and on the bus, also over links    *)
(* that come and go, every reset keeps the distance that the resets before   *)
(* it ask for.  These are counted anew only after Slow without one, or when  *)
(* an attempt ends Healthy after the link was last brought up.  The comment  *)
(* at recovery.rs:125 says more, that the budget refills only after the link *)
(* "has stayed up": settled() does not look whether it has.                  *)
ResetsPaced ==
  [][worker.at = "reset" /\ worker'.at = "connect" =>
       pace.age >= Spacing(pace.run)]_vars

Usable == Works(Tx) /\ Works(Rx) /\ main \in {"idle", "stopping", "released"}
Linked == session = "up" /\ worker.at = "none" /\ main = "idle"

(* supervise_wireless: with both dongles in order the link comes back, from  *)
(* any state of the ladder, the worker and the consumers.                    *)
LinkComesBack == Usable ~> Linked \/ ~Usable

(* fan.rs:236, the master clock "must be sent every second": while the link  *)
(* is up the fan controller has it, or gets it.                              *)
FanHasTheLink ==
  Linked /\ clone[Fan] # "current" ~> clone[Fan] = "current" \/ ~Linked

=============================================================================
