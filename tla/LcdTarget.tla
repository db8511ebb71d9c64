----------------------------- MODULE LcdTarget -----------------------------
(***************************************************************************)
(* One streaming LCD on a WinUSB transport (lianli-daemon/src/service:     *)
(* runtime.rs, source_preparation.rs, source_retirement.rs, media.rs,      *)
(* mod.rs).                                                                *)
(*                                                                         *)
(* The main loop attaches the LCD, selects its media and removes it.  The  *)
(* streaming worker passes over the targets under their lock: it collects  *)
(* what has become ready and serves the target.  A preparation thread      *)
(* builds live sources, a sender thread owns the device and works through  *)
(* a short queue, a renderer belongs to each live source, and retired      *)
(* sources are disposed of on a thread of their own.                       *)
(*                                                                         *)
(* Tokens the code compares by identity (Arc::ptr_eq) are flags of their   *)
(* holders where only "is it the current one" is asked: the current stream *)
(* and frame delivery ("live", "mine"); a stream that is not current is    *)
(* cancelled.  Selections and removals are tokens of which an unused one   *)
(* is taken, as an allocation is not reused while a Weak refers to it.     *)
(***************************************************************************)
EXTENDS Naturals, Sequences, FiniteSets

CONSTANTS
  Live, File,   (* assets: one that a renderer draws, and an encoded file    *)
  None,
  Tokens,       (* enough to always have an unused one                       *)
  Delays,       (* waits before the recreations of an interrupted LCD        *)
  Healthy,      (* TRANSFER_RECOVERY_HEALTHY_RESET                           *)
  Retries,      (* brightness_retries                                        *)
  Loads         (* what may happen in a behaviour                            *)

Capacity == 2   (* of the sender's queue *)
Assets == {Live, File}
Attempts == Len(Delays)

ASSUME LcdAssumption ==
  /\ Live # File /\ None \notin Assets \cup Tokens \cup Nat
  /\ Tokens \subseteq Nat /\ Cardinality(Tokens) >= 4
  /\ Delays \in Seq(Nat) /\ Healthy \in Nat /\ Retries \in Nat
  /\ Loads \subseteq
       [saves : Nat, retries : Nat, dims : Nat, polls : Nat, faults : Nat, unplugs : Nat]

VARIABLES
  target,     (* the ActiveTarget                                            *)
  held,       (* the main loop has taken it out of the map                   *)
  kept,       (* lcd_transfer_recovery                                       *)
  requested,  (* the configured media                                        *)
  wanted,     (* media_assets: the media that is prepared                    *)
  removals,   (* RemoveFailedLcd events on their way to the main loop        *)
  pass,       (* where the streaming worker is                               *)
  prep,       (* the preparation thread                                      *)
  disposing,  (* sources handed to the disposal thread                       *)
  wire,       (* the sender: its queue, what it works on, reported failures, *)
              (* and that the device was interrupted in mid-packet           *)
  plugged,    (* the LCD is on the bus                                       *)
  left,       (* what may still happen                                       *)
  pace        (* history: time since the last interruption while no          *)
              (* recreation was due, recreations, and how many are allowed   *)

main == <<held, kept, requested, wanted>>
vars == <<target, main, removals, pass, prep, disposing, wire, plugged, left, pace>>

Spend(what) ==
  /\ left[what] > 0
  /\ left' = [left EXCEPT ![what] = @ - 1]

Long == Healthy + 1     (* longer than the healthy period, or never *)

-----------------------------------------------------------------------------
(* Sources, the stream and the frame delivery.                               *)

Kinds == {"none", "live", "jpeg", "file"}

(* A renderer's thread: "restarting" once it has decided to restart its      *)
(* encoder, "late" if it is then told to stop.                               *)
Runs == {"running", "restarting", "late", "stopping", "ended"}
Source ==
  [kind : Kinds, asset : Assets \cup {None}, run : Runs,
   mine : BOOLEAN, fresh : BOOLEAN]

NoMedia ==
  [kind |-> "none", asset |-> None, run |-> "ended", mine |-> FALSE, fresh |-> FALSE]
FileSource == [NoMedia EXCEPT !.kind = "file", !.asset = File, !.fresh = TRUE]
LiveSource ==
  [NoMedia EXCEPT !.kind = "live", !.asset = Live, !.run = "running", !.mine = TRUE]
JpegSource ==
  [NoMedia EXCEPT !.kind = "jpeg", !.asset = Live, !.run = "running", !.fresh = TRUE]

Autonomous(s) == s.kind \in {"live", "file"}
HasExited(s) == s.kind \in {"live", "jpeg"} /\ s.run = "ended"
StopRequested(s) ==
  [s EXCEPT !.run = CASE @ = "running" -> "stopping"
                      [] @ = "restarting" -> "late"
                      [] OTHER -> @]

Message == [kind : {"stream", "frame", "dim"}, live : BOOLEAN, asset : Assets \cup {None}]
Stream(a) == [kind |-> "stream", live |-> TRUE, asset |-> a]
Frame == [kind |-> "frame", live |-> TRUE, asset |-> None]
Dim == [kind |-> "dim", live |-> TRUE, asset |-> None]
Nothing == [kind |-> "dim", live |-> FALSE, asset |-> None]

Failures == {"failed", "interrupted"}

Ended(kind, m) == IF m.kind = kind THEN [m EXCEPT !.live = FALSE] ELSE m
EndAll(kind, w) ==
  [w EXCEPT !.queue = [i \in DOMAIN @ |-> Ended(kind, @[i])], !.active = Ended(kind, @)]

(* StreamControl::cancel: a report not taken yet is dropped with it.         *)
Cancelled(w) == [EndAll("stream", w) EXCEPT !.failure = None]

FullLate(w) == Len(w.queue) > Capacity

Full(w) == Len(w.queue) = Capacity

(* StreamControl::submit, once the queue has taken the message.              *)
Submitted(w, a) ==
  LET ended == EndAll("stream", w) IN
  [ended EXCEPT
     !.queue = Append(@, Stream(a)),
     !.failure = IF @ = "interrupted" THEN @ ELSE None]

(* reset_frame_delivery *)
FramesReset(w) == [EndAll("frame", w) EXCEPT !.frames = None]

NoWire == [queue |-> <<>>, active |-> Nothing, failure |-> None, frames |-> None,
           latched |-> FALSE]

-----------------------------------------------------------------------------
(* TransferRecovery, with ages and remaining times for its instants.         *)

NewTransfer == [attempts |-> 0, since |-> Long, due |-> None, pending |-> FALSE]

Scheduled(r) ==
  LET spent == IF r.since > Healthy THEN 0 ELSE r.attempts IN
  IF r.due # None THEN [r EXCEPT !.pending = TRUE]
  ELSE IF spent >= Attempts
  THEN [attempts |-> spent, since |-> 0, due |-> None, pending |-> TRUE]
  ELSE [attempts |-> spent + 1, since |-> 0, due |-> Delays[spent + 1], pending |-> TRUE]

RetriedNow(r) == IF r.pending THEN [r EXCEPT !.attempts = 0, !.due = 0] ELSE r

RenewedForReplacement(r) == NewTransfer

ForReplacement(r) == [r EXCEPT !.due = None, !.pending = FALSE]

Aged(r) ==
  [r EXCEPT !.since = IF @ < Long THEN @ + 1 ELSE @,
            !.due = IF @ = None \/ @ = 0 THEN @ ELSE @ - 1]

-----------------------------------------------------------------------------
(* The target.                                                               *)

Transfer ==
  [attempts : 0..Attempts, since : 0..Long, due : Nat \cup {None}, pending : BOOLEAN]
Target ==
  [asset : Assets, pending : BOOLEAN, failed : BOOLEAN, paused : BOOLEAN,
   stage : {"starting", "playing", "failed"}, media : Source,
   retired : Source \cup {None}, selection : Tokens, removal : Tokens \cup {None},
   dim : 0..Retries, transfer : Transfer]

(* None is no record of these. *)
ASSUME NoneAssumption == None \notin Source /\ None \notin Transfer /\ None \notin Target

InMap == target # None /\ ~held
LockFree == pass = "collect"

InUse ==
  removals \cup {prep.selection} \cup
  (IF target = None THEN {} ELSE {target.selection, target.removal})
Unused ==
  CHOOSE n \in Tokens \ InUse : TRUE

Disown(s) == IF s = None THEN None ELSE [s EXCEPT !.mine = FALSE]
Disowned(t) == [t EXCEPT !.media = Disown(@), !.retired = Disown(@)]

(* pause_source, with Cancelled for the sender.                              *)
Paused(t) ==
  LET d == Disowned(t) IN [d EXCEPT !.media = StopRequested(@), !.paused = TRUE]

Stopped(t) == [Paused(t) EXCEPT !.stage = "failed"]

(* interrupt_transfer *)
Interrupted(t) == [Stopped(t) EXCEPT !.transfer = Scheduled(@)]

(* request_removal, with Cancelled for the sender.                           *)
Removing(t) ==
  LET d == Disowned(t) IN
  [d EXCEPT !.removal = Unused, !.selection = Unused, !.stage = "failed",
            !.pending = FALSE, !.dim = 0, !.media = StopRequested(@)]

Swapped(t, a) ==
  [t EXCEPT !.asset = a, !.pending = TRUE, !.failed = FALSE, !.selection = Unused,
            !.stage = IF @ = "failed" THEN "starting" ELSE @]

(* begin_source_install and the assignment of the new source.                *)
Installed(t, s) ==
  [t EXCEPT !.retired = StopRequested(t.media), !.media = s, !.pending = FALSE,
            !.paused = FALSE, !.failed = FALSE, !.stage = "starting"]

NeedsPreparation(t) == t.asset = Live

(* source_request *)
Requests(t) ==
  t.pending /\ t.removal = None /\ t.retired = None /\ t.dim = 0 /\ NeedsPreparation(t)

AcceptsAnySelection(t, selection) ==
  t.pending /\ t.removal = None /\ t.retired = None /\ t.dim = 0

(* accepts_source *)
Accepts(t, selection) ==
  /\ t.pending /\ t.removal = None /\ t.retired = None /\ t.dim = 0
  /\ t.selection = selection

(* retry_failed_source *)
Retriable(t) ==
  t.removal = None /\ ~t.transfer.pending /\ (t.failed \/ t.stage = "failed")
Retried(t) ==
  [t EXCEPT !.stage = "starting", !.pending = TRUE, !.failed = FALSE, !.selection = Unused]
RetrySource(t) ==
  IF Retriable(t)
  THEN target' = Retried(t) /\ wire' = FramesReset(wire)
  ELSE target' = t /\ wire' = wire

(* flush_pending_brightness: the queue takes the value, or a try is used up. *)
Flush(t, w) ==
  IF t.dim > 0 /\ ~Full(w)
  THEN /\ target' = [t EXCEPT !.dim = 0]
       /\ wire' = [w EXCEPT !.queue = Append(@, Dim)]
  ELSE /\ target' = [t EXCEPT !.dim = IF @ > 0 THEN @ - 1 ELSE 0]
       /\ wire' = w

-----------------------------------------------------------------------------
Fresh(age) == [age |-> age, spent |-> 0, allowed |-> Attempts]

Idle == [at |-> "idle", selection |-> None, result |-> "none"]

Init ==
  /\ target = None /\ held = FALSE /\ kept = None
  /\ requested \in Assets /\ wanted = requested
  /\ removals = {} /\ pass = "collect" /\ prep = Idle /\ disposing = 0
  /\ wire = NoWire /\ plugged = TRUE
  /\ left \in Loads
  /\ pace = Fresh(Long)

(***************************************************************************)
(* The main loop.                                                          *)
(***************************************************************************)

(* prepare_media_assets for a changed configuration; the media is ready      *)
(* later, and until then the LCD keeps what it has.                          *)
Save(a) ==
  /\ ~held /\ LockFree /\ a # requested
  /\ Spend("saves")
  /\ requested' = a
  /\ IF target = None THEN UNCHANGED <<target, wire>> ELSE RetrySource(target)
  /\ UNCHANGED <<held, kept, wanted, removals, pass, prep, disposing, plugged, pace>>

AssetReady ==
  /\ ~held /\ wanted # requested
  /\ wanted' = requested
  /\ UNCHANGED <<target, held, kept, requested, removals, pass, prep, disposing,
                 wire, plugged, left, pace>>

(* "Retry failed media": the user grants an interrupted LCD a fresh budget.  *)
RetryMedia ==
  /\ InMap /\ LockFree /\ requested = wanted
  /\ Spend("retries")
  /\ LET granted == target.removal = None /\ target.transfer.pending
         t == IF target.removal = None
              THEN [target EXCEPT !.transfer = RetriedNow(@)] ELSE target
     IN /\ RetrySource(t)
        /\ pace' = IF granted THEN [pace EXCEPT !.spent = 0, !.allowed = 1 + Attempts]
                   ELSE pace
  /\ UNCHANGED <<main, removals, pass, prep, disposing, plugged>>

ApplyBehindStream(t, w) == Flush([t EXCEPT !.dim = Retries], w)

(* A source that streams on its own is paused first, or the value would wait *)
(* in the queue behind its stream.                                           *)
ApplyBrightness(t, w) ==
  IF Autonomous(t.media)
  THEN Flush([Paused(t) EXCEPT !.pending = TRUE, !.selection = Unused, !.dim = Retries],
             Cancelled(w))
  ELSE Flush([t EXCEPT !.dim = Retries], w)

SetBrightness ==
  /\ InMap /\ LockFree /\ target.removal = None
  /\ Spend("dims")
  /\ ApplyBrightness(target, wire)
  /\ UNCHANGED <<main, removals, pass, prep, disposing, plugged, pace>>

(* refresh_targets takes the target out of the map and puts it back, with    *)
(* its media swapped if other media has become ready.  device_poll delivers  *)
(* a waiting brightness afterwards.  It does so on every poll; one that      *)
(* changes nothing is bounded.                                               *)
Outdated(t) == t.asset # wanted \/ t.dim > 0 \/ ~plugged

TakeTarget ==
  /\ InMap /\ LockFree
  /\ held' = TRUE
  /\ IF Outdated(target) THEN left' = left ELSE Spend("polls")
  /\ UNCHANGED <<target, kept, requested, wanted, removals, pass, prep, disposing,
                 wire, plugged, pace>>

PutBack ==
  /\ held /\ LockFree /\ plugged
  /\ held' = FALSE
  /\ Flush(IF target.asset = wanted THEN target ELSE Swapped(target, wanted), wire)
  /\ UNCHANGED <<kept, requested, wanted, removals, pass, prep, disposing, plugged,
                 left, pace>>

(* A replacement continues the budget only if RemoveFailed left one: the     *)
(* budget of a target that is dropped here is lost.                          *)
Detach ==
  /\ held /\ LockFree /\ ~plugged
  /\ held' = FALSE
  /\ target' = None /\ wire' = NoWire
  /\ pace' = Fresh(pace.age)
  /\ UNCHANGED <<kept, requested, wanted, removals, pass, prep, disposing, plugged, left>>

(* The new target's brightness is the first message of its queue.            *)
Attach ==
  /\ target = None /\ LockFree /\ plugged
  /\ target' =
       [asset |-> wanted, pending |-> TRUE, failed |-> FALSE, paused |-> FALSE,
        stage |-> "starting", media |-> NoMedia, retired |-> None,
        selection |-> Unused, removal |-> None, dim |-> 0,
        transfer |-> IF kept = None THEN NewTransfer ELSE kept]
  /\ kept' = None
  /\ wire' = [NoWire EXCEPT !.queue = <<Dim>>]
  /\ UNCHANGED <<held, requested, wanted, removals, pass, prep, disposing, plugged, left,
                 pace>>

(* refresh_targets while the LCD is away.                                    *)
ForgetBudget ==
  /\ target = None /\ ~plugged /\ kept # None /\ kept.since > Healthy
  /\ kept' = None
  /\ UNCHANGED <<target, held, requested, wanted, removals, pass, prep, disposing,
                 wire, plugged, left, pace>>

(* RemoveFailedLcd; a stale one is for a target that is gone.                *)
RemoveFailed(n) ==
  /\ n \in removals /\ ~held /\ LockFree
  /\ removals' = removals \ {n}
  /\ IF target # None /\ target.removal = n
     THEN /\ target' = None /\ wire' = NoWire
          /\ kept' = IF target.transfer.attempts > 0
                     THEN ForReplacement(target.transfer) ELSE kept
     ELSE UNCHANGED <<target, wire, kept>>
  /\ UNCHANGED <<held, requested, wanted, pass, prep, disposing, plugged, left, pace>>

-----------------------------------------------------------------------------
(***************************************************************************)
(* The streaming worker.                                                   *)
(***************************************************************************)

(* take_finished_retirement and try_retire, or return_retirement.            *)
CanRetire(t) == t.retired # None /\ t.retired.run = "ended" /\ disposing < 2

Install(t) ==
  \/ /\ prep.result = "live" /\ ~Full(wire)
     /\ target' = Installed(Disowned(t), LiveSource)
     /\ wire' = FramesReset(Submitted(wire, Live))
  \/ /\ prep.result = "jpeg"
     /\ target' = Installed(Disowned(t), JpegSource)
     /\ wire' = FramesReset(Cancelled(wire))
  \/ /\ prep.result = "error" \/ (prep.result = "live" /\ Full(wire))
     /\ target' = [t EXCEPT !.pending = FALSE, !.failed = TRUE]
     /\ wire' = wire

(* The first part of a pass: a retired source goes to disposal, then an      *)
(* offered source is installed, or handed back to its thread.                *)
Collect ==
  /\ pass = "collect"
  /\ pass' = "serve"
  /\ LET retires == InMap /\ CanRetire(target)
         t == IF retires THEN [target EXCEPT !.retired = None] ELSE target
     IN /\ disposing' = disposing + (IF retires THEN 1 ELSE 0)
        /\ prep' = IF prep.at = "offered" THEN [prep EXCEPT !.at = "ending"] ELSE prep
        /\ IF prep.at = "offered" /\ InMap /\ Accepts(t, prep.selection)
           THEN Install(t)
           ELSE target' = t /\ wire' = wire
  /\ UNCHANGED <<main, removals, plugged, left, pace>>

DueUnlessFailed(t) == t.removal = None /\ t.stage # "failed" /\ t.transfer.due = 0

DueNow(t) == t.removal = None /\ t.transfer.due = 0

(* What send_frame does before it looks at the source.                       *)
Installs(t) == t.pending /\ t.retired = None /\ ~NeedsPreparation(t)
Sendable(t) ==
  /\ t.removal = None /\ t.stage # "failed"
  /\ IF Installs(t) THEN t.dim = 0 ELSE ~t.paused

Current(t) == IF Installs(t) THEN Installed(t, FileSource) ELSE t
CurrentWire(t) == IF Installs(t) THEN FramesReset(wire) ELSE wire

Request ==
  prep' = IF InMap /\ prep.at = "idle" /\ Requests(target)
          THEN [at |-> "working", selection |-> target.selection, result |-> "none"]
          ELSE prep

ServeEnds ==
  /\ pass = "serve" /\ pass' = "collect"
  /\ UNCHANGED <<main, disposing, plugged, left>>

(* The wait for a recreation is over: the target is removed.                 *)
ServeDue ==
  /\ InMap /\ DueNow(target)
  /\ target' = Removing([target EXCEPT !.transfer.due = None])
  /\ wire' = Cancelled(wire)
  /\ removals' = removals \cup {Unused}
  /\ pace' = [pace EXCEPT !.spent = @ + 1]
  /\ prep' = prep
  /\ ServeEnds

ServeNothing ==
  /\ InMap => ~DueNow(target) /\ ~Sendable(target)
  /\ Request
  /\ UNCHANGED <<target, wire, removals, pace>>
  /\ ServeEnds

Serves == InMap /\ ~DueNow(target) /\ Sendable(target)

(* A failed transfer of frames, or of the stream of a source that streams on *)
(* its own.  An interrupted one is left to the recreation.                   *)
FailWith(interrupted) ==
  /\ wire' = Cancelled(CurrentWire(target))
  /\ IF interrupted
     THEN /\ target' = Interrupted(Current(target))
          /\ pace' = IF target.transfer.due # None THEN pace
                     ELSE IF pace.age > Healthy THEN Fresh(0) ELSE [pace EXCEPT !.age = 0]
     ELSE /\ target' = Stopped(Current(target))
          /\ pace' = pace

ServeFrameFailure ==
  /\ Serves /\ CurrentWire(target).frames # None
  /\ FailWith(CurrentWire(target).frames = "interrupted")
  /\ Request /\ UNCHANGED removals
  /\ ServeEnds

StreamFailure(t) ==
  /\ CurrentWire(t).frames = None
  /\ Autonomous(Current(t).media) /\ wire.failure # None

ServeStreamFailure ==
  /\ Serves /\ StreamFailure(target)
  /\ FailWith(wire.failure = "interrupted")
  /\ Request /\ UNCHANGED removals
  /\ ServeEnds

Fine(t) == CurrentWire(t).frames = None /\ ~StreamFailure(t)

ServeExited ==
  /\ Serves /\ Fine(target) /\ HasExited(Current(target).media)
  /\ FailWith(FALSE)
  /\ Request /\ UNCHANGED removals
  /\ ServeEnds

(* A file's stream is submitted once; if the queue is full, the target goes. *)
ServeStream ==
  /\ Serves /\ Fine(target)
  /\ LET t == Current(target)
         w == CurrentWire(target)
         d == Disowned(t)
     IN /\ Autonomous(t.media) /\ ~HasExited(t.media)
        /\ IF ~t.media.fresh
           THEN /\ target' = [t EXCEPT !.stage = "playing"]
                /\ wire' = w /\ removals' = removals
           ELSE IF Full(w)
           THEN /\ target' = Removing(t)
                /\ wire' = Cancelled(w) /\ removals' = removals \cup {Unused}
           ELSE /\ target' = [d EXCEPT !.media.mine = TRUE, !.media.fresh = FALSE,
                                      !.stage = "playing"]
                /\ wire' = Submitted(w, File) /\ removals' = removals
  /\ Request /\ UNCHANGED pace
  /\ ServeEnds

(* A rendered frame, if there is a new one; a full queue defers it.          *)
ServeFrame ==
  /\ Serves /\ Fine(target)
  /\ target.media.kind \in {"none", "jpeg"} /\ ~Installs(target)
  /\ ~HasExited(target.media)
  /\ \/ ~target.media.fresh /\ UNCHANGED <<target, wire>>
     \/ /\ target.media.kind = "jpeg"
        /\ IF Full(wire)
           THEN target' = Disowned(target) /\ wire' = Cancelled(wire)
           ELSE /\ target' = [Disowned(target) EXCEPT !.media.fresh = FALSE,
                                                     !.stage = "playing"]
                /\ wire' = [Cancelled(wire) EXCEPT !.queue = Append(@, Frame)]
  /\ Request /\ UNCHANGED <<removals, pace>>
  /\ ServeEnds

Serve ==
  \/ ServeDue \/ ServeNothing \/ ServeFrameFailure \/ ServeStreamFailure
  \/ ServeExited \/ ServeStream \/ ServeFrame

-----------------------------------------------------------------------------
(***************************************************************************)
(* The preparation, sender, renderer and disposal threads.                 *)
(***************************************************************************)

Selected == target # None /\ target.selection = prep.selection

(* A source for a selection that is gone is not offered.                     *)
PrepOffers(result) ==
  /\ prep.at = "working"
  /\ prep' = IF Selected THEN [prep EXCEPT !.at = "offered", !.result = result]
             ELSE [prep EXCEPT !.at = "ending"]
  /\ UNCHANGED <<target, main, removals, pass, disposing, wire, plugged, left, pace>>

(* The offer was accepted or came back, the thread ends, and poll sees it.   *)
PrepEnds ==
  /\ prep.at = "ending"
  /\ prep' = Idle
  /\ UNCHANGED <<target, main, removals, pass, disposing, wire, plugged, left, pace>>

(* The sender works through its queue.  A cancelled stream and a frame of an *)
(* earlier delivery, or after a failure, are skipped.                        *)
Delivers(m) == m.kind = "frame" /\ m.live /\ wire.frames = None

TakeMessage ==
  /\ wire.active = Nothing /\ wire.queue # <<>>
  /\ LET m == Head(wire.queue)
         w == [wire EXCEPT !.queue = Tail(@)]
     IN \/ /\ m.kind = "stream"
           /\ wire' = IF m.live THEN [w EXCEPT !.active = m] ELSE w
           /\ left' = left
        \/ /\ m.kind = "dim" \/ (m.kind = "frame" /\ ~Delivers(m))
           /\ wire' = w /\ left' = left
        \/ /\ Delivers(m) /\ wire.latched
           /\ wire' = [w EXCEPT !.frames = "interrupted"] /\ left' = left
        \/ /\ Delivers(m) /\ ~wire.latched /\ plugged
           /\ wire' = w /\ left' = left
        \/ /\ Delivers(m) /\ ~wire.latched
           /\ wire' = [w EXCEPT !.frames = "failed"]
           /\ IF plugged THEN Spend("faults") ELSE left' = left
  /\ UNCHANGED <<target, main, removals, pass, prep, disposing, plugged, pace>>

Streaming == wire.active.kind = "stream"

(* StreamControl::failed: only the current stream may report.                *)
Reported(failure) ==
  [wire EXCEPT !.active = Nothing, !.failure = IF wire.active.live THEN failure ELSE @]

(* A transfer that breaks inside a packet leaves the device waiting for the  *)
(* rest, and no later packet gets through to it.                             *)
StreamInterrupted ==
  /\ Streaming
  /\ wire' = [Reported("interrupted") EXCEPT !.latched = TRUE]
  /\ IF wire.latched THEN left' = left ELSE plugged /\ Spend("faults")
  /\ UNCHANGED <<target, main, removals, pass, prep, disposing, plugged, pace>>

StreamFails ==
  /\ Streaming /\ ~wire.latched
  /\ wire' = Reported("failed")
  /\ IF plugged THEN Spend("faults") ELSE left' = left
  /\ UNCHANGED <<target, main, removals, pass, prep, disposing, plugged, pace>>

(* The stream is cancelled, or its encoder is at the end.                    *)
StreamEnds ==
  /\ Streaming
  /\ wire.active.live =>
       ~wire.latched /\ plugged /\ wire.active.asset = Live /\ target.media.run = "ended"
  /\ wire' = [wire EXCEPT !.active = Nothing]
  /\ UNCHANGED <<target, main, removals, pass, prep, disposing, plugged, left, pace>>

(* A file that is not played in a loop is at its end.                        *)
FileEnds ==
  /\ Streaming /\ wire.active.live /\ wire.active.asset = File
  /\ ~wire.latched /\ plugged
  /\ wire' = [wire EXCEPT !.active = Nothing]
  /\ UNCHANGED <<target, main, removals, pass, prep, disposing, plugged, left, pace>>

Sends == TakeMessage \/ StreamInterrupted \/ StreamFails \/ StreamEnds

(* The renderer of the current or the retired source.                        *)
Places == {"media", "retired"}
Rendered(p) == IF target = None THEN NoMedia
               ELSE IF target[p] = None THEN NoMedia ELSE target[p]

RendererEnds(p) ==
  /\ Rendered(p).run = "stopping"
  /\ target' = [target EXCEPT ![p].run = "ended"]
  /\ UNCHANGED <<main, removals, pass, prep, disposing, wire, plugged, left, pace>>

RendererFails(p) ==
  /\ Rendered(p).run = "running"
  /\ Spend("faults")
  /\ target' = [target EXCEPT ![p].run = "ended"]
  /\ UNCHANGED <<main, removals, pass, prep, disposing, wire, plugged, pace>>

(* try_restart_encoder up to its last look at the stop flag.                 *)
EncoderFails(p) ==
  /\ Rendered(p).run = "running" /\ Rendered(p).kind = "live"
  /\ wire.failure # "interrupted"
  /\ Spend("faults")
  /\ target' = [target EXCEPT ![p].run = "restarting"]
  /\ UNCHANGED <<main, removals, pass, prep, disposing, wire, plugged, pace>>

RestartUnchecked(p) ==
  /\ Rendered(p).run \in {"restarting", "late"}
  /\ IF ~Full(wire)
     THEN /\ target' = [Disowned(target) EXCEPT
                         ![p].mine = TRUE,
                         ![p].run = IF Rendered(p).run = "late" THEN "stopping" ELSE "running"]
          /\ wire' = Submitted(wire, Live)
     ELSE /\ target' = [target EXCEPT ![p].run = "ended"]
          /\ wire' = wire
  /\ UNCHANGED <<main, removals, pass, prep, disposing, plugged, left, pace>>

(* start_stream: a restarted stream replaces the renderer's own only.        *)
RestartStream(p) ==
  /\ Rendered(p).run \in {"restarting", "late"}
  /\ IF Rendered(p).mine /\ ~Full(wire)
     THEN /\ target' = [Disowned(target) EXCEPT
                         ![p].mine = TRUE,
                         ![p].run = IF Rendered(p).run = "late" THEN "stopping" ELSE "running"]
          /\ wire' = Submitted(wire, Live)
     ELSE /\ target' = [target EXCEPT ![p].run = "ended"]
          /\ wire' = wire
  /\ UNCHANGED <<main, removals, pass, prep, disposing, plugged, left, pace>>

Dispose ==
  /\ disposing > 0
  /\ disposing' = disposing - 1
  /\ UNCHANGED <<target, main, removals, pass, prep, wire, plugged, left, pace>>

-----------------------------------------------------------------------------
(* The LCD's plug, and time.                                                 *)

Unplug ==
  /\ plugged /\ Spend("unplugs")
  /\ plugged' = FALSE
  /\ UNCHANGED <<target, main, removals, pass, prep, disposing, wire, pace>>

Replug ==
  /\ ~plugged /\ target = None
  /\ plugged' = TRUE
  /\ UNCHANGED <<target, main, removals, pass, prep, disposing, wire, left, pace>>

Ages(r) == Aged(r) # r

Tick ==
  /\ \/ target # None /\ Ages(target.transfer)
     \/ kept # None /\ Ages(kept)
     \/ pace.age < Long
  /\ target' = IF target = None THEN None ELSE [target EXCEPT !.transfer = Aged(@)]
  /\ kept' = IF kept = None THEN None ELSE Aged(kept)
  /\ pace' = [pace EXCEPT !.age = IF @ < Long THEN @ + 1 ELSE @]
  /\ UNCHANGED <<held, requested, wanted, removals, pass, prep, disposing, wire, plugged,
                 left>>

Refresh == TakeTarget \/ PutBack \/ Detach \/ Attach \/ ForgetBudget

MainLoop == Refresh \/ \E n \in Tokens : RemoveFailed(n)
Renders == \E p \in Places : RendererEnds(p) \/ RestartStream(p)
Prepares == \E r \in {"live", "jpeg", "error"} : PrepOffers(r)

Next ==
  \/ \E a \in Assets : Save(a)
  \/ AssetReady \/ RetryMedia \/ SetBrightness
  \/ MainLoop
  \/ Collect \/ Serve
  \/ Prepares \/ PrepEnds
  \/ Sends \/ FileEnds
  \/ Renders \/ \E p \in Places : RendererFails(p) \/ EncoderFails(p)
  \/ Dispose
  \/ Unplug \/ Replug \/ Tick

Spec == Init /\ [][Next]_vars

(* Threads run, device operations time out and the lock of the targets is    *)
(* fair: the main loop gets it although the streaming worker takes it again  *)
(* and again (strong fairness).  Saves, retries and faults are never forced, *)
(* a file may play in a loop, and an LCD need not come back.                 *)
FairSpec ==
  /\ Spec
  /\ SF_vars(MainLoop)
  /\ WF_vars(Collect \/ Serve)
  /\ WF_vars(Prepares \/ PrepEnds)
  /\ WF_vars(Sends /\ UNCHANGED left) /\ WF_vars(Renders) /\ WF_vars(Dispose) /\ WF_vars(Tick)

-----------------------------------------------------------------------------

(* The type of every variable; the sender's queue keeps its bound, whoever   *)
(* submits to it.                                                            *)
TypeOK ==
  /\ target \in Target \cup {None}
  /\ held \in BOOLEAN /\ (held => target # None)
  /\ kept \in Transfer \cup {None}
  /\ requested \in Assets /\ wanted \in Assets
  /\ removals \subseteq Tokens
  /\ pass \in {"collect", "serve"}
  /\ prep \in [at : {"idle", "working", "offered", "ending"},
               selection : Tokens \cup {None}, result : {"none", "live", "jpeg", "error"}]
  /\ disposing \in 0..2
  /\ wire.queue \in Seq(Message) /\ Len(wire.queue) <= Capacity
  /\ wire.active \in Message
  /\ wire.failure \in Failures \cup {None}
  /\ wire.frames \in Failures \cup {None} /\ wire.latched \in BOOLEAN
  /\ plugged \in BOOLEAN
  /\ pace \in [age : 0..Long, spent : Nat, allowed : Nat]

(* A source prepared for an earlier selection, or for an earlier target of   *)
(* the same LCD, is never shown: a target that waits for no source and has   *)
(* not failed to get one shows the media it was last given.                  *)
PlaysTheSelection ==
  target # None /\ ~target.pending /\ ~target.failed /\ target.removal = None
    => target.media.asset = target.asset

(* The stream the device takes is the current source's: neither a retired    *)
(* source nor a removed target streams, whatever its renderer was about to   *)
(* do, and there is one such stream.                                         *)
Messages == {wire.queue[i] : i \in DOMAIN wire.queue} \cup {wire.active}
StreamIsTheSources ==
  /\ \A m \in Messages : m.kind = "stream" /\ m.live
       => target # None /\ target.media.mine /\ target.media.asset = m.asset
  /\ target # None /\ target.retired # None => ~target.retired.mine
  /\ Cardinality({i \in DOMAIN wire.queue :
                    wire.queue[i].kind = "stream" /\ wire.queue[i].live}
                  \cup (IF Streaming /\ wire.active.live THEN {0} ELSE {})) <= 1

(* An LCD whose transfers keep being interrupted, each time before a healthy *)
(* period has passed since the interruption before (one while a recreation   *)
(* is due already does not count), is recreated a limited number of times,   *)
(* over all the targets it gets; a request of the user is worth one          *)
(* recreation and a new budget.                                              *)
RecreationsBounded == pace.spent <= pace.allowed

(* What the user asked for is not kept waiting: a target gets a source for   *)
(* its media or shows that it failed, although preparations for an earlier   *)
(* selection, an offer made while the main loop holds the target, a retired  *)
(* source or a brightness get in the way; and an accepted brightness reaches *)
(* the device instead of waiting behind a stream that goes on.               *)
Waiting == target # None /\ target.pending
DimQueued == \E i \in DOMAIN wire.queue : wire.queue[i].kind = "dim"
RequestsServed ==
  /\ Waiting ~> (~Waiting \/ target.stage = "failed")
  /\ DimQueued ~> ~DimQueued

(* An interrupted LCD is recreated, or shows a failure that is left to the   *)
(* user, even if the report is cancelled before the worker has seen it.      *)
LeftToUser ==
  /\ target # None /\ (target.failed \/ target.stage = "failed")
  /\ target.removal = None /\ target.transfer.due = None
InterruptedIsHandled == wire.latched ~> (~wire.latched \/ LeftToUser)

=============================================================================
