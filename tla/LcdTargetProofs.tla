--------------------------- MODULE LcdTargetProofs ---------------------------
(***************************************************************************)
(* An LCD shows the media that was selected, takes one stream, the current *)
(* source's, and is recreated a limited number of times: for any delays,   *)
(* retries and loads, and as many tokens as allocations may need.          *)
(***************************************************************************)
EXTENDS LcdTarget, FiniteSetTheorems, SequenceTheorems, TLAPS

(* There is always another allocation. *)
EndlessTokens == \A S \in SUBSET Tokens : IsFiniteSet(S) => S # Tokens

-----------------------------------------------------------------------------
(* The sender, as a record. *)
Wires ==
  [queue : Seq(Message), active : Message, failure : Failures \cup {None},
   frames : Failures \cup {None}, latched : BOOLEAN]

(* Its queue keeps its bound. *)
WireOK(w) == w \in Wires /\ Len(w.queue) <= Capacity

(* A message that is, or will be, streamed. *)
Lives(m) == m.kind = "stream" /\ m.live

(* Nothing is streamed; only this asset is; and by one stream. *)
Silent(w) == ~Lives(w.active) /\ \A i \in DOMAIN w.queue : ~Lives(w.queue[i])
Carries(w, a) ==
  /\ Lives(w.active) => w.active.asset = a
  /\ \A i \in DOMAIN w.queue : Lives(w.queue[i]) => w.queue[i].asset = a
OneStream(w) ==
  /\ Lives(w.active) => \A i \in DOMAIN w.queue : ~Lives(w.queue[i])
  /\ \A i, j \in DOMAIN w.queue : Lives(w.queue[i]) /\ Lives(w.queue[j]) => i = j

(* What a source of each kind is. *)
SourceOK(s) ==
  /\ s \in Source
  /\ s.kind \in {"live", "jpeg"} => s.asset = Live
  /\ s.kind = "file" => s.asset = File
  /\ s.kind = "live" => ~s.fresh
  /\ s.run \in {"restarting", "late"} => s.kind = "live"

(* A target whose sources are in order; none that is retired owns a stream. *)
TargetFit(t) ==
  /\ t \in Target /\ SourceOK(t.media)
  /\ t.retired # None => SourceOK(t.retired)
  /\ ~t.pending /\ ~t.failed /\ t.removal = None => t.media.asset = t.asset

TargetOK(t) == TargetFit(t) /\ (t.retired # None => ~t.retired.mine)

(* The stream, if there is one, is that of the current source. *)
Streams(t, w) ==
  \/ Silent(w)
  \/ t # None /\ t.media.mine /\ Carries(w, t.media.asset)

-----------------------------------------------------------------------------
(* A preparation that is still wanted is for a source to draw. *)
PrepInv ==
  prep.at \in {"working", "offered"} /\ target # None
    /\ prep.selection = target.selection => target.asset = Live

(* The sender streams one source, the current one. *)
StreamInv == WireOK(wire) /\ OneStream(wire) /\ Streams(target, wire)

(* The budget of the LCD, whoever keeps it. *)
Budget == IF target # None THEN target.transfer
          ELSE IF kept # None THEN kept ELSE NewTransfer

(* A recreation that is due. *)
Due(r) == IF r.due = None THEN 0 ELSE 1

(* The recreations that were made, and the one that is due, were paid for by *)
(* attempts or by the user, since the budget was renewed.                    *)
Paid(r, p) ==
  /\ p.allowed \in {Attempts, 1 + Attempts}
  /\ \/ r.since = p.age
     \/ r.since = Long /\ p.spent + Due(r) + Attempts <= p.allowed
  /\ \/ p.spent + Due(r) + Attempts <= r.attempts + p.allowed
     \/ p.age = Long /\ p.spent + Due(r) <= p.allowed

(* The budget has one keeper, and matches the history. *)
BudgetInv ==
  /\ kept # None => target = None
  /\ Paid(Budget, pace)

(* The preparation thread. *)
Preps == [at : {"idle", "working", "offered", "ending"},
          selection : Tokens \cup {None}, result : {"none", "live", "jpeg", "error"}]

(* The history. *)
Pace == [age : 0..Long, spent : Nat, allowed : Nat]

(* The variables besides the target and the sender. *)
RestOK ==
  /\ held \in BOOLEAN /\ (held => target # None)
  /\ kept \in Transfer \cup {None}
  /\ requested \in Assets /\ wanted \in Assets
  /\ removals \subseteq Tokens /\ IsFiniteSet(removals)
  /\ pass \in {"collect", "serve"}
  /\ prep \in Preps
  /\ disposing \in 0..2
  /\ plugged \in BOOLEAN
  /\ pace \in Pace

(* The inductive invariant. *)
IInv ==
  /\ RestOK
  /\ target # None => TargetOK(target)
  /\ PrepInv /\ StreamInv /\ BudgetInv

-----------------------------------------------------------------------------
(* The sender's operations. *)

LEMMA Constants ==
  /\ Attempts \in Nat /\ Healthy \in Nat /\ Long \in Nat /\ Long = Healthy + 1
  /\ Retries \in Nat /\ None \notin Assets /\ None \notin Tokens /\ None \notin Nat
  /\ Live # File /\ \A i \in 1..Attempts : Delays[i] \in Nat
BY LcdAssumption, LenProperties, ElementOfSeq DEF Attempts, Long

(* The messages there are: of these, only a stream streams. *)
LEMMA MessageType ==
  /\ Nothing \in Message /\ Frame \in Message /\ Dim \in Message
  /\ ~Lives(Nothing) /\ ~Lives(Frame) /\ ~Lives(Dim)
  /\ \A a \in Assets : Stream(a) \in Message /\ Lives(Stream(a)) /\ Stream(a).asset = a
BY DEF Nothing, Frame, Dim, Stream, Message, Lives

(* What streams still does so after an operation that adds no stream.        *)
Follows(w, v) ==
  /\ WireOK(v)
  /\ Silent(w) => Silent(v)
  /\ OneStream(w) => OneStream(v)
  /\ \A a : Carries(w, a) => Carries(v, a)

(* Ending messages of a kind makes nothing live. *)
LEMMA EndedMessage ==
  ASSUME NEW m \in Message, NEW kind
  PROVE  /\ Ended(kind, m) \in Message
         /\ Lives(Ended(kind, m)) => Lives(m) /\ kind # "stream"
         /\ Ended(kind, m).asset = m.asset
BY DEF Ended, Message, Lives

(* Ending all messages of a kind keeps the queue and what else streams. *)
LEMMA EndAllWire ==
  ASSUME NEW w, WireOK(w), NEW kind
  PROVE  /\ Follows(w, EndAll(kind, w))
         /\ kind = "stream" => Silent(EndAll(kind, w))
         /\ Len(EndAll(kind, w).queue) = Len(w.queue)
         /\ EndAll(kind, w).failure = w.failure /\ EndAll(kind, w).frames = w.frames
<1> DEFINE q == [i \in DOMAIN w.queue |-> Ended(kind, w.queue[i])]
<1>1. /\ w \in Wires /\ w.queue \in Seq(Message) /\ w.active \in Message
      /\ DOMAIN w.queue = 1..Len(w.queue) /\ Len(w.queue) \in Nat
      /\ \A i \in 1..Len(w.queue) : w.queue[i] \in Message
  BY LenProperties, ElementOfSeq DEF WireOK, Wires
<1>2. q \in [1..Len(w.queue) -> Message]
  BY <1>1, EndedMessage
<1>3. q \in Seq(Message) /\ Len(q) = Len(w.queue) /\ DOMAIN q = DOMAIN w.queue
  <2>1. q \in Seq(Message)
    BY <1>1, <1>2, SeqDef
  <2>2. Len(q) \in Nat /\ DOMAIN q = 1..Len(q)
    BY <2>1, LenProperties
  <2>3. DOMAIN q = 1..Len(w.queue)
    BY <1>1
  <2> HIDE DEF q
  <2> QED
    BY <1>1, <2>1, <2>2, <2>3
<1>4. EndAll(kind, w) = [w EXCEPT !.queue = q, !.active = Ended(kind, w.active)]
  BY DEF EndAll
<1>5. Ended(kind, w.active) \in Message
  BY <1>1, EndedMessage
<1>6. \A i \in DOMAIN q : q[i] = Ended(kind, w.queue[i])
  BY <1>3
<1> HIDE DEF q
<1>7. /\ EndAll(kind, w) \in Wires /\ EndAll(kind, w).queue = q
      /\ EndAll(kind, w).active = Ended(kind, w.active)
      /\ EndAll(kind, w).failure = w.failure /\ EndAll(kind, w).frames = w.frames
  BY <1>1, <1>3, <1>4, <1>5 DEF Wires
<1> HIDE DEF EndAll
<1>8. /\ WireOK(EndAll(kind, w))
      /\ Silent(w) \/ kind = "stream" => Silent(EndAll(kind, w))
  BY <1>1, <1>3, <1>6, <1>7, EndedMessage DEF WireOK, Silent
<1>9. OneStream(w) => OneStream(EndAll(kind, w))
  BY <1>1, <1>3, <1>6, <1>7, EndedMessage DEF OneStream
<1>10. ASSUME NEW a, Carries(w, a)
       PROVE  Carries(EndAll(kind, w), a)
  BY <1>1, <1>3, <1>6, <1>7, <1>10, EndedMessage DEF Carries
<1> QED
  BY <1>3, <1>7, <1>8, <1>9, <1>10 DEF Follows

(* Where nothing streams, whatever is said of streams holds. *)
LEMMA SilentWire ==
  ASSUME NEW w, Silent(w)
  PROVE  OneStream(w) /\ \A a : Carries(w, a)
BY DEF Silent, OneStream, Carries

(* Cancelling leaves nothing that streams. *)
LEMMA CancelledWire ==
  ASSUME NEW w, WireOK(w)
  PROVE  /\ WireOK(Cancelled(w)) /\ Silent(Cancelled(w)) /\ OneStream(Cancelled(w))
         /\ Len(Cancelled(w).queue) = Len(w.queue)
<1> DEFINE e == EndAll("stream", w)
<1>1. WireOK(e) /\ Silent(e) /\ Len(e.queue) = Len(w.queue)
  BY EndAllWire DEF Follows
<1>2. Cancelled(w) = [e EXCEPT !.failure = None]
  BY DEF Cancelled
<1> HIDE DEF e
<1>3. /\ Cancelled(w) \in Wires /\ Cancelled(w).queue = e.queue
      /\ Cancelled(w).active = e.active
  BY <1>1, <1>2 DEF WireOK, Wires
<1>4. WireOK(Cancelled(w)) /\ Silent(Cancelled(w))
  BY <1>1, <1>3 DEF WireOK, Silent
<1> QED
  BY <1>1, <1>3, <1>4, SilentWire

(* A new frame delivery leaves the streams alone. *)
LEMMA FramesResetWire ==
  ASSUME NEW w, WireOK(w)
  PROVE  /\ Follows(w, FramesReset(w)) /\ Len(FramesReset(w).queue) = Len(w.queue)
         /\ FramesReset(w).failure = w.failure
<1> DEFINE e == EndAll("frame", w)
<1>1. Follows(w, e) /\ Len(e.queue) = Len(w.queue) /\ e.failure = w.failure
  BY EndAllWire
<1>2. FramesReset(w) = [e EXCEPT !.frames = None]
  BY DEF FramesReset
<1> HIDE DEF e
<1>3. e \in Wires
  BY <1>1 DEF Follows, WireOK
<1>4. /\ FramesReset(w) \in Wires /\ FramesReset(w).queue = e.queue
      /\ FramesReset(w).active = e.active /\ FramesReset(w).failure = e.failure
  BY <1>2, <1>3 DEF Wires
<1> QED
  BY <1>1, <1>4 DEF Follows, WireOK, Silent, OneStream, Carries

(* A queue that is not full has a place left. *)
LEMMA RoomWire ==
  ASSUME NEW w, WireOK(w), ~Full(w)
  PROVE  w \in Wires /\ w.queue \in Seq(Message) /\ Len(w.queue) \in 0..1
<1>1. w \in Wires /\ w.queue \in Seq(Message) /\ Len(w.queue) <= 2 /\ Len(w.queue) # 2
  BY DEF WireOK, Wires, Full, Capacity
<1>2. Len(w.queue) \in Nat
  BY <1>1, LenProperties
<1>3. \A n \in Nat : n <= 2 /\ n # 2 => n \in 0..1
  OBVIOUS
<1>4. Len(w.queue) \in 0..1
  BY <1>1, <1>2, <1>3
<1> QED
  BY <1>1, <1>4

(* A message that is no stream is queued. *)
LEMMA AppendedWire ==
  ASSUME NEW w, WireOK(w), ~Full(w), NEW m \in Message, ~Lives(m)
  PROVE  Follows(w, [w EXCEPT !.queue = Append(@, m)])
<1> DEFINE v == [w EXCEPT !.queue = Append(@, m)]
<1>1. w \in Wires /\ w.queue \in Seq(Message) /\ Len(w.queue) \in 0..1
  BY RoomWire
<1>2. /\ Append(w.queue, m) \in Seq(Message)
      /\ Len(Append(w.queue, m)) = Len(w.queue) + 1
      /\ DOMAIN w.queue = 1..Len(w.queue)
      /\ DOMAIN Append(w.queue, m) = 1..(Len(w.queue) + 1)
      /\ \A i \in 1..Len(w.queue) : Append(w.queue, m)[i] = w.queue[i]
      /\ Append(w.queue, m)[Len(w.queue) + 1] = m
  BY <1>1
<1>3. /\ v \in Wires /\ v.queue = Append(w.queue, m) /\ v.active = w.active
  BY <1>1, <1>2 DEF Wires
<1> HIDE DEF v
<1>4. WireOK(v)
  BY <1>1, <1>2, <1>3 DEF WireOK, Capacity
<1>5. \A i \in DOMAIN v.queue : Lives(v.queue[i]) =>
        i \in DOMAIN w.queue /\ v.queue[i] = w.queue[i]
  BY <1>1, <1>2, <1>3
<1> QED
  BY <1>3, <1>4, <1>5 DEF v, Follows, Silent, OneStream, Carries

(* The new stream is the only one. *)
LEMMA SubmittedWire ==
  ASSUME NEW w, WireOK(w), ~Full(w), NEW a \in Assets
  PROVE  WireOK(Submitted(w, a)) /\ OneStream(Submitted(w, a)) /\ Carries(Submitted(w, a), a)
<1> DEFINE e == EndAll("stream", w)
           v == Submitted(w, a)
<1>1. WireOK(e) /\ Silent(e) /\ Len(e.queue) = Len(w.queue)
  BY EndAllWire DEF Follows
<1>2. v = [e EXCEPT !.queue = Append(@, Stream(a)),
                    !.failure = IF @ = "interrupted" THEN @ ELSE None]
  BY DEF Submitted
<1> HIDE DEF e, v
<1>3. e \in Wires /\ e.queue \in Seq(Message) /\ Len(e.queue) \in 0..1
  BY <1>1, RoomWire DEF Full
<1>4. /\ Append(e.queue, Stream(a)) \in Seq(Message)
      /\ Len(Append(e.queue, Stream(a))) = Len(e.queue) + 1
      /\ DOMAIN e.queue = 1..Len(e.queue)
      /\ DOMAIN Append(e.queue, Stream(a)) = 1..(Len(e.queue) + 1)
      /\ \A i \in 1..Len(e.queue) : Append(e.queue, Stream(a))[i] = e.queue[i]
      /\ Append(e.queue, Stream(a))[Len(e.queue) + 1] = Stream(a)
  BY <1>3, MessageType
<1>5. /\ v \in Wires /\ v.queue = Append(e.queue, Stream(a)) /\ v.active = e.active
  BY <1>2, <1>3, <1>4 DEF Wires, Failures
<1>6. WireOK(v)
  BY <1>3, <1>4, <1>5 DEF WireOK, Capacity
<1>7. \A i \in DOMAIN v.queue : Lives(v.queue[i]) =>
        i = Len(e.queue) + 1 /\ v.queue[i].asset = a
  BY <1>1, <1>3, <1>4, <1>5, MessageType DEF Silent
<1> QED
  BY <1>1, <1>5, <1>6, <1>7 DEF v, Silent, OneStream, Carries

-----------------------------------------------------------------------------
(* The target's operations. *)

(* A source that is disowned, or told to stop, is the same source. *)
LEMMA DisownSource ==
  ASSUME NEW s \in Source, SourceOK(s)
  PROVE  /\ SourceOK(Disown(s)) /\ ~Disown(s).mine
         /\ Disown(s).asset = s.asset /\ Disown(s).kind = s.kind
         /\ Disown(s).run = s.run /\ Disown(s).fresh = s.fresh
<1>1. s # None
  BY NoneAssumption
<1>2. Disown(s) = [s EXCEPT !.mine = FALSE]
  BY <1>1 DEF Disown
<1>3. Disown(s) \in Source
  BY <1>2 DEF Source
<1> QED
  BY <1>2, <1>3 DEF SourceOK, Source

(* A source that is told to stop is the same source. *)
LEMMA StopSource ==
  ASSUME NEW s \in Source, SourceOK(s)
  PROVE  /\ SourceOK(StopRequested(s))
         /\ StopRequested(s).asset = s.asset /\ StopRequested(s).kind = s.kind
         /\ StopRequested(s).mine = s.mine /\ StopRequested(s).fresh = s.fresh
<1>1. PICK r \in Runs : /\ StopRequested(s) = [s EXCEPT !.run = r]
                        /\ r \in {"restarting", "late"} => s.run \in {"restarting", "late"}
  BY DEF StopRequested, Runs, Source
<1>2. StopRequested(s) \in Source
  BY <1>1 DEF Source
<1> QED
  BY <1>1, <1>2 DEF SourceOK, Source

(* The part of a target that operations on its sources leave alone. *)
SameTarget(s, t) ==
  /\ s \in Target
  /\ s.asset = t.asset /\ s.pending = t.pending /\ s.failed = t.failed
  /\ s.selection = t.selection /\ s.removal = t.removal /\ s.transfer = t.transfer
  /\ s.dim = t.dim

(* Without its streams and deliveries the target is the same, and none of    *)
(* its sources owns any.                                                     *)
LEMMA DisownedTarget ==
  ASSUME NEW t, TargetFit(t)
  PROVE  /\ TargetOK(Disowned(t)) /\ SameTarget(Disowned(t), t)
         /\ Disowned(t).media = Disown(t.media) /\ Disowned(t).retired = Disown(t.retired)
         /\ Disowned(t).stage = t.stage /\ Disowned(t).paused = t.paused
<1>1. /\ t \in Target /\ t.media \in Source /\ SourceOK(t.media)
      /\ t.retired \in Source \cup {None}
      /\ t.retired # None => t.retired \in Source /\ SourceOK(t.retired)
  BY DEF TargetFit, Target
<1>2. Disowned(t) = [t EXCEPT !.media = Disown(t.media), !.retired = Disown(t.retired)]
  BY DEF Disowned
<1>3. Disown(t.media) \in Source
  BY <1>1, DisownSource DEF SourceOK
<1>4. Disown(t.retired) \in Source \cup {None}
  BY <1>1, DisownSource DEF SourceOK, Disown
<1>5. Disowned(t) \in Target
  BY <1>1, <1>2, <1>3, <1>4 DEF Target
<1>6. /\ SameTarget(Disowned(t), t)
      /\ Disowned(t).media = Disown(t.media) /\ Disowned(t).retired = Disown(t.retired)
      /\ Disowned(t).stage = t.stage /\ Disowned(t).paused = t.paused
  BY <1>1, <1>2, <1>5 DEF SameTarget, Target
<1>7. Disown(t.retired) # None => t.retired # None
  BY DEF Disown
<1>8. TargetOK(Disowned(t))
  BY <1>1, <1>5, <1>6, <1>7, DisownSource DEF TargetOK, TargetFit, SameTarget
<1> QED
  BY <1>6, <1>8

(* pause_source: the source is told to stop and owns nothing. *)
LEMMA PausedTarget ==
  ASSUME NEW t, TargetFit(t)
  PROVE  /\ TargetOK(Paused(t)) /\ SameTarget(Paused(t), t) /\ ~Paused(t).media.mine
         /\ Paused(t).media.kind = t.media.kind
<1> DEFINE d == Disowned(t)
<1>1. /\ TargetOK(d) /\ SameTarget(d, t) /\ d.media = Disown(t.media)
  BY DisownedTarget
<1>2. Paused(t) = [d EXCEPT !.media = StopRequested(d.media), !.paused = TRUE]
  BY DEF Paused
<1> HIDE DEF d
<1>3. d \in Target /\ d.media \in Source /\ SourceOK(d.media)
  BY <1>1 DEF TargetOK, TargetFit, Target
<1>4. StopRequested(d.media) \in Source
  BY <1>3, StopSource DEF SourceOK
<1>5. Paused(t) \in Target
  BY <1>2, <1>3, <1>4 DEF Target
<1>6. /\ SameTarget(Paused(t), t) /\ Paused(t).media = StopRequested(d.media)
      /\ Paused(t).retired = d.retired
  BY <1>1, <1>2, <1>3, <1>5 DEF SameTarget, Target
<1>7. ~d.media.mine /\ t.media \in Source /\ SourceOK(t.media) /\ d.media.kind = t.media.kind
  BY <1>1, DisownSource DEF TargetFit, Target
<1> QED
  BY <1>1, <1>3, <1>5, <1>6, <1>7, StopSource DEF TargetOK, TargetFit, SameTarget

(* stop_source: the target shows a failure. *)
LEMMA StoppedTarget ==
  ASSUME NEW t, TargetFit(t)
  PROVE  TargetOK(Stopped(t)) /\ SameTarget(Stopped(t), t) /\ ~Stopped(t).media.mine
<1> DEFINE p == Paused(t)
<1>1. TargetOK(p) /\ SameTarget(p, t) /\ ~p.media.mine
  BY PausedTarget
<1>2. Stopped(t) = [p EXCEPT !.stage = "failed"]
  BY DEF Stopped
<1> HIDE DEF p
<1>3. p \in Target
  BY <1>1 DEF SameTarget
<1>4. Stopped(t) \in Target
  BY <1>2, <1>3 DEF Target
<1>5. SameTarget(Stopped(t), t) /\ Stopped(t).media = p.media /\ Stopped(t).retired = p.retired
  BY <1>1, <1>2, <1>3, <1>4 DEF SameTarget, Target
<1> QED
  BY <1>1, <1>4, <1>5 DEF TargetOK, TargetFit, SameTarget

(* schedule gives a budget: the delay it looks up is there. *)
LEMMA ScheduledTransfer ==
  ASSUME NEW r \in Transfer
  PROVE  Scheduled(r) \in Transfer
<1> DEFINE spent == IF r.since > Healthy THEN 0 ELSE r.attempts
<1>1. /\ Attempts \in Nat /\ Long \in Nat /\ r.attempts \in 0..Attempts
      /\ r.pending \in BOOLEAN /\ TRUE \in BOOLEAN /\ 0 \in 0..Long
  BY Constants DEF Transfer
<1>2. spent \in 0..Attempts
  BY <1>1
<1>3. CASE r.due # None
  <2>1. Scheduled(r) = [r EXCEPT !.pending = TRUE]
    BY <1>3 DEF Scheduled
  <2> QED
    BY <2>1 DEF Transfer
<1>4. CASE r.due = None /\ spent >= Attempts
  <2>1. Scheduled(r) = [attempts |-> spent, since |-> 0, due |-> None, pending |-> TRUE]
    BY <1>4 DEF Scheduled
  <2> QED
    BY <1>1, <1>2, <2>1 DEF Transfer
<1>5. CASE r.due = None /\ ~(spent >= Attempts)
  <2>1. Scheduled(r) = [attempts |-> spent + 1, since |-> 0, due |-> Delays[spent + 1],
                        pending |-> TRUE]
    BY <1>5 DEF Scheduled
  <2>2. spent + 1 \in 1..Attempts /\ spent + 1 \in 0..Attempts
    BY <1>1, <1>2, <1>5
  <2>3. Delays[spent + 1] \in Nat
    BY <2>2, Constants
  <2> HIDE DEF spent
  <2> QED
    BY <1>1, <2>1, <2>2, <2>3 DEF Transfer
<1> QED
  BY <1>3, <1>4, <1>5

(* interrupt_transfer: a recreation is scheduled if there is one left. *)
LEMMA InterruptedTarget ==
  ASSUME NEW t, TargetFit(t)
  PROVE  /\ TargetOK(Interrupted(t)) /\ ~Interrupted(t).media.mine
         /\ Interrupted(t).selection = t.selection /\ Interrupted(t).asset = t.asset
         /\ Interrupted(t).transfer = Scheduled(t.transfer)
<1> DEFINE p == Stopped(t)
<1>1. TargetOK(p) /\ SameTarget(p, t) /\ ~p.media.mine
  BY StoppedTarget
<1>2. Interrupted(t) = [p EXCEPT !.transfer = Scheduled(p.transfer)]
  BY DEF Interrupted
<1> HIDE DEF p
<1>3. p \in Target /\ p.transfer \in Transfer /\ p.transfer = t.transfer
  BY <1>1 DEF SameTarget, Target
<1>4. Scheduled(p.transfer) \in Transfer
  BY <1>3, ScheduledTransfer
<1>5. Interrupted(t) \in Target
  BY <1>2, <1>3, <1>4 DEF Target
<1>6. /\ Interrupted(t).media = p.media /\ Interrupted(t).retired = p.retired
      /\ Interrupted(t).asset = p.asset /\ Interrupted(t).pending = p.pending
      /\ Interrupted(t).failed = p.failed /\ Interrupted(t).removal = p.removal
      /\ Interrupted(t).selection = p.selection
      /\ Interrupted(t).transfer = Scheduled(t.transfer)
  BY <1>2, <1>3 DEF Target
<1> QED
  BY <1>1, <1>5, <1>6 DEF TargetOK, TargetFit, SameTarget

(* An unused token exists, and no preparation is for it. *)
LEMMA UnusedToken ==
  ASSUME EndlessTokens, IsFiniteSet(removals)
  PROVE  Unused \in Tokens \ InUse
<1> DEFINE O == IF target = None THEN {} ELSE {target.selection, target.removal}
           S == InUse \cap Tokens
<1>1. IsFiniteSet({prep.selection}) /\ IsFiniteSet(O)
  <2>1. IsFiniteSet({target.selection} \cup {target.removal})
    BY FS_Singleton, FS_AddElement
  <2>2. {target.selection, target.removal} = {target.selection} \cup {target.removal}
    OBVIOUS
  <2> QED
    BY <2>1, <2>2, FS_EmptySet, FS_Singleton
<1> HIDE DEF O
<1>2. IsFiniteSet(removals \cup {prep.selection} \cup O)
  BY <1>1, FS_Union
<1>3. IsFiniteSet(S)
  BY <1>2, FS_Subset DEF InUse, O
<1>4. S # Tokens
  BY <1>3 DEF EndlessTokens
<1>5. \E n \in Tokens \ InUse : TRUE
  BY <1>4
<1> QED
  BY <1>5 DEF Unused

(* request_removal: the target is given up, whatever is done with its source. *)
LEMMA RemovingTarget ==
  ASSUME NEW t, TargetFit(t), Unused \in Tokens, Retries \in Nat
  PROVE  /\ TargetOK(Removing(t)) /\ Removing(t).selection = Unused
         /\ Removing(t).transfer = t.transfer
<1> DEFINE d == Disowned(t)
<1>1. TargetOK(d) /\ SameTarget(d, t)
  BY DisownedTarget
<1>2. Removing(t) = [d EXCEPT !.removal = Unused, !.selection = Unused, !.stage = "failed",
            !.pending = FALSE, !.dim = 0, !.media = StopRequested(d.media)]
  BY DEF Removing
<1> HIDE DEF d
<1>3. d \in Target /\ d.media \in Source /\ SourceOK(d.media)
  BY <1>1 DEF TargetOK, TargetFit, Target
<1>4. StopRequested(d.media) \in Source /\ FALSE \in BOOLEAN /\ 0 \in 0..Retries
  BY <1>3, StopSource DEF SourceOK
<1>5. Removing(t) \in Target
  BY <1>2, <1>3, <1>4 DEF Target
<1>6. /\ Removing(t).media = StopRequested(d.media) /\ Removing(t).retired = d.retired
      /\ Removing(t).removal = Unused /\ Removing(t).selection = Unused
      /\ Removing(t).transfer = d.transfer
  BY <1>2, <1>3 DEF Target
<1>7. Unused # None
  BY Constants
<1> QED
  BY <1>1, <1>3, <1>5, <1>6, <1>7, StopSource DEF TargetOK, TargetFit, SameTarget

(* begin_source_install: the source before is told to stop. *)
LEMMA InstalledTarget ==
  ASSUME NEW t, TargetFit(t), NEW s \in Source, SourceOK(s), s.asset = t.asset
  PROVE  /\ TargetFit(Installed(t, s))
         /\ ~t.media.mine => TargetOK(Installed(t, s))
         /\ Installed(t, s).media = s /\ Installed(t, s).asset = t.asset
         /\ Installed(t, s).selection = t.selection /\ Installed(t, s).transfer = t.transfer
<1> DEFINE r == StopRequested(t.media)
<1>1. Installed(t, s) =
       [t EXCEPT !.retired = r, !.media = s, !.pending = FALSE,
            !.paused = FALSE, !.failed = FALSE, !.stage = "starting"]
  BY DEF Installed
<1>2. /\ t \in Target /\ t.media \in Source /\ SourceOK(t.media)
  BY DEF TargetFit, Target
<1>3. r \in Source /\ SourceOK(r) /\ r.mine = t.media.mine /\ FALSE \in BOOLEAN
  BY <1>2, StopSource DEF SourceOK
<1> HIDE DEF r
<1>4. Installed(t, s) \in Target
  BY <1>1, <1>2, <1>3 DEF Target
<1>5. /\ Installed(t, s).media = s /\ Installed(t, s).asset = t.asset
      /\ Installed(t, s).retired = r
      /\ Installed(t, s).selection = t.selection /\ Installed(t, s).transfer = t.transfer
  BY <1>1, <1>2 DEF Target
<1> QED
  BY <1>3, <1>4, <1>5 DEF TargetFit, TargetOK

(* What the sources are when they are installed. *)
LEMMA SourcesOK ==
  /\ NoMedia \in Source /\ SourceOK(NoMedia) /\ NoMedia.asset = None
  /\ FileSource \in Source /\ SourceOK(FileSource) /\ FileSource.asset = File
  /\ FileSource.kind = "file" /\ FileSource.fresh /\ ~FileSource.mine
  /\ LiveSource \in Source /\ SourceOK(LiveSource) /\ LiveSource.asset = Live
  /\ LiveSource.mine
  /\ JpegSource \in Source /\ SourceOK(JpegSource) /\ JpegSource.asset = Live
BY DEF NoMedia, FileSource, LiveSource, JpegSource, Source, SourceOK, Kinds, Runs, Assets

(* Other media is selected. *)
LEMMA SwappedTarget ==
  ASSUME NEW t, TargetOK(t), NEW a \in Assets, Unused \in Tokens
  PROVE  /\ TargetOK(Swapped(t, a)) /\ Swapped(t, a).media = t.media
         /\ Swapped(t, a).selection = Unused /\ Swapped(t, a).transfer = t.transfer
<1> DEFINE e == IF t.stage = "failed" THEN "starting" ELSE t.stage
<1>1. Swapped(t, a) = [t EXCEPT !.asset = a, !.pending = TRUE, !.failed = FALSE,
                                !.selection = Unused, !.stage = e]
  BY DEF Swapped
<1>2. /\ t \in Target /\ e \in {"starting", "playing", "failed"} /\ TRUE \in BOOLEAN
      /\ FALSE \in BOOLEAN
  BY DEF TargetOK, TargetFit, Target
<1> HIDE DEF e
<1>3. Swapped(t, a) \in Target
  BY <1>1, <1>2 DEF Target
<1>4. /\ Swapped(t, a).media = t.media /\ Swapped(t, a).retired = t.retired
      /\ Swapped(t, a).pending /\ Swapped(t, a).selection = Unused
      /\ Swapped(t, a).transfer = t.transfer
  BY <1>1, <1>2 DEF Target
<1> QED
  BY <1>3, <1>4 DEF TargetOK, TargetFit

(* retry_failed_source: the same media is prepared anew. *)
LEMMA RetriedTarget ==
  ASSUME NEW t, TargetOK(t), Unused \in Tokens
  PROVE  /\ TargetOK(Retried(t)) /\ Retried(t).media = t.media
         /\ Retried(t).selection = Unused /\ Retried(t).transfer = t.transfer
<1>1. Retried(t) = [t EXCEPT !.stage = "starting", !.pending = TRUE, !.failed = FALSE,
                             !.selection = Unused]
  BY DEF Retried
<1>2. t \in Target /\ TRUE \in BOOLEAN /\ FALSE \in BOOLEAN
  BY DEF TargetOK, TargetFit
<1>3. Retried(t) \in Target
  BY <1>1, <1>2 DEF Target
<1>4. /\ Retried(t).media = t.media /\ Retried(t).retired = t.retired
      /\ Retried(t).pending /\ Retried(t).selection = Unused
      /\ Retried(t).transfer = t.transfer
  BY <1>1, <1>2 DEF Target
<1> QED
  BY <1>3, <1>4 DEF TargetOK, TargetFit

(* A brightness waits, or waits no longer. *)
LEMMA DimTarget ==
  ASSUME NEW t, TargetOK(t), NEW n \in 0..Retries
  PROVE  /\ TargetOK([t EXCEPT !.dim = n]) /\ [t EXCEPT !.dim = n].media = t.media
         /\ [t EXCEPT !.dim = n].selection = t.selection
         /\ [t EXCEPT !.dim = n].asset = t.asset
         /\ [t EXCEPT !.dim = n].transfer = t.transfer
         /\ [t EXCEPT !.dim = n].dim = n
<1> DEFINE u == [t EXCEPT !.dim = n]
<1>1. t \in Target
  BY DEF TargetOK, TargetFit
<1>2. u \in Target
  BY <1>1 DEF Target
<1>3. /\ u.media = t.media /\ u.retired = t.retired /\ u.selection = t.selection
      /\ u.asset = t.asset /\ u.transfer = t.transfer /\ u.pending = t.pending
      /\ u.failed = t.failed /\ u.removal = t.removal /\ u.dim = n
  BY <1>1 DEF Target
<1> HIDE DEF u
<1>4. TargetOK(u)
  BY <1>2, <1>3 DEF TargetOK, TargetFit
<1> QED
  BY <1>3, <1>4 DEF u

(* flush_pending_brightness changes nothing but the brightness. *)
LEMMA FlushKeeps ==
  ASSUME NEW t, TargetOK(t), NEW w, WireOK(w), Flush(t, w)
  PROVE  /\ TargetOK(target') /\ target'.media = t.media
         /\ target'.selection = t.selection /\ target'.asset = t.asset
         /\ target'.transfer = t.transfer
         /\ Follows(w, wire')
<1>1. t.dim \in 0..Retries /\ Retries \in Nat
  BY Constants DEF TargetOK, TargetFit, Target
<1>2. CASE t.dim > 0 /\ ~Full(w)
  <2>1. target' = [t EXCEPT !.dim = 0] /\ wire' = [w EXCEPT !.queue = Append(@, Dim)]
    BY <1>2 DEF Flush
  <2>2. 0 \in 0..Retries
    BY <1>1
  <2> QED
    BY <1>2, <2>1, <2>2, DimTarget, AppendedWire, MessageType
<1>3. CASE ~(t.dim > 0 /\ ~Full(w))
  <2> DEFINE n == IF t.dim > 0 THEN t.dim - 1 ELSE 0
  <2>1. target' = [t EXCEPT !.dim = n] /\ wire' = w
    BY <1>3 DEF Flush
  <2>2. n \in 0..Retries
    BY <1>1
  <2> HIDE DEF n
  <2> QED
    BY <2>1, <2>2, DimTarget DEF Follows
<1> QED
  BY <1>2, <1>3

-----------------------------------------------------------------------------
(* The budget. *)

(* schedule: what is due is paid for by the attempt it uses up. *)
LEMMA ScheduledPaid ==
  ASSUME NEW r \in Transfer, NEW p \in Pace, Paid(r, p), NEW q,
         q = IF r.due # None THEN p
             ELSE IF p.age > Healthy THEN Fresh(0) ELSE [p EXCEPT !.age = 0]
  PROVE  q \in Pace /\ Paid(Scheduled(r), q)
<1>1. /\ Attempts \in Nat /\ Healthy \in Nat /\ Long = Healthy + 1
      /\ r.attempts \in 0..Attempts /\ r.since \in 0..Long /\ p.age \in 0..Long
      /\ p.spent \in Nat /\ p.allowed \in Nat
  BY Constants DEF Transfer, Pace
<1>2. CASE r.due # None
  <2>1. Scheduled(r) = [r EXCEPT !.pending = TRUE] /\ q = p
    BY <1>2 DEF Scheduled
  <2>2. /\ Scheduled(r).since = r.since /\ Scheduled(r).due = r.due
        /\ Scheduled(r).attempts = r.attempts
    BY <2>1 DEF Transfer
  <2> QED
    BY <2>1, <2>2 DEF Paid, Due
<1>3. CASE r.due = None
  <2> DEFINE n == IF r.since > Healthy THEN 0 ELSE r.attempts
             s == Scheduled(r)
  <2>1. /\ s.since = 0
        /\ IF n >= Attempts THEN s.attempts = n /\ s.due = None
           ELSE s.attempts = n + 1 /\ s.due = Delays[n + 1]
    BY <1>3 DEF Scheduled
  <2>2. n \in 0..Attempts
    BY <1>1
  <2>3. \/ Due(s) = 1 /\ s.attempts = n + 1
        \/ Due(s) = 0 /\ s.attempts = n /\ n = Attempts
    <3>1. CASE n >= Attempts
      BY <1>1, <2>1, <2>2, <3>1 DEF Due
    <3>2. CASE ~(n >= Attempts)
      <4>1. n + 1 \in 1..Attempts
        BY <1>1, <2>2, <3>2
      <4>2. Delays[n + 1] # None
        BY <4>1, Constants
      <4> QED
        BY <2>1, <2>2, <3>2, <4>2 DEF Due
    <3> QED
      BY <3>1, <3>2
  <2> HIDE DEF s
  <2>4. CASE p.age > Healthy
    <3>1. q = [age |-> 0, spent |-> 0, allowed |-> Attempts]
      BY <1>3, <2>4 DEF Fresh
    <3>2. Due(s) + Attempts <= s.attempts + Attempts
      BY <1>1, <2>2, <2>3
    <3> QED
      BY <1>1, <2>1, <2>2, <2>3, <3>1, <3>2 DEF Pace, Paid, s
  <2>5. CASE ~(p.age > Healthy)
    <3>1. q = [p EXCEPT !.age = 0]
      BY <1>3, <2>5
    <3>2. q \in Pace /\ q.age = 0 /\ q.spent = p.spent /\ q.allowed = p.allowed
      BY <1>1, <3>1 DEF Pace
    <3>3. p.spent + Attempts <= n + p.allowed
      BY <1>1, <1>3, <2>5 DEF Paid, Due
    <3>4. p.spent + Due(s) + Attempts <= s.attempts + p.allowed
      BY <1>1, <2>2, <2>3, <3>3
    <3> QED
      BY <2>1, <3>2, <3>4 DEF Paid, s
  <2> QED
    BY <2>4, <2>5
<1> QED
  BY <1>2, <1>3

-----------------------------------------------------------------------------
(* What the operations have in common. *)

LEMMA TargetIs ==
  ASSUME NEW t, TargetFit(t)
  PROVE  t # None /\ t \in Target
BY NoneAssumption DEF TargetFit

(* A step that leaves the source alone and adds no stream keeps the          *)
(* stream the source's.                                                      *)
LEMMA StreamKept ==
  ASSUME StreamInv, target # None, target' # None, Follows(wire, wire'),
         target'.media = target.media
  PROVE  StreamInv'
BY DEF StreamInv, Follows, Streams

(* No stream is anyone else's when there is none. *)
LEMMA StreamOver ==
  ASSUME WireOK(wire'), Silent(wire')
  PROVE  StreamInv'
BY SilentWire DEF StreamInv, Streams

(* A stream that replaces all others is the new source's. *)
LEMMA StreamNew ==
  ASSUME NEW a, WireOK(wire'), OneStream(wire'), Carries(wire', a),
         target' # None, target'.media.mine, target'.media.asset = a
  PROVE  StreamInv'
BY DEF StreamInv, Streams

(* A step that touches neither the budget nor the history keeps them         *)
(* balanced.                                                                 *)
LEMMA BudgetKept ==
  ASSUME BudgetInv, target # None, target' # None, target'.transfer = target.transfer,
         UNCHANGED <<kept, pace>>
  PROVE  BudgetInv'
BY DEF BudgetInv, Budget

(* A preparation for a selection that is the same, or gone, is no other's. *)
LEMMA PrepKept ==
  ASSUME PrepInv, prep'.selection = prep.selection,
         prep'.at \in {"working", "offered"} => prep.at \in {"working", "offered"},
         \/ target' = None
         \/ target # None /\ target'.selection = target.selection /\ target'.asset = target.asset
         \/ target'.selection \notin InUse
  PROVE  PrepInv'
BY DEF PrepInv, InUse

(* A preparation that begins is for the selection and a source to draw. *)
LEMMA RequestKept ==
  ASSUME IInv, Request,
         \/ target' = None
         \/ target # None /\ target'.selection = target.selection /\ target'.asset = target.asset
         \/ target'.selection \notin InUse
  PROVE  /\ PrepInv'
         /\ prep' \in Preps
<1>1. CASE InMap /\ prep.at = "idle" /\ Requests(target)
  <2>1. prep' = [at |-> "working", selection |-> target.selection, result |-> "none"]
    BY <1>1 DEF Request
  <2>2. target # None /\ target.selection \in Tokens /\ target.asset = Live
    BY <1>1, TargetIs DEF InMap, Requests, NeedsPreparation, IInv, TargetOK, Target
  <2> QED
    BY <2>1, <2>2 DEF PrepInv, InUse, Preps
<1>2. CASE ~(InMap /\ prep.at = "idle" /\ Requests(target))
  <2>1. prep' = prep
    BY <1>2 DEF Request
  <2> QED
    BY <2>1, PrepKept DEF IInv, RestOK
<1> QED
  BY <1>1, <1>2

(* retry_failed_source, or nothing. *)
LEMMA RetrySourceKeeps ==
  ASSUME WireOK(wire), NEW t, TargetOK(t), RetrySource(t), Unused \in Tokens \ InUse
  PROVE  /\ TargetOK(target') /\ target'.media = t.media /\ target'.transfer = t.transfer
         /\ \/ target'.selection = t.selection /\ target'.asset = t.asset
            \/ target'.selection \notin InUse
         /\ Follows(wire, wire')
<1>1. CASE Retriable(t)
  BY <1>1, RetriedTarget, FramesResetWire DEF RetrySource
<1>2. CASE ~Retriable(t)
  BY <1>2 DEF RetrySource, Follows
<1> QED
  BY <1>1, <1>2

-----------------------------------------------------------------------------
(* The steps of the main loop. *)

LEMMA SaveKeeps ==
  ASSUME IInv, EndlessTokens, NEW a \in Assets, Save(a)
  PROVE  IInv'
<1>1. CASE target = None
  <2>1. UNCHANGED <<target, wire, held, kept, wanted, removals, pass, prep, disposing,
                    plugged, pace>> /\ requested' = a
    BY <1>1 DEF Save
  <2> QED
    BY <2>1 DEF IInv, RestOK, PrepInv, StreamInv, BudgetInv, Budget
<1>2. CASE target # None
  <2>1. /\ UNCHANGED <<held, kept, wanted, removals, pass, prep, disposing, plugged, pace>>
        /\ requested' = a /\ RetrySource(target)
    BY <1>2 DEF Save
  <2>2. /\ TargetOK(target') /\ target'.media = target.media
        /\ target'.transfer = target.transfer
        /\ \/ target'.selection = target.selection /\ target'.asset = target.asset
           \/ target'.selection \notin InUse
        /\ Follows(wire, wire')
    BY <1>2, <2>1, RetrySourceKeeps, UnusedToken DEF IInv, RestOK, StreamInv
  <2>3. target' # None
    BY <2>2, TargetIs DEF TargetOK
  <2>4. RestOK'
    BY <2>1, <2>3 DEF IInv, RestOK
  <2>5. PrepInv'
    BY <1>2, <2>1, <2>2, PrepKept DEF IInv
  <2>6. StreamInv'
    BY <1>2, <2>2, <2>3, StreamKept DEF IInv
  <2>7. BudgetInv'
    BY <1>2, <2>1, <2>2, <2>3, BudgetKept DEF IInv
  <2> QED
    BY <2>2, <2>4, <2>5, <2>6, <2>7 DEF IInv
<1> QED
  BY <1>1, <1>2

(* Prepared media touches no target by itself. *)
LEMMA AssetReadyKeeps ==
  ASSUME IInv, AssetReady
  PROVE  IInv'
BY DEF AssetReady, IInv, RestOK, PrepInv, StreamInv, BudgetInv, Budget

(* The user's request is worth one recreation and a new budget. *)
LEMMA RetryMediaKeeps ==
  ASSUME IInv, EndlessTokens, RetryMedia
  PROVE  IInv'
<1> DEFINE granted == target.removal = None /\ target.transfer.pending
           r == IF target.removal = None THEN RetriedNow(target.transfer)
                ELSE target.transfer
           t == [target EXCEPT !.transfer = r]
<1>1. /\ target # None /\ TargetOK(target) /\ target \in Target
      /\ target.transfer \in Transfer
  BY TargetIs DEF RetryMedia, InMap, IInv, TargetOK, TargetFit, Target
<1>2. /\ UNCHANGED <<held, kept, requested, wanted, removals, pass, prep, disposing, plugged>>
      /\ pace' = IF granted THEN [pace EXCEPT !.spent = 0, !.allowed = 1 + Attempts] ELSE pace
  BY DEF RetryMedia, main
<1>3. RetrySource(t)
  <2>1. CASE target.removal = None
    BY <2>1 DEF RetryMedia
  <2>2. CASE target.removal # None
    <3>1. t = target
      BY <1>1, <2>2 DEF Target
    <3> QED
      BY <2>2, <3>1 DEF RetryMedia
  <2> QED
    BY <2>1, <2>2
<1>4. r \in Transfer
  <2>1. 0 \in 0..Attempts /\ 0 \in Nat
    BY Constants
  <2>2. RetriedNow(target.transfer) \in Transfer
    BY <1>1, <2>1 DEF RetriedNow, Transfer
  <2> QED
    BY <1>1, <2>2
<1>5. /\ granted => r = [target.transfer EXCEPT !.attempts = 0, !.due = 0]
      /\ ~granted => r = target.transfer
  BY DEF RetriedNow
<1> HIDE DEF r, granted
<1>6. t \in Target
  BY <1>1, <1>4 DEF Target
<1>7. /\ t.media = target.media /\ t.retired = target.retired /\ t.asset = target.asset
      /\ t.selection = target.selection /\ t.pending = target.pending
      /\ t.failed = target.failed /\ t.removal = target.removal /\ t.transfer = r
  BY <1>1 DEF Target
<1> HIDE DEF t
<1>8. TargetOK(t)
  BY <1>1, <1>6, <1>7 DEF TargetOK, TargetFit
<1>9. /\ TargetOK(target') /\ target'.media = t.media /\ target'.transfer = t.transfer
      /\ \/ target'.selection = t.selection /\ target'.asset = t.asset
         \/ target'.selection \notin InUse
      /\ Follows(wire, wire')
  BY <1>3, <1>8, RetrySourceKeeps, UnusedToken DEF IInv, RestOK, StreamInv
<1>10. target' # None
  BY <1>9, TargetIs DEF TargetOK
<1>11. pace' \in Pace
  <2>1. 1 + Attempts \in Nat /\ 0 \in Nat /\ pace \in Pace
    BY Constants DEF IInv, RestOK, Pace
  <2> QED
    BY <1>2, <2>1 DEF Pace
<1>12. RestOK'
  BY <1>2, <1>10, <1>11 DEF IInv, RestOK, Pace
<1>13. PrepInv'
  BY <1>1, <1>2, <1>7, <1>9, PrepKept DEF IInv
<1>14. StreamInv'
  BY <1>1, <1>7, <1>9, <1>10, StreamKept DEF IInv
<1>15. BudgetInv'
  <2>1. kept' = None /\ Budget' = r /\ Paid(target.transfer, pace)
    BY <1>1, <1>2, <1>7, <1>9, <1>10 DEF IInv, BudgetInv, Budget
  <2>2. CASE granted
    <3>1. /\ pace'.spent = 0 /\ pace'.allowed = 1 + Attempts /\ pace'.age = pace.age
          /\ Attempts \in Nat
      BY <1>2, <2>2, Constants DEF IInv, RestOK
    <3>2. /\ r.attempts = 0 /\ r.due = 0 /\ r.since = target.transfer.since
      BY <1>1, <1>5, <2>2 DEF Transfer
    <3>3. Due(r) = 1
      BY <3>2, Constants DEF Due
    <3> QED
      BY <2>1, <3>1, <3>2, <3>3 DEF BudgetInv, Paid
  <2>3. CASE ~granted
    BY <1>2, <1>5, <2>1, <2>3 DEF BudgetInv
  <2> QED
    BY <2>2, <2>3
<1> QED
  BY <1>9, <1>12, <1>13, <1>14, <1>15 DEF IInv

(* A source that streams on its own is paused, and its stream ends. *)
LEMMA SetBrightnessKeeps ==
  ASSUME IInv, EndlessTokens, SetBrightness
  PROVE  IInv'
<1>1. /\ target # None /\ TargetOK(target) /\ WireOK(wire) /\ Retries \in 0..Retries
      /\ Unused \in Tokens \ InUse
      /\ UNCHANGED <<held, kept, requested, wanted, removals, pass, prep, disposing, plugged,
                     pace>>
  BY Constants, UnusedToken DEF SetBrightness, InMap, IInv, RestOK, StreamInv, main
<1>2. CASE Autonomous(target.media)
  <2> DEFINE p == Paused(target)
             u == [p EXCEPT !.pending = TRUE, !.selection = Unused, !.dim = Retries]
  <2>1. TargetOK(p) /\ SameTarget(p, target)
    BY <1>1, PausedTarget DEF TargetOK
  <2>2. Flush(u, Cancelled(wire))
    BY <1>2 DEF SetBrightness, ApplyBrightness
  <2> HIDE DEF p
  <2>3. p \in Target /\ TRUE \in BOOLEAN
    BY <2>1 DEF SameTarget
  <2>4. u \in Target
    BY <1>1, <2>3 DEF Target
  <2>5. /\ u.media = p.media /\ u.retired = p.retired /\ u.pending
        /\ u.transfer = p.transfer /\ u.selection = Unused
    BY <2>3 DEF Target
  <2> HIDE DEF u
  <2>6. TargetOK(u)
    BY <2>1, <2>4, <2>5 DEF TargetOK, TargetFit
  <2>7. WireOK(Cancelled(wire)) /\ Silent(Cancelled(wire))
    BY <1>1, CancelledWire
  <2>8. /\ TargetOK(target') /\ target'.selection \notin InUse
        /\ target'.transfer = target.transfer /\ WireOK(wire') /\ Silent(wire')
    BY <1>1, <2>1, <2>2, <2>5, <2>6, <2>7, FlushKeeps DEF Follows, SameTarget
  <2>9. target' # None
    BY <2>8, TargetIs DEF TargetOK
  <2>10. RestOK'
    BY <1>1, <2>9 DEF IInv, RestOK
  <2>11. PrepInv' /\ StreamInv' /\ BudgetInv'
    BY <1>1, <2>8, <2>9, PrepKept, StreamOver, BudgetKept DEF IInv
  <2> QED
    BY <2>8, <2>10, <2>11 DEF IInv
<1>3. CASE ~Autonomous(target.media)
  <2> DEFINE u == [target EXCEPT !.dim = Retries]
  <2>1. Flush(u, wire)
    BY <1>3 DEF SetBrightness, ApplyBrightness
  <2>2. /\ TargetOK(u) /\ u.media = target.media /\ u.transfer = target.transfer
        /\ u.selection = target.selection /\ u.asset = target.asset
    BY <1>1, DimTarget
  <2> HIDE DEF u
  <2>3. /\ TargetOK(target') /\ target'.selection = target.selection
        /\ target'.asset = target.asset /\ target'.media = target.media
        /\ target'.transfer = target.transfer /\ Follows(wire, wire')
    BY <1>1, <2>1, <2>2, FlushKeeps
  <2>4. target' # None
    BY <2>3, TargetIs DEF TargetOK
  <2>5. RestOK'
    BY <1>1, <2>4 DEF IInv, RestOK
  <2>6. PrepInv' /\ StreamInv' /\ BudgetInv'
    BY <1>1, <2>3, <2>4, PrepKept, StreamKept, BudgetKept DEF IInv
  <2> QED
    BY <2>3, <2>5, <2>6 DEF IInv
<1> QED
  BY <1>2, <1>3

(* A target out of the map is the same target. *)
LEMMA TakeTargetKeeps ==
  ASSUME IInv, TakeTarget
  PROVE  IInv'
<1>1. /\ target # None /\ held' = TRUE
      /\ UNCHANGED <<target, kept, requested, wanted, removals, pass, prep, disposing,
                     wire, plugged, pace>>
  BY DEF TakeTarget, InMap
<1> QED
  BY <1>1 DEF IInv, RestOK, PrepInv, StreamInv, BudgetInv, Budget

(* The target goes back, with the media that is wanted. *)
LEMMA PutBackKeeps ==
  ASSUME IInv, EndlessTokens, PutBack
  PROVE  IInv'
<1> DEFINE t == IF target.asset = wanted THEN target ELSE Swapped(target, wanted)
<1>1. /\ target # None /\ TargetOK(target) /\ WireOK(wire) /\ wanted \in Assets
      /\ Unused \in Tokens \ InUse /\ held' = FALSE
      /\ UNCHANGED <<kept, requested, wanted, removals, pass, prep, disposing, plugged, pace>>
  BY UnusedToken DEF PutBack, IInv, RestOK, StreamInv
<1>2. Flush(t, wire)
  BY DEF PutBack
<1>3. /\ TargetOK(t) /\ t.media = target.media /\ t.transfer = target.transfer
      /\ \/ t.selection = target.selection /\ t.asset = target.asset
         \/ t.selection \notin InUse
  BY <1>1, SwappedTarget
<1> HIDE DEF t
<1>4. /\ TargetOK(target') /\ target'.media = target.media
      /\ target'.transfer = target.transfer /\ Follows(wire, wire')
      /\ \/ target'.selection = target.selection /\ target'.asset = target.asset
         \/ target'.selection \notin InUse
  BY <1>1, <1>2, <1>3, FlushKeeps
<1>5. target' # None
  BY <1>4, TargetIs DEF TargetOK
<1>6. RestOK'
  BY <1>1, <1>5 DEF IInv, RestOK
<1>7. PrepInv' /\ StreamInv' /\ BudgetInv'
  BY <1>1, <1>4, <1>5, PrepKept, StreamKept, BudgetKept DEF IInv
<1> QED
  BY <1>4, <1>6, <1>7 DEF IInv

(* A sender that starts has nothing to stream. *)
LEMMA NoWireOK ==
  /\ WireOK(NoWire) /\ Silent(NoWire)
  /\ WireOK([NoWire EXCEPT !.queue = <<Dim>>]) /\ Silent([NoWire EXCEPT !.queue = <<Dim>>])
<1> DEFINE v == [NoWire EXCEPT !.queue = <<Dim>>]
<1>1. <<>> \in Seq(Message) /\ Len(<<>>) = 0 /\ DOMAIN <<>> = {}
  BY EmptySeq
<1>2. <<Dim>> \in Seq(Message) /\ Len(<<Dim>>) = 1
  BY MessageType
<1>3. \A i \in DOMAIN <<Dim>> : <<Dim>>[i] = Dim
  OBVIOUS
<1>4. /\ NoWire.queue = <<>> /\ NoWire.active = Nothing /\ NoWire \in Wires
  BY <1>1, MessageType DEF NoWire, Wires
<1>5. /\ v.queue = <<Dim>> /\ v.active = Nothing /\ v \in Wires
  BY <1>2, MessageType DEF NoWire, Wires
<1> HIDE DEF v
<1>6. WireOK(NoWire) /\ WireOK(v)
  BY <1>1, <1>2, <1>4, <1>5 DEF WireOK, Capacity
<1>7. Silent(NoWire)
  BY <1>1, <1>4, MessageType DEF Silent
<1>8. Silent(v)
  BY <1>3, <1>5, MessageType DEF Silent
<1> QED
  BY <1>6, <1>7, <1>8 DEF v

(* The budget of a dropped target is lost, and the history starts anew. *)
LEMMA DetachKeeps ==
  ASSUME IInv, Detach
  PROVE  IInv'
<1>1. /\ target # None /\ target' = None /\ wire' = NoWire /\ held' = FALSE
      /\ pace' = [age |-> pace.age, spent |-> 0, allowed |-> Attempts]
      /\ UNCHANGED <<kept, requested, wanted, removals, pass, prep, disposing, plugged>>
  BY DEF Detach, IInv, RestOK, Fresh
<1>2. Attempts \in Nat /\ pace.age \in 0..Long /\ 0 \in Nat
  BY Constants DEF IInv, RestOK, Pace
<1>3. pace' \in Pace
  BY <1>1, <1>2 DEF Pace
<1>4. RestOK'
  BY <1>1, <1>3 DEF IInv, RestOK
<1>5. PrepInv' /\ StreamInv'
  BY <1>1, NoWireOK, StreamOver DEF PrepInv
<1>6. BudgetInv'
  <2>1. kept' = None /\ Budget' = NewTransfer
    BY <1>1 DEF IInv, BudgetInv, Budget
  <2>2. /\ NewTransfer.since = Long /\ NewTransfer.attempts = 0 /\ Due(NewTransfer) = 0
    BY DEF NewTransfer, Due
  <2> QED
    BY <1>1, <1>2, <2>1, <2>2 DEF BudgetInv, Paid
<1> QED
  BY <1>1, <1>4, <1>5, <1>6 DEF IInv

(* A fresh budget is a budget. *)
LEMMA NewTransferType == NewTransfer \in Transfer
BY Constants DEF NewTransfer, Transfer

(* A new target continues the budget that was kept for it. *)
LEMMA AttachKeeps ==
  ASSUME IInv, EndlessTokens, Attach
  PROVE  IInv'
<1> DEFINE r == IF kept = None THEN NewTransfer ELSE kept
<1>1. /\ target' =
           [asset |-> wanted, pending |-> TRUE, failed |-> FALSE, paused |-> FALSE,
            stage |-> "starting", media |-> NoMedia, retired |-> None,
            selection |-> Unused, removal |-> None, dim |-> 0, transfer |-> r]
      /\ target = None /\ kept' = None /\ wire' = [NoWire EXCEPT !.queue = <<Dim>>]
      /\ UNCHANGED <<held, requested, wanted, removals, pass, prep, disposing, plugged, pace>>
  BY DEF Attach
<1>2. /\ r \in Transfer /\ wanted \in Assets /\ Unused \in Tokens \ InUse
      /\ 0 \in 0..Retries
  BY NewTransferType, UnusedToken, Constants DEF IInv, RestOK
<1> HIDE DEF r
<1>3. target' \in Target
  BY <1>1, <1>2, SourcesOK DEF Target
<1>4. /\ target'.media = NoMedia /\ target'.retired = None /\ target'.pending
      /\ target'.selection = Unused /\ target'.transfer = r
  BY <1>1
<1>5. TargetOK(target') /\ target' # None
  BY <1>3, <1>4, SourcesOK, NoneAssumption DEF TargetOK, TargetFit
<1>6. RestOK'
  BY <1>1, <1>5 DEF IInv, RestOK
<1>7. PrepInv'
  BY <1>1, <1>2, <1>4, PrepKept DEF IInv
<1>8. StreamInv'
  BY <1>1, NoWireOK, StreamOver
<1>9. BudgetInv'
  BY <1>1, <1>4, <1>5 DEF r, IInv, BudgetInv, Budget
<1> QED
  BY <1>5, <1>6, <1>7, <1>8, <1>9 DEF IInv

(* A budget none of which is used, or whose last interruption is a healthy   *)
(* period ago, is as good as new.                                            *)
LEMMA RenewedPaid ==
  ASSUME NEW r \in Transfer, NEW p \in Pace, Paid(r, p), r.since = Long \/ r.attempts = 0
  PROVE  Paid(NewTransfer, p)
<1>1. /\ Attempts \in Nat /\ r.attempts \in 0..Attempts /\ p.spent \in Nat
      /\ p.allowed \in Nat /\ Due(r) \in 0..1
  BY Constants DEF Transfer, Pace, Due
<1>2. NewTransfer.since = Long /\ NewTransfer.attempts = 0 /\ Due(NewTransfer) = 0
  BY DEF NewTransfer, Due
<1> QED
  BY <1>1, <1>2 DEF Paid

(* A kept budget is dropped only when it is as good as new. *)
LEMMA ForgetBudgetKeeps ==
  ASSUME IInv, ForgetBudget
  PROVE  IInv'
<1>1. /\ target = None /\ kept # None /\ kept.since > Healthy /\ kept' = None
      /\ UNCHANGED <<target, held, requested, wanted, removals, pass, prep, disposing,
                     wire, plugged, pace>>
  BY DEF ForgetBudget
<1>2. kept \in Transfer /\ pace \in Pace /\ Paid(kept, pace)
  BY <1>1 DEF IInv, RestOK, BudgetInv, Budget
<1>3. kept.since = Long
  BY <1>1, <1>2, Constants DEF Transfer
<1>4. BudgetInv'
  BY <1>1, <1>2, <1>3, RenewedPaid DEF BudgetInv, Budget
<1> QED
  BY <1>1, <1>4 DEF IInv, RestOK, PrepInv, StreamInv

(* The budget of a target that is removed is kept, if any of it was used. *)
LEMMA RemoveFailedKeeps ==
  ASSUME IInv, NEW n \in Tokens, RemoveFailed(n)
  PROVE  IInv'
<1>1. /\ removals' = removals \ {n} /\ ~held
      /\ UNCHANGED <<held, requested, wanted, pass, prep, disposing, plugged, pace>>
  BY DEF RemoveFailed
<1>2. removals' \subseteq Tokens /\ IsFiniteSet(removals')
  BY <1>1, FS_Subset DEF IInv, RestOK
<1>3. CASE target # None /\ target.removal = n
  <2> DEFINE r == target.transfer
  <2>1. /\ target' = None /\ wire' = NoWire
        /\ kept' = IF r.attempts > 0 THEN ForReplacement(r) ELSE kept
    BY <1>3 DEF RemoveFailed
  <2>2. r \in Transfer /\ kept = None /\ Paid(r, pace) /\ pace \in Pace
    BY <1>3, TargetIs DEF IInv, RestOK, TargetOK, TargetFit, Target, BudgetInv, Budget
  <2> HIDE DEF r
  <2>3. /\ Attempts \in Nat /\ r.attempts \in 0..Attempts /\ pace.spent \in Nat
        /\ pace.allowed \in Nat /\ Due(r) \in 0..1
    BY <2>2, Constants DEF Transfer, Pace, Due
  <2>4. CASE r.attempts > 0
    <3>1. kept' = [r EXCEPT !.due = None, !.pending = FALSE]
      BY <2>1, <2>4 DEF ForReplacement
    <3>2. /\ kept' \in Transfer /\ kept'.since = r.since /\ kept'.attempts = r.attempts
          /\ kept'.due = None
      BY <2>2, <3>1 DEF Transfer
    <3>3. Paid(kept', pace)
      BY <2>2, <2>3, <3>2 DEF Paid, Due
    <3>4. kept' # None
      BY <3>2, NoneAssumption
    <3>5. RestOK'
      BY <1>1, <1>2, <2>1, <3>2 DEF IInv, RestOK
    <3>6. BudgetInv'
      BY <1>1, <2>1, <3>3, <3>4 DEF BudgetInv, Budget
    <3> QED
      BY <2>1, <3>5, <3>6, NoWireOK, StreamOver DEF IInv, PrepInv
  <2>5. CASE ~(r.attempts > 0)
    <3>1. kept' = None
      BY <2>1, <2>2, <2>5
    <3>2. Paid(NewTransfer, pace)
      BY <2>2, <2>3, <2>5, RenewedPaid
    <3>3. RestOK'
      BY <1>1, <1>2, <2>1, <3>1 DEF IInv, RestOK
    <3>4. BudgetInv'
      BY <1>1, <2>1, <3>1, <3>2 DEF BudgetInv, Budget
    <3> QED
      BY <2>1, <3>3, <3>4, NoWireOK, StreamOver DEF IInv, PrepInv
  <2> QED
    BY <2>4, <2>5
<1>4. CASE ~(target # None /\ target.removal = n)
  <2>1. UNCHANGED <<target, wire, kept>>
    BY <1>4 DEF RemoveFailed
  <2> QED
    BY <1>1, <1>2, <2>1 DEF IInv, RestOK, PrepInv, StreamInv, BudgetInv, Budget
<1> QED
  BY <1>3, <1>4

-----------------------------------------------------------------------------
(* The passes of the streaming worker. *)

(* A source is installed for the selection it was prepared for. *)
LEMMA InstallKeeps ==
  ASSUME NEW t, TargetOK(t), t.asset = Live, WireOK(wire), Install(t),
         Silent(wire) \/ (t.media.mine /\ Carries(wire, t.media.asset)), OneStream(wire)
  PROVE  /\ TargetOK(target') /\ StreamInv'
         /\ target'.selection = t.selection /\ target'.asset = t.asset
         /\ target'.transfer = t.transfer
<1> DEFINE d == Disowned(t)
<1>1. /\ TargetOK(d) /\ SameTarget(d, t) /\ ~d.media.mine
  <2>1. t.media \in Source /\ SourceOK(t.media)
    BY DEF TargetOK, TargetFit, Target
  <2> QED
    BY <2>1, DisownedTarget, DisownSource DEF TargetOK
<1> HIDE DEF d
<1>2. CASE /\ prep.result = "live" /\ ~Full(wire)
           /\ target' = Installed(d, LiveSource)
           /\ wire' = FramesReset(Submitted(wire, Live))
  <2>1. /\ TargetOK(target') /\ target'.media = LiveSource
        /\ target'.selection = t.selection /\ target'.asset = t.asset
        /\ target'.transfer = t.transfer
    BY <1>1, <1>2, InstalledTarget, SourcesOK DEF TargetOK, SameTarget
  <2>2. target' # None
    BY <2>1, TargetIs DEF TargetOK
  <2>3. WireOK(wire') /\ OneStream(wire') /\ Carries(wire', Live)
    <3> DEFINE s == Submitted(wire, Live)
    <3>1. WireOK(s) /\ OneStream(s) /\ Carries(s, Live)
      BY <1>2, SubmittedWire DEF Assets
    <3> HIDE DEF s
    <3> QED
      BY <1>2, <3>1, FramesResetWire DEF s, Follows
  <2> QED
    BY <2>1, <2>2, <2>3, SourcesOK, StreamNew
<1>3. CASE /\ prep.result = "jpeg"
           /\ target' = Installed(d, JpegSource)
           /\ wire' = FramesReset(Cancelled(wire))
  <2>1. /\ TargetOK(target')
        /\ target'.selection = t.selection /\ target'.asset = t.asset
        /\ target'.transfer = t.transfer
    BY <1>1, <1>3, InstalledTarget, SourcesOK DEF TargetOK, SameTarget
  <2>2. WireOK(wire') /\ Silent(wire')
    <3> DEFINE s == Cancelled(wire)
    <3>1. WireOK(s) /\ Silent(s)
      BY CancelledWire
    <3> HIDE DEF s
    <3> QED
      BY <1>3, <3>1, FramesResetWire DEF s, Follows
  <2> QED
    BY <2>1, <2>2, StreamOver
<1>4. CASE target' = [t EXCEPT !.pending = FALSE, !.failed = TRUE] /\ wire' = wire
  <2>1. t \in Target /\ TRUE \in BOOLEAN /\ FALSE \in BOOLEAN
    BY DEF TargetOK, TargetFit
  <2>2. target' \in Target
    BY <1>4, <2>1 DEF Target
  <2>3. /\ target'.media = t.media /\ target'.retired = t.retired /\ target'.failed
        /\ target'.selection = t.selection /\ target'.asset = t.asset
        /\ target'.transfer = t.transfer
    BY <1>4, <2>1 DEF Target
  <2>4. TargetOK(target')
    BY <2>2, <2>3 DEF TargetOK, TargetFit
  <2>5. target' # None
    BY <2>4, TargetIs DEF TargetOK
  <2>6. StreamInv'
    BY <1>4, <2>3, <2>5 DEF StreamInv, Streams
  <2> QED
    BY <2>3, <2>4, <2>6
<1> QED
  BY <1>2, <1>3, <1>4 DEF Install, d

(* The first part of a pass: a retired source goes, an offered one comes. *)
LEMMA CollectKeeps ==
  ASSUME IInv, Collect
  PROVE  IInv'
<1> DEFINE retires == InMap /\ CanRetire(target)
           t == IF retires THEN [target EXCEPT !.retired = None] ELSE target
           offered == prep.at = "offered" /\ InMap /\ Accepts(t, prep.selection)
<1>1. /\ pass' = "serve" /\ disposing' = disposing + (IF retires THEN 1 ELSE 0)
      /\ prep' = IF prep.at = "offered" THEN [prep EXCEPT !.at = "ending"] ELSE prep
      /\ IF offered THEN Install(t) ELSE target' = t /\ wire' = wire
      /\ UNCHANGED <<held, kept, requested, wanted, removals, plugged, pace>>
  BY DEF Collect, main
<1>2. disposing' \in 0..2
  BY <1>1 DEF IInv, RestOK, CanRetire
<1>3. /\ prep' \in Preps
      /\ prep'.selection = prep.selection
      /\ prep'.at \in {"working", "offered"} => prep.at \in {"working", "offered"}
  <2>1. prep \in Preps
    BY DEF IInv, RestOK
  <2> QED
    BY <1>1, <2>1 DEF Preps
<1>4. target # None =>
        /\ TargetOK(t) /\ t.media = target.media /\ t.selection = target.selection
        /\ t.asset = target.asset /\ t.transfer = target.transfer
  <2>1. ASSUME target # None
        PROVE  LET u == [target EXCEPT !.retired = None]
               IN /\ TargetOK(u) /\ u.media = target.media /\ u.selection = target.selection
                  /\ u.asset = target.asset /\ u.transfer = target.transfer
    <3> DEFINE u == [target EXCEPT !.retired = None]
    <3>1. TargetOK(target) /\ target \in Target
      BY <2>1 DEF IInv, TargetOK, TargetFit
    <3>2. u \in Target
      BY <3>1 DEF Target
    <3>3. /\ u.retired = None /\ u.media = target.media /\ u.pending = target.pending
          /\ u.failed = target.failed /\ u.removal = target.removal
          /\ u.selection = target.selection
          /\ u.asset = target.asset /\ u.transfer = target.transfer
      BY <3>1 DEF Target
    <3> HIDE DEF u
    <3>4. TargetOK(u)
      BY <3>1, <3>2, <3>3 DEF TargetOK, TargetFit
    <3> QED
      BY <3>3, <3>4 DEF u
  <2> QED
    BY <2>1 DEF IInv
<1>5. target = None => t = None
  BY DEF InMap
<1> HIDE DEF t, retires
<1>6. CASE offered
  <2>1. target # None /\ TargetOK(t) /\ Install(t) /\ WireOK(wire) /\ OneStream(wire)
    BY <1>1, <1>4, <1>6 DEF InMap, IInv, StreamInv
  <2>2. t.asset = Live
    BY <1>4, <1>6, <2>1 DEF Accepts, IInv, PrepInv
  <2>3. Silent(wire) \/ (t.media.mine /\ Carries(wire, t.media.asset))
    <3>1. Silent(wire) \/ (target.media.mine /\ Carries(wire, target.media.asset))
      BY DEF IInv, StreamInv, Streams
    <3>2. t.media = target.media
      BY <1>4, <2>1
    <3> QED
      BY <3>1, <3>2
  <2>4. /\ TargetOK(target') /\ StreamInv'
        /\ target'.selection = t.selection /\ target'.asset = t.asset
        /\ target'.transfer = t.transfer
    BY <2>1, <2>2, <2>3, InstallKeeps
  <2>5. target' # None
    BY <2>4, TargetIs DEF TargetOK
  <2>6. RestOK'
    BY <1>1, <1>2, <1>3, <2>5 DEF IInv, RestOK
  <2>7. PrepInv'
    BY <1>3, <1>4, <2>1, <2>4, PrepKept DEF IInv
  <2>8. BudgetInv'
    BY <1>1, <1>4, <2>1, <2>4, <2>5, BudgetKept DEF IInv
  <2> QED
    BY <2>4, <2>6, <2>7, <2>8 DEF IInv
<1>7. CASE ~offered /\ target # None
  <2>1. target' = t /\ wire' = wire /\ TargetOK(t)
    BY <1>1, <1>4, <1>7
  <2>2. target' # None
    BY <2>1, TargetIs DEF TargetOK
  <2>3. RestOK'
    BY <1>1, <1>2, <1>3, <2>2 DEF IInv, RestOK
  <2>4. PrepInv'
    BY <1>3, <1>4, <1>7, <2>1, PrepKept DEF IInv
  <2>5. StreamInv'
    BY <1>4, <1>7, <2>1, <2>2 DEF IInv, StreamInv, Streams
  <2>6. BudgetInv'
    BY <1>1, <1>4, <1>7, <2>1, <2>2, BudgetKept DEF IInv
  <2> QED
    BY <2>1, <2>3, <2>4, <2>5, <2>6 DEF IInv
<1>8. CASE target = None
  <2>1. target' = None /\ wire' = wire
    BY <1>1, <1>5, <1>8 DEF InMap
  <2>2. RestOK'
    BY <1>1, <1>2, <1>3, <1>8, <2>1 DEF IInv, RestOK
  <2> QED
    BY <1>1, <1>8, <2>1, <2>2 DEF IInv, PrepInv, StreamInv, Streams, BudgetInv, Budget
<1> QED
  BY <1>6, <1>7, <1>8

(* What a pass ends with. *)
LEMMA ServedRest ==
  ASSUME IInv, EndlessTokens, ServeEnds, target' # None,
         removals' \in {removals, removals \cup {Unused}}, pace' \in Pace,
         prep' \in Preps
  PROVE  RestOK'
<1>1. Unused \in Tokens
  BY UnusedToken DEF IInv, RestOK
<1>2. removals' \subseteq Tokens /\ IsFiniteSet(removals')
  BY <1>1, FS_AddElement DEF IInv, RestOK
<1>3. pass' = "collect" /\ UNCHANGED <<held, kept, requested, wanted, disposing, plugged>>
  BY DEF ServeEnds, main
<1> QED
  BY <1>2, <1>3 DEF IInv, RestOK

(* The wait is over: the recreation that was due is made. *)
LEMMA ServeDueKeeps ==
  ASSUME IInv, EndlessTokens, ServeDue
  PROVE  IInv'
<1> DEFINE r == [target.transfer EXCEPT !.due = None]
           t == [target EXCEPT !.transfer = r]
<1>1. /\ target # None /\ TargetOK(target) /\ target \in Target
      /\ target.transfer \in Transfer /\ target.transfer.due = 0
  BY TargetIs DEF ServeDue, InMap, DueNow, IInv, TargetOK, TargetFit, Target
<1>2. /\ target' = Removing(t) /\ wire' = Cancelled(wire)
      /\ removals' = removals \cup {Unused}
      /\ pace' = [pace EXCEPT !.spent = @ + 1] /\ prep' = prep /\ ServeEnds
  BY DEF ServeDue
<1>3. /\ r \in Transfer /\ r.due = None /\ r.attempts = target.transfer.attempts
      /\ r.since = target.transfer.since
  BY <1>1 DEF Transfer
<1> HIDE DEF r
<1>4. t \in Target
  BY <1>1, <1>3 DEF Target
<1>5. /\ t.media = target.media /\ t.retired = target.retired /\ t.asset = target.asset
      /\ t.pending = target.pending /\ t.failed = target.failed
      /\ t.removal = target.removal /\ t.transfer = r
  BY <1>1 DEF Target
<1> HIDE DEF t
<1>6. TargetFit(t)
  BY <1>1, <1>4, <1>5 DEF TargetOK, TargetFit
<1>7. Unused \in Tokens \ InUse
  BY UnusedToken DEF IInv, RestOK
<1>8. /\ TargetOK(target') /\ target'.selection \notin InUse /\ target'.transfer = r
  BY <1>2, <1>5, <1>6, <1>7, RemovingTarget, Constants
<1>9. target' # None
  BY <1>8, TargetIs DEF TargetOK
<1>10. /\ pace' \in Pace /\ pace'.spent = pace.spent + 1 /\ pace'.age = pace.age
       /\ pace'.allowed = pace.allowed /\ pace \in Pace
  <2>1. pace \in Pace
    BY DEF IInv, RestOK
  <2>2. pace.spent + 1 \in Nat
    BY <2>1 DEF Pace
  <2> QED
    BY <1>2, <2>1, <2>2 DEF Pace
<1>11. RestOK'
  BY <1>2, <1>9, <1>10, ServedRest DEF IInv, RestOK
<1>12. PrepInv'
  BY <1>2, <1>8, PrepKept DEF IInv
<1>13. StreamInv'
  BY <1>2, CancelledWire, StreamOver DEF IInv, StreamInv
<1>14. BudgetInv'
  <2>1. /\ kept' = None /\ Budget' = r /\ Paid(target.transfer, pace)
    BY <1>1, <1>2, <1>8, <1>9 DEF IInv, BudgetInv, Budget, ServeEnds, main
  <2>2. Due(target.transfer) = 1 /\ Due(r) = 0
    BY <1>1, <1>3, Constants DEF Due
  <2>3. Attempts \in Nat /\ r.attempts \in Nat /\ pace.spent \in Nat /\ pace.allowed \in Nat
    BY <1>3, <1>10, Constants DEF Transfer, Pace
  <2> QED
    BY <1>3, <1>10, <2>1, <2>2, <2>3 DEF BudgetInv, Paid
<1> QED
  BY <1>8, <1>11, <1>12, <1>13, <1>14 DEF IInv

(* A pass with nothing to send may request a preparation. *)
LEMMA ServeNothingKeeps ==
  ASSUME IInv, EndlessTokens, ServeNothing
  PROVE  IInv'
<1>1. UNCHANGED <<target, wire, removals, pace, kept>> /\ Request /\ ServeEnds
  BY DEF ServeNothing, ServeEnds, main
<1>2. PrepInv' /\ prep' \in Preps
  BY <1>1, RequestKept
<1>3. RestOK'
  <2>1. UNCHANGED <<held, kept, requested, wanted, disposing, plugged>> /\ pass' = "collect"
    BY <1>1 DEF ServeEnds, main
  <2> QED
    BY <1>1, <1>2, <2>1 DEF IInv, RestOK
<1>4. (target # None => TargetOK(target))' /\ StreamInv' /\ BudgetInv'
  BY <1>1 DEF IInv, StreamInv, BudgetInv, Budget
<1> QED
  BY <1>2, <1>3, <1>4 DEF IInv

(* The target as send_frame sees it, with a file's source installed. *)
LEMMA CurrentTarget ==
  ASSUME IInv, target # None
  PROVE  /\ TargetFit(Current(target))
         /\ Current(target).selection = target.selection
         /\ Current(target).asset = target.asset
         /\ Current(target).transfer = target.transfer
         /\ Installs(target) => Current(target).media = FileSource
         /\ ~Installs(target) => Current(target) = target
         /\ Follows(wire, CurrentWire(target))
         /\ CurrentWire(target).failure = wire.failure
<1>1. TargetOK(target) /\ TargetFit(target) /\ target \in Target /\ WireOK(wire)
  BY TargetIs DEF IInv, TargetOK, StreamInv
<1>2. CASE Installs(target)
  <2>1. FileSource.asset = target.asset
    BY <1>1, <1>2, SourcesOK DEF Installs, NeedsPreparation, Target, Assets
  <2> QED
    BY <1>1, <1>2, <2>1, SourcesOK, InstalledTarget, FramesResetWire DEF Current, CurrentWire
<1>3. CASE ~Installs(target)
  BY <1>1, <1>3 DEF Current, CurrentWire, Follows
<1> QED
  BY <1>2, <1>3

(* The source fails, and no stream is left. *)
LEMMA FailWithKeeps ==
  ASSUME IInv, EndlessTokens, target # None, NEW b \in BOOLEAN, FailWith(b), Request,
         UNCHANGED removals, ServeEnds
  PROVE  IInv'
<1>1. TargetFit(Current(target)) /\ WireOK(CurrentWire(target))
      /\ Current(target).transfer = target.transfer /\ target.transfer \in Transfer
  BY CurrentTarget, TargetIs DEF Follows, IInv, TargetOK, Target
<1>2. StreamInv'
  BY <1>1, CancelledWire, StreamOver DEF FailWith
<1>3. pace \in Pace /\ Paid(target.transfer, pace) /\ kept = None /\ kept' = None
  BY DEF IInv, RestOK, BudgetInv, Budget, ServeEnds, main
<1>4. /\ TargetOK(target') /\ target'.selection = target.selection
      /\ target'.asset = target.asset
      /\ pace' \in Pace /\ Paid(target'.transfer, pace')
  <2>1. CASE b
    <3>1. /\ target' = Interrupted(Current(target))
          /\ pace' = IF target.transfer.due # None THEN pace
                     ELSE IF pace.age > Healthy THEN Fresh(0) ELSE [pace EXCEPT !.age = 0]
      BY <2>1 DEF FailWith
    <3>2. pace' \in Pace /\ Paid(Scheduled(target.transfer), pace')
      BY <1>1, <1>3, <3>1, ScheduledPaid
    <3> QED
      BY <1>1, <3>1, <3>2, InterruptedTarget, CurrentTarget
  <2>2. CASE ~b
    <3>1. target' = Stopped(Current(target)) /\ pace' = pace
      BY <2>2 DEF FailWith
    <3> QED
      BY <1>1, <1>3, <3>1, StoppedTarget, CurrentTarget DEF SameTarget
  <2> QED
    BY <2>1, <2>2
<1>5. target' # None
  BY <1>4, TargetIs DEF TargetOK
<1>6. PrepInv' /\ prep' \in Preps
  BY <1>4, RequestKept
<1>7. RestOK'
  BY <1>4, <1>5, <1>6, ServedRest
<1>8. BudgetInv'
  BY <1>3, <1>4, <1>5 DEF BudgetInv, Budget
<1> QED
  BY <1>2, <1>4, <1>6, <1>7, <1>8 DEF IInv

(* Each of the failures a pass may find. *)
LEMMA ServeFailuresKeep ==
  ASSUME IInv, EndlessTokens, ServeFrameFailure \/ ServeStreamFailure \/ ServeExited
  PROVE  IInv'
<1>1. target # None
  BY DEF ServeFrameFailure, ServeStreamFailure, ServeExited, Serves, InMap
<1>2. CASE ServeFrameFailure
  <2>1. FailWith(CurrentWire(target).frames = "interrupted")
    BY <1>2 DEF ServeFrameFailure
  <2> QED
    BY <1>1, <1>2, <2>1, FailWithKeeps DEF ServeFrameFailure
<1>3. CASE ServeStreamFailure
  <2>1. FailWith(wire.failure = "interrupted")
    BY <1>3 DEF ServeStreamFailure
  <2> QED
    BY <1>1, <1>3, <2>1, FailWithKeeps DEF ServeStreamFailure
<1>4. CASE ServeExited
  BY <1>1, <1>4, FailWithKeeps DEF ServeExited
<1> QED
  BY <1>2, <1>3, <1>4

(* A file's stream is submitted, and every stream before it ends. *)
LEMMA ServeStreamKeeps ==
  ASSUME IInv, EndlessTokens, ServeStream
  PROVE  IInv'
<1> DEFINE t == Current(target)
           w == CurrentWire(target)
           d == Disowned(t)
<1>1. /\ target # None /\ Autonomous(t.media) /\ Request /\ ServeEnds /\ UNCHANGED <<pace, kept>>
      /\ IF ~t.media.fresh
         THEN target' = [t EXCEPT !.stage = "playing"] /\ wire' = w /\ removals' = removals
         ELSE IF Full(w)
         THEN /\ target' = Removing(t) /\ wire' = Cancelled(w)
              /\ removals' = removals \cup {Unused}
         ELSE /\ target' = [d EXCEPT !.media.mine = TRUE, !.media.fresh = FALSE,
                                    !.stage = "playing"]
              /\ wire' = Submitted(w, File) /\ removals' = removals
  BY DEF ServeStream, Serves, InMap, ServeEnds, main
<1>2. /\ TargetFit(t) /\ t.selection = target.selection /\ t.asset = target.asset
      /\ t.transfer = target.transfer
      /\ Installs(target) => t.media = FileSource
      /\ ~Installs(target) => t = target
      /\ Follows(wire, w) /\ WireOK(w)
  BY <1>1, CurrentTarget DEF Follows
<1>3. Unused \in Tokens \ InUse /\ TargetOK(target)
  BY <1>1, UnusedToken DEF IInv, RestOK
<1> HIDE DEF w
<1>4. /\ TargetOK(target') /\ StreamInv' /\ target'.transfer = target.transfer
      /\ \/ target'.selection = target.selection /\ target'.asset = target.asset
         \/ target'.selection \notin InUse
  <2>1. CASE ~t.media.fresh
    <3>1. t = target
      BY <1>2, <2>1, SourcesOK
    <3>2. target' = [target EXCEPT !.stage = "playing"] /\ wire' = w /\ target \in Target
      BY <1>1, <1>3, <2>1, <3>1 DEF TargetOK, TargetFit
    <3> HIDE DEF t
    <3>3. target' \in Target
      BY <3>2 DEF Target
    <3>4. /\ target'.media = target.media /\ target'.retired = target.retired
          /\ target'.pending = target.pending /\ target'.failed = target.failed
          /\ target'.removal = target.removal /\ target'.selection = target.selection
          /\ target'.asset = target.asset /\ target'.transfer = target.transfer
      BY <3>2 DEF Target
    <3>5. TargetOK(target')
      BY <1>3, <3>3, <3>4 DEF TargetOK, TargetFit
    <3>6. target' # None
      BY <3>5, TargetIs DEF TargetOK
    <3> QED
      BY <1>1, <1>2, <3>2, <3>4, <3>5, <3>6, StreamKept DEF IInv
  <2>2. CASE t.media.fresh /\ Full(w)
    <3>1. target' = Removing(t) /\ wire' = Cancelled(w)
      BY <1>1, <2>2
    <3> HIDE DEF t
    <3> QED
      BY <1>2, <1>3, <3>1, RemovingTarget, Constants, CancelledWire, StreamOver
  <2>3. CASE t.media.fresh /\ ~Full(w)
    <3> DEFINE s == [d.media EXCEPT !.mine = TRUE, !.fresh = FALSE]
    <3>1. /\ target' = [d EXCEPT !.media = s, !.stage = "playing"]
          /\ wire' = Submitted(w, File)
      BY <1>1, <2>3
    <3>2. t.media \in Source /\ SourceOK(t.media)
      BY <1>2 DEF TargetFit, Target
    <3> HIDE DEF t
    <3>3. /\ TargetOK(d) /\ SameTarget(d, t) /\ d.media = Disown(t.media)
      BY <1>2, DisownedTarget
    <3>4. /\ d \in Target /\ d.media \in Source /\ SourceOK(d.media) /\ d.media.kind = "file"
          /\ d.media.asset = File
      BY <1>1, <2>3, <3>2, <3>3, DisownSource DEF SourceOK, Autonomous, SameTarget
    <3> HIDE DEF d
    <3>5. s \in Source
      BY <3>4 DEF Source
    <3>6. /\ s.mine /\ s.asset = File /\ s.kind = "file" /\ s.run = d.media.run
      BY <3>4 DEF Source
    <3> HIDE DEF s
    <3>7. SourceOK(s)
      BY <3>4, <3>5, <3>6 DEF SourceOK
    <3>8. target' \in Target
      BY <3>1, <3>4, <3>5 DEF Target
    <3>9. /\ target'.media = s /\ target'.retired = d.retired
          /\ target'.pending = d.pending /\ target'.failed = d.failed
          /\ target'.removal = d.removal /\ target'.selection = d.selection
          /\ target'.asset = d.asset /\ target'.transfer = d.transfer
      BY <3>1, <3>4 DEF Target
    <3>10. TargetOK(target')
      BY <3>3, <3>4, <3>6, <3>7, <3>8, <3>9 DEF TargetOK, TargetFit
    <3>11. target' # None
      BY <3>10, TargetIs DEF TargetOK
    <3>12. /\ WireOK(wire') /\ OneStream(wire') /\ Carries(wire', File)
      BY <1>2, <2>3, <3>1, SubmittedWire DEF Assets
    <3>13. StreamInv'
      BY <3>6, <3>9, <3>11, <3>12, StreamNew
    <3> QED
      BY <1>2, <3>3, <3>9, <3>10, <3>13 DEF SameTarget
  <2> QED
    BY <2>1, <2>2, <2>3
<1>5. target' # None
  BY <1>4, TargetIs DEF TargetOK
<1>6. PrepInv' /\ prep' \in Preps
  BY <1>1, <1>4, RequestKept
<1>7. RestOK'
  <2>1. removals' \in {removals, removals \cup {Unused}} /\ pace' \in Pace
    BY <1>1 DEF IInv, RestOK
  <2> QED
    BY <1>1, <1>5, <1>6, <2>1, ServedRest
<1>8. BudgetInv'
  BY <1>1, <1>4, <1>5, BudgetKept DEF IInv
<1> QED
  BY <1>4, <1>6, <1>7, <1>8 DEF IInv

(* A rendered frame takes the place of whatever was streamed. *)
LEMMA ServeFrameKeeps ==
  ASSUME IInv, EndlessTokens, ServeFrame
  PROVE  IInv'
<1>1. /\ target # None /\ Request /\ ServeEnds /\ UNCHANGED <<removals, pace, kept>>
      /\ \/ UNCHANGED <<target, wire>>
         \/ target' = Disowned(target) /\ wire' = Cancelled(wire)
         \/ /\ target' = [Disowned(target) EXCEPT !.media.fresh = FALSE, !.stage = "playing"]
            /\ wire' = [Cancelled(wire) EXCEPT !.queue = Append(@, Frame)] /\ ~Full(wire)
  BY DEF ServeFrame, Serves, InMap, ServeEnds, main
<1>2. TargetOK(target) /\ TargetFit(target) /\ WireOK(wire)
  BY <1>1 DEF IInv, TargetOK, StreamInv
<1>3. /\ TargetOK(Disowned(target)) /\ SameTarget(Disowned(target), target)
      /\ WireOK(Cancelled(wire)) /\ Silent(Cancelled(wire))
      /\ Len(Cancelled(wire).queue) = Len(wire.queue)
  BY <1>2, DisownedTarget, CancelledWire
<1>4. /\ TargetOK(target') /\ StreamInv' /\ target'.transfer = target.transfer
      /\ target'.selection = target.selection /\ target'.asset = target.asset
  <2>1. CASE UNCHANGED <<target, wire>>
    BY <1>2, <2>1 DEF IInv, StreamInv
  <2>2. CASE target' = Disowned(target) /\ wire' = Cancelled(wire)
    BY <1>3, <2>2, StreamOver DEF SameTarget
  <2>3. CASE /\ target' = [Disowned(target) EXCEPT !.media.fresh = FALSE, !.stage = "playing"]
             /\ wire' = [Cancelled(wire) EXCEPT !.queue = Append(@, Frame)] /\ ~Full(wire)
    <3> DEFINE d == Disowned(target)
               c == Cancelled(wire)
               s == [d.media EXCEPT !.fresh = FALSE]
    <3>1. /\ target' = [d EXCEPT !.media = s, !.stage = "playing"]
          /\ wire' = [c EXCEPT !.queue = Append(@, Frame)] /\ ~Full(c)
      BY <1>3, <2>3 DEF Full
    <3>2. TargetOK(d) /\ SameTarget(d, target) /\ WireOK(c) /\ Silent(c)
      BY <1>3
    <3> HIDE DEF d, c
    <3>3. d \in Target /\ d.media \in Source /\ SourceOK(d.media)
      BY <3>2 DEF TargetOK, TargetFit, Target
    <3>4. s \in Source /\ FALSE \in BOOLEAN
      BY <3>3 DEF Source
    <3>5. /\ s.asset = d.media.asset /\ s.kind = d.media.kind /\ s.run = d.media.run
          /\ ~s.fresh
      BY <3>3 DEF Source
    <3> HIDE DEF s
    <3>6. SourceOK(s)
      BY <3>3, <3>4, <3>5 DEF SourceOK
    <3>7. target' \in Target
      BY <3>1, <3>3, <3>4 DEF Target
    <3>8. /\ target'.media = s /\ target'.retired = d.retired
          /\ target'.pending = d.pending /\ target'.failed = d.failed
          /\ target'.removal = d.removal /\ target'.selection = d.selection
          /\ target'.asset = d.asset /\ target'.transfer = d.transfer
      BY <3>1, <3>3 DEF Target
    <3>9. TargetOK(target')
      BY <3>2, <3>5, <3>6, <3>7, <3>8 DEF TargetOK, TargetFit
    <3>10. WireOK(wire') /\ Silent(wire')
      BY <3>1, <3>2, AppendedWire, MessageType DEF Follows
    <3>11. StreamInv'
      BY <3>10, StreamOver
    <3> QED
      BY <3>2, <3>8, <3>9, <3>11 DEF SameTarget
  <2> QED
    BY <1>1, <2>1, <2>2, <2>3
<1>5. target' # None
  BY <1>4, TargetIs DEF TargetOK
<1>6. PrepInv' /\ prep' \in Preps
  BY <1>1, <1>4, RequestKept
<1>7. RestOK'
  <2>1. removals' = removals /\ pace' \in Pace
    BY <1>1 DEF IInv, RestOK
  <2> QED
    BY <1>1, <1>5, <1>6, <2>1, ServedRest
<1>8. BudgetInv'
  BY <1>1, <1>4, <1>5, BudgetKept DEF IInv
<1> QED
  BY <1>4, <1>6, <1>7, <1>8 DEF IInv

-----------------------------------------------------------------------------
(* The steps of the other threads. *)

(* A step of the sender alone. *)
LEMMA WireStepKeeps ==
  ASSUME IInv, Follows(wire, wire'),
         UNCHANGED <<target, main, removals, pass, prep, disposing, plugged, pace>>
  PROVE  IInv'
<1>1. UNCHANGED <<target, held, kept, requested, wanted, removals, pass, prep, disposing,
                  plugged, pace>>
  BY DEF main
<1>2. StreamInv'
  BY <1>1 DEF IInv, StreamInv, Follows, Streams
<1> QED
  BY <1>1, <1>2 DEF IInv, RestOK, PrepInv, BudgetInv, Budget

(* Flags and an active message that streams nothing add no stream. *)
LEMMA FlaggedWire ==
  ASSUME NEW w, NEW u, Follows(w, u), NEW v \in Wires, v.queue = u.queue,
         v.active = u.active \/ ~Lives(v.active)
  PROVE  Follows(w, v)
BY DEF Follows, WireOK, Silent, OneStream, Carries

(* A message leaves the queue, and may become the active one. *)
LEMMA TakenWire ==
  ASSUME WireOK(wire), wire.queue # <<>>, wire.active = Nothing
  PROVE  LET m == Head(wire.queue)
             w == [wire EXCEPT !.queue = Tail(@)]
         IN Follows(wire, w) /\ Follows(wire, [w EXCEPT !.active = m])
<1> DEFINE m == Head(wire.queue)
           w == [wire EXCEPT !.queue = Tail(@)]
           v == [w EXCEPT !.active = m]
           n == Len(wire.queue)
<1>1. /\ wire \in Wires /\ wire.queue \in Seq(Message) /\ n \in Nat /\ n # 0
      /\ DOMAIN wire.queue = 1..n /\ n <= Capacity
  BY LenProperties, EmptySeq DEF WireOK, Wires
<1>2. /\ m \in Message /\ m = wire.queue[1]
      /\ Tail(wire.queue) \in Seq(Message) /\ Len(Tail(wire.queue)) = n - 1
      /\ \A i \in 1..(n - 1) : Tail(wire.queue)[i] = wire.queue[i + 1]
  BY <1>1, HeadTailProperties
<1>3. DOMAIN Tail(wire.queue) = 1..(n - 1)
  BY <1>2, LenProperties
<1>4. /\ w \in Wires /\ w.queue = Tail(wire.queue) /\ w.active = Nothing
      /\ v \in Wires /\ v.queue = Tail(wire.queue) /\ v.active = m
  BY <1>1, <1>2 DEF Wires
<1> HIDE DEF w, v, m, n
<1>5. /\ \A i \in 1..(n - 1) : i + 1 \in 1..n /\ i + 1 # 1
      /\ 1 \in 1..n
      /\ \A i, j \in 1..(n - 1) : i + 1 = j + 1 => i = j
      /\ n - 1 <= Capacity
  BY <1>1 DEF Capacity
<1>6. WireOK(w) /\ WireOK(v)
  BY <1>2, <1>4, <1>5 DEF WireOK
<1>7. Silent(wire) => Silent(w) /\ Silent(v)
  BY <1>1, <1>2, <1>3, <1>4, <1>5, MessageType DEF Silent
<1>8. ASSUME NEW a, Carries(wire, a)
      PROVE  Carries(w, a) /\ Carries(v, a)
  BY <1>1, <1>2, <1>3, <1>4, <1>5, <1>8, MessageType DEF Carries
<1>9. OneStream(wire) => OneStream(w) /\ OneStream(v)
  <2> SUFFICES ASSUME OneStream(wire)
               PROVE  OneStream(w) /\ OneStream(v)
    OBVIOUS
  <2>1. \A i, j \in 1..n : Lives(wire.queue[i]) /\ Lives(wire.queue[j]) => i = j
    BY <1>1 DEF OneStream
  <2>2. \A i, j \in 1..(n - 1) :
          Lives(Tail(wire.queue)[i]) /\ Lives(Tail(wire.queue)[j]) => i = j
    BY <1>2, <1>5, <2>1
  <2>3. Lives(m) => \A i \in 1..(n - 1) : ~Lives(Tail(wire.queue)[i])
    BY <1>2, <1>5, <2>1
  <2> QED
    BY <1>3, <1>4, <2>2, <2>3, MessageType DEF OneStream
<1> QED
  BY <1>6, <1>7, <1>8, <1>9 DEF Follows, w, v, m

(* The sender takes up a message, or skips it. *)
LEMMA TakeMessageKeeps ==
  ASSUME IInv, TakeMessage
  PROVE  IInv'
<1> DEFINE m == Head(wire.queue)
           w == [wire EXCEPT !.queue = Tail(@)]
<1>1. /\ wire.queue # <<>> /\ wire.active = Nothing /\ WireOK(wire)
      /\ UNCHANGED <<target, main, removals, pass, prep, disposing, plugged, pace>>
  BY DEF TakeMessage, IInv, StreamInv
<1>2. \/ wire' = w \/ wire' = [w EXCEPT !.active = m]
      \/ \E f \in Failures : wire' = [w EXCEPT !.frames = f]
  BY DEF TakeMessage, Failures
<1>3. Follows(wire, w) /\ Follows(wire, [w EXCEPT !.active = m]) /\ w \in Wires
  BY <1>1, TakenWire DEF Follows, WireOK
<1> HIDE DEF w, m
<1>4. ASSUME NEW f \in Failures
      PROVE  Follows(wire, [w EXCEPT !.frames = f])
  <2> DEFINE v == [w EXCEPT !.frames = f]
  <2>1. v \in Wires /\ v.queue = w.queue /\ v.active = w.active
    BY <1>3 DEF Wires
  <2> HIDE DEF v
  <2> QED
    BY <1>3, <2>1, FlaggedWire DEF v
<1>5. Follows(wire, wire')
  BY <1>2, <1>3, <1>4
<1> QED
  BY <1>1, <1>5, WireStepKeeps

(* The stream ends, and it may be reported. *)
LEMMA StreamStepsKeep ==
  ASSUME IInv, StreamInterrupted \/ StreamFails \/ StreamEnds \/ FileEnds
  PROVE  IInv'
<1>1. UNCHANGED <<target, main, removals, pass, prep, disposing, plugged, pace>>
  BY DEF StreamInterrupted, StreamFails, StreamEnds, FileEnds
<1>2. WireOK(wire) /\ wire \in Wires
  BY DEF IInv, StreamInv, WireOK
<1>3. \E f \in Failures \cup {None}, l \in BOOLEAN :
        wire' = [wire EXCEPT !.active = Nothing, !.failure = f, !.latched = l]
  <2>1. /\ wire.failure \in Failures \cup {None} /\ wire.latched \in BOOLEAN
        /\ wire = [wire EXCEPT !.failure = wire.failure, !.latched = wire.latched]
    BY <1>2 DEF Wires
  <2>2. CASE StreamEnds \/ FileEnds
    <3>1. wire' = [wire EXCEPT !.active = Nothing]
      BY <2>2 DEF StreamEnds, FileEnds
    <3>2. wire' = [wire EXCEPT !.active = Nothing, !.failure = wire.failure,
                               !.latched = wire.latched]
      BY <1>2, <3>1 DEF Wires
    <3> QED
      BY <2>1, <3>2
  <2>3. CASE StreamFails
    <3> DEFINE f == IF wire.active.live THEN "failed" ELSE wire.failure
    <3>1. wire' = [wire EXCEPT !.active = Nothing, !.failure = f]
      BY <2>3 DEF StreamFails, Reported
    <3>2. f \in Failures \cup {None}
      BY <2>1 DEF Failures
    <3> HIDE DEF f
    <3>3. wire' = [wire EXCEPT !.active = Nothing, !.failure = f, !.latched = wire.latched]
      BY <1>2, <3>1 DEF Wires
    <3> QED
      BY <2>1, <3>2, <3>3
  <2>4. CASE StreamInterrupted
    <3> DEFINE f == IF wire.active.live THEN "interrupted" ELSE wire.failure
    <3>1. wire' = [[wire EXCEPT !.active = Nothing, !.failure = f] EXCEPT !.latched = TRUE]
      BY <2>4 DEF StreamInterrupted, Reported
    <3>2. f \in Failures \cup {None} /\ TRUE \in BOOLEAN
      BY <2>1 DEF Failures
    <3> HIDE DEF f
    <3>3. wire' = [wire EXCEPT !.active = Nothing, !.failure = f, !.latched = TRUE]
      BY <1>2, <3>1 DEF Wires
    <3> QED
      BY <3>2, <3>3
  <2> QED
    BY <2>2, <2>3, <2>4
<1>4. PICK f \in Failures \cup {None}, l \in BOOLEAN :
        wire' = [wire EXCEPT !.active = Nothing, !.failure = f, !.latched = l]
  BY <1>3
<1>5. wire' \in Wires /\ wire'.queue = wire.queue /\ wire'.active = Nothing
  BY <1>2, <1>4, MessageType DEF Wires
<1>6. Follows(wire, wire')
  <2>1. Follows(wire, wire)
    BY <1>2 DEF Follows
  <2> QED
    BY <1>5, <2>1, FlaggedWire, MessageType
<1> QED
  BY <1>1, <1>6, WireStepKeeps

(* The preparation thread offers what is still selected, and ends. *)
LEMMA PreparationKeeps ==
  ASSUME IInv,
         PrepEnds \/ \E result \in {"live", "jpeg", "error"} : PrepOffers(result)
  PROVE  IInv'
<1>1. UNCHANGED <<target, held, kept, requested, wanted, removals, pass, disposing, wire,
                  plugged, pace>>
  BY DEF PrepEnds, PrepOffers, main
<1>2. prep \in Preps
  BY DEF IInv, RestOK
<1>3. /\ prep' \in Preps
      /\ PrepInv'
  <2>1. CASE PrepEnds
    <3>1. prep' = Idle
      BY <2>1 DEF PrepEnds
    <3> QED
      BY <3>1 DEF Idle, PrepInv, Preps
  <2>2. ASSUME NEW result \in {"live", "jpeg", "error"}, PrepOffers(result)
        PROVE  /\ prep' \in Preps
               /\ PrepInv'
    <3>1. prep.at = "working"
      BY <2>2 DEF PrepOffers
    <3>2. CASE Selected
      <4>1. prep' = [prep EXCEPT !.at = "offered", !.result = result]
        BY <2>2, <3>2 DEF PrepOffers
      <4> QED
        BY <1>1, <1>2, <3>1, <4>1 DEF IInv, PrepInv, Preps
    <3>3. CASE ~Selected
      <4>1. prep' = [prep EXCEPT !.at = "ending"]
        BY <2>2, <3>3 DEF PrepOffers
      <4> QED
        BY <1>2, <4>1 DEF PrepInv, Preps
    <3> QED
      BY <3>2, <3>3
  <2> QED
    BY <2>1, <2>2
<1> QED
  BY <1>1, <1>3 DEF IInv, RestOK, StreamInv, BudgetInv, Budget

(* A renderer goes on, and its source stays the same. *)
LEMMA RenderedTarget ==
  ASSUME IInv, NEW p \in Places, NEW r \in Runs,
         Rendered(p).run \in {"running", "restarting", "late", "stopping"},
         r = "restarting" => Rendered(p).kind = "live", r # "late",
         target' = [target EXCEPT ![p].run = r]
  PROVE  /\ target # None /\ TargetOK(target') /\ target'.selection = target.selection
         /\ target'.asset = target.asset /\ target'.transfer = target.transfer
         /\ target'.media.mine = target.media.mine
         /\ target'.media.asset = target.media.asset
<1>1. target # None
  BY DEF Rendered, NoMedia
<1>2. TargetOK(target) /\ target \in Target
  BY <1>1, TargetIs DEF IInv, TargetOK
<1>3. CASE p = "media"
  <2> DEFINE s == [target.media EXCEPT !.run = r]
  <2>1. target.media \in Source /\ SourceOK(target.media)
    BY <1>2 DEF TargetOK, TargetFit, Target
  <2>2. target.media # None /\ Rendered(p) = target.media
    BY <1>1, <1>3, <2>1, NoneAssumption DEF Rendered
  <2>3. s \in Source
    BY <2>1 DEF Source
  <2>4. /\ s.run = r /\ s.kind = target.media.kind /\ s.asset = target.media.asset
        /\ s.mine = target.media.mine /\ s.fresh = target.media.fresh
    BY <2>1 DEF Source
  <2>5. target' = [target EXCEPT !.media = s]
    BY <1>2, <1>3 DEF Target
  <2> HIDE DEF s
  <2>6. SourceOK(s)
    BY <2>1, <2>2, <2>3, <2>4 DEF SourceOK
  <2>7. target' \in Target
    BY <1>2, <2>3, <2>5 DEF Target
  <2>8. /\ target'.media = s /\ target'.retired = target.retired
        /\ target'.pending = target.pending /\ target'.failed = target.failed
        /\ target'.removal = target.removal /\ target'.selection = target.selection
        /\ target'.asset = target.asset /\ target'.transfer = target.transfer
    BY <1>2, <2>5 DEF Target
  <2> QED
    BY <1>1, <1>2, <2>4, <2>6, <2>7, <2>8 DEF TargetOK, TargetFit
<1>4. CASE p = "retired"
  <2> DEFINE s == [target.retired EXCEPT !.run = r]
  <2>1. target.retired # None /\ Rendered(p) = target.retired
    BY <1>1, <1>4 DEF Rendered, NoMedia
  <2>2. target.retired \in Source /\ SourceOK(target.retired) /\ ~target.retired.mine
    BY <1>2, <2>1 DEF TargetOK, TargetFit, Target
  <2>3. s \in Source
    BY <2>2 DEF Source
  <2>4. /\ s.run = r /\ s.kind = target.retired.kind /\ s.asset = target.retired.asset
        /\ s.mine = target.retired.mine /\ s.fresh = target.retired.fresh
    BY <2>2 DEF Source
  <2>5. target' = [target EXCEPT !.retired = s]
    BY <1>2, <1>4 DEF Target
  <2> HIDE DEF s
  <2>6. SourceOK(s)
    BY <2>1, <2>2, <2>3, <2>4 DEF SourceOK
  <2>7. target' \in Target
    BY <1>2, <2>3, <2>5 DEF Target
  <2>8. /\ target'.media = target.media /\ target'.retired = s
        /\ target'.pending = target.pending /\ target'.failed = target.failed
        /\ target'.removal = target.removal /\ target'.selection = target.selection
        /\ target'.asset = target.asset /\ target'.transfer = target.transfer
    BY <1>2, <2>5 DEF Target
  <2> QED
    BY <1>1, <1>2, <2>2, <2>4, <2>6, <2>7, <2>8 DEF TargetOK, TargetFit
<1> QED
  BY <1>3, <1>4 DEF Places

(* A renderer's step keeps the invariant. *)
LEMMA RenderStepKeeps ==
  ASSUME IInv, NEW p \in Places, NEW r \in Runs,
         Rendered(p).run \in {"running", "restarting", "late", "stopping"},
         r = "restarting" => Rendered(p).kind = "live", r # "late",
         target' = [target EXCEPT ![p].run = r],
         UNCHANGED <<main, removals, pass, prep, disposing, wire, plugged, pace>>
  PROVE  IInv'
<1>1. /\ target # None /\ TargetOK(target') /\ target'.selection = target.selection
      /\ target'.asset = target.asset /\ target'.transfer = target.transfer
      /\ target'.media.mine = target.media.mine
      /\ target'.media.asset = target.media.asset
  BY RenderedTarget
<1>2. UNCHANGED <<held, kept, requested, wanted, removals, pass, prep, disposing, wire,
                  plugged, pace>>
  BY DEF main
<1>3. target' # None
  BY <1>1, TargetIs DEF TargetOK
<1>4. RestOK'
  BY <1>2, <1>3 DEF IInv, RestOK
<1>5. StreamInv'
  BY <1>1, <1>2, <1>3 DEF IInv, StreamInv, Streams
<1>6. PrepInv' /\ BudgetInv'
  BY <1>1, <1>2, <1>3, PrepKept, BudgetKept DEF IInv
<1> QED
  BY <1>1, <1>4, <1>5, <1>6 DEF IInv

(* A renderer ends, fails, or starts over with its encoder. *)
LEMMA RenderersKeep ==
  ASSUME IInv, NEW p \in Places, RendererEnds(p) \/ RendererFails(p) \/ EncoderFails(p)
  PROVE  IInv'
<1>1. CASE RendererEnds(p)
  BY <1>1, RenderStepKeeps DEF RendererEnds, Runs
<1>2. CASE RendererFails(p)
  BY <1>2, RenderStepKeeps DEF RendererFails, Runs
<1>3. CASE EncoderFails(p)
  BY <1>3, RenderStepKeeps DEF EncoderFails, Runs
<1> QED
  BY <1>1, <1>2, <1>3

(* A restarted stream is the current source's: a retired one has none. *)
LEMMA RestartStreamKeeps ==
  ASSUME IInv, NEW p \in Places, RestartStream(p)
  PROVE  IInv'
<1>1. CASE ~(Rendered(p).mine /\ ~Full(wire))
  BY <1>1, RenderStepKeeps DEF RestartStream, Runs
<1>2. CASE Rendered(p).mine /\ ~Full(wire)
  <2>1. target # None
    BY <1>2 DEF Rendered, NoMedia
  <2>2. TargetOK(target) /\ TargetFit(target)
    BY <2>1 DEF IInv, TargetOK
  <2>3. p = "media"
    BY <1>2, <2>1, <2>2 DEF Places, Rendered, NoMedia, TargetOK
  <2>4. target.media \in Source /\ SourceOK(target.media) /\ WireOK(wire)
    BY <2>2 DEF TargetFit, Target, IInv, StreamInv
  <2>5. Rendered(p) = target.media
    BY <2>1, <2>3, <2>4, NoneAssumption DEF Rendered
  <2> DEFINE d == Disowned(target)
             r == IF target.media.run = "late" THEN "stopping" ELSE "running"
             s == [[d.media EXCEPT !.mine = TRUE] EXCEPT !.run = r]
  <2>6. /\ target' = [[d EXCEPT !["media"].mine = TRUE] EXCEPT !["media"].run = r]
        /\ wire' = Submitted(wire, Live)
        /\ target.media.run \in {"restarting", "late"}
        /\ UNCHANGED <<held, kept, requested, wanted, removals, pass, prep, disposing,
                       plugged, pace>>
    BY <1>2, <2>3, <2>5 DEF RestartStream, main
  <2>7. TargetOK(d) /\ SameTarget(d, target) /\ d.media = Disown(target.media)
    BY <2>2, DisownedTarget
  <2>8. /\ d \in Target /\ d.media \in Source /\ SourceOK(d.media)
        /\ d.media.kind = "live" /\ d.media.asset = Live
    BY <2>4, <2>6, <2>7, DisownSource DEF SourceOK, SameTarget
  <2>9. r \in Runs /\ r \notin {"restarting", "late"} /\ TRUE \in BOOLEAN
    BY DEF Runs
  <2> HIDE DEF d, r
  <2>10. s \in Source
    BY <2>8, <2>9 DEF Source
  <2>11. /\ s.mine /\ s.asset = Live /\ s.kind = "live" /\ s.run = r
         /\ s.fresh = d.media.fresh
    BY <2>8 DEF Source
  <2>12. target' = [d EXCEPT !.media = s]
    BY <2>6, <2>8 DEF Target
  <2> HIDE DEF s
  <2>13. SourceOK(s)
    BY <2>8, <2>9, <2>10, <2>11 DEF SourceOK
  <2>14. target' \in Target
    BY <2>8, <2>10, <2>12 DEF Target
  <2>15. /\ target'.media = s /\ target'.retired = d.retired
         /\ target'.pending = d.pending /\ target'.failed = d.failed
         /\ target'.removal = d.removal /\ target'.selection = d.selection
         /\ target'.asset = d.asset /\ target'.transfer = d.transfer
    BY <2>8, <2>12 DEF Target
  <2>16. TargetOK(target')
    BY <2>7, <2>8, <2>11, <2>13, <2>14, <2>15 DEF TargetOK, TargetFit
  <2>17. target' # None
    BY <2>16, TargetIs DEF TargetOK
  <2>18. /\ WireOK(wire') /\ OneStream(wire') /\ Carries(wire', Live)
    BY <1>2, <2>4, <2>6, SubmittedWire DEF Assets
  <2>19. StreamInv'
    BY <2>11, <2>15, <2>17, <2>18, StreamNew
  <2>20. RestOK'
    BY <2>6, <2>17 DEF IInv, RestOK
  <2>21. PrepInv' /\ BudgetInv'
    BY <2>1, <2>6, <2>7, <2>15, <2>17, PrepKept, BudgetKept DEF IInv, SameTarget
  <2> QED
    BY <2>16, <2>19, <2>20, <2>21 DEF IInv
<1> QED
  BY <1>1, <1>2

(* Disposal and the plug touch no target. *)
LEMMA PlugKeeps ==
  ASSUME IInv, Dispose \/ Unplug \/ Replug
  PROVE  IInv'
<1>1. UNCHANGED <<target, held, kept, requested, wanted, removals, pass, prep, wire, pace>>
  BY DEF Dispose, Unplug, Replug, main
<1>2. disposing' \in 0..2 /\ plugged' \in BOOLEAN
  <2>1. CASE Dispose
    BY <2>1 DEF IInv, RestOK, Dispose
  <2>2. CASE Unplug \/ Replug
    BY <2>2 DEF IInv, RestOK, Unplug, Replug
  <2> QED
    BY <2>1, <2>2
<1> QED
  BY <1>1, <1>2 DEF IInv, RestOK, PrepInv, StreamInv, BudgetInv, Budget

(* Time passes for the budget and for the history alike. *)
LEMMA AgedPaid ==
  ASSUME NEW r \in Transfer, NEW p \in Pace, Paid(r, p), NEW q,
         q = [p EXCEPT !.age = IF @ < Long THEN @ + 1 ELSE @]
  PROVE  /\ Aged(r) \in Transfer /\ q \in Pace /\ Paid(Aged(r), q)
         /\ r.since = Long => Paid(r, q)
<1> DEFINE since == IF r.since < Long THEN r.since + 1 ELSE r.since
           due == IF r.due = None \/ r.due = 0 THEN r.due ELSE r.due - 1
           age == IF p.age < Long THEN p.age + 1 ELSE p.age
<1>1. /\ Attempts \in Nat /\ Long \in Nat /\ r.attempts \in 0..Attempts
      /\ r.since \in 0..Long /\ r.due \in Nat \cup {None} /\ None \notin Nat
      /\ p.age \in 0..Long /\ p.spent \in Nat /\ p.allowed \in Nat
  BY Constants DEF Transfer, Pace
<1>2. since \in 0..Long /\ age \in 0..Long
  BY <1>1
<1>3. due \in Nat \cup {None} /\ (due = None <=> r.due = None)
  <2>1. CASE r.due = None \/ r.due = 0
    BY <1>1, <2>1
  <2>2. CASE ~(r.due = None \/ r.due = 0)
    <3>1. r.due \in Nat /\ r.due # 0
      BY <1>1, <2>2
    <3>2. r.due - 1 \in Nat
      BY <3>1
    <3> QED
      BY <1>1, <2>2, <3>2
  <2> QED
    BY <2>1, <2>2
<1>4. /\ r.since = p.age => since = age
      /\ r.since = Long => since = Long
      /\ p.age = Long => age = Long
  BY <1>1
<1>5. Aged(r) = [r EXCEPT !.since = since, !.due = due] /\ q = [p EXCEPT !.age = age]
  BY DEF Aged
<1> HIDE DEF since, due, age
<1>6. /\ Aged(r) \in Transfer /\ Aged(r).since = since /\ Aged(r).due = due
      /\ Aged(r).attempts = r.attempts
  BY <1>2, <1>3, <1>5 DEF Transfer
<1>7. q \in Pace /\ q.age = age /\ q.spent = p.spent /\ q.allowed = p.allowed
  BY <1>2, <1>5 DEF Pace
<1>8. Due(Aged(r)) = Due(r)
  BY <1>3, <1>6 DEF Due
<1>9. Paid(Aged(r), q)
  BY <1>4, <1>6, <1>7, <1>8 DEF Paid
<1>10. r.since = Long => Paid(r, q)
  BY <1>4, <1>7 DEF Paid
<1> QED
  BY <1>6, <1>7, <1>9, <1>10

(* A healthy period may pass while the LCD is attached or away. *)
LEMMA TickKeeps ==
  ASSUME IInv, Tick
  PROVE  IInv'
<1>1. /\ target' = IF target = None THEN None ELSE [target EXCEPT !.transfer = Aged(@)]
      /\ kept' = IF kept = None THEN None ELSE Aged(kept)
      /\ pace' = [pace EXCEPT !.age = IF @ < Long THEN @ + 1 ELSE @]
      /\ UNCHANGED <<held, requested, wanted, removals, pass, prep, disposing, wire, plugged>>
  BY DEF Tick
<1>2. pace \in Pace /\ kept \in Transfer \cup {None}
  BY DEF IInv, RestOK
<1>3. CASE target # None
  <2>1. TargetOK(target) /\ target \in Target /\ target.transfer \in Transfer
    BY <1>3, TargetIs DEF IInv, TargetOK, Target
  <2>2. kept = None /\ kept' = None /\ Paid(target.transfer, pace)
    BY <1>1, <1>3 DEF IInv, BudgetInv, Budget
  <2>3. /\ Aged(target.transfer) \in Transfer /\ pace' \in Pace
        /\ Paid(Aged(target.transfer), pace')
    BY <1>1, <1>2, <2>1, <2>2, AgedPaid
  <2>4. target' = [target EXCEPT !.transfer = Aged(target.transfer)]
    BY <1>1, <1>3
  <2>5. target' \in Target
    BY <2>1, <2>3, <2>4 DEF Target
  <2>6. /\ target'.media = target.media /\ target'.retired = target.retired
        /\ target'.pending = target.pending /\ target'.failed = target.failed
        /\ target'.removal = target.removal /\ target'.selection = target.selection
        /\ target'.asset = target.asset /\ target'.transfer = Aged(target.transfer)
    BY <2>1, <2>4 DEF Target
  <2>7. TargetOK(target')
    BY <2>1, <2>5, <2>6 DEF TargetOK, TargetFit
  <2>8. target' # None
    BY <2>7, TargetIs DEF TargetOK
  <2>9. RestOK'
    BY <1>1, <2>2, <2>3, <2>8 DEF IInv, RestOK
  <2>10. PrepInv'
    BY <1>1, <1>3, <2>6, PrepKept DEF IInv
  <2>11. StreamInv'
    BY <1>1, <1>3, <2>6, <2>8 DEF IInv, StreamInv, Streams
  <2>12. BudgetInv'
    BY <2>2, <2>3, <2>6, <2>8 DEF BudgetInv, Budget
  <2> QED
    BY <2>7, <2>9, <2>10, <2>11, <2>12 DEF IInv
<1>4. CASE target = None
  <2>1. target' = None
    BY <1>1, <1>4
  <2>2. Paid(Budget, pace)
    BY DEF IInv, BudgetInv
  <2>3. kept' \in Transfer \cup {None} /\ pace' \in Pace /\ Paid(Budget', pace')
    <3>1. CASE kept = None
      <4>1. Budget = NewTransfer /\ Budget' = NewTransfer /\ kept' = None
        BY <1>1, <1>4, <2>1, <3>1 DEF Budget
      <4>2. NewTransfer \in Transfer /\ NewTransfer.since = Long
        BY NewTransferType DEF NewTransfer
      <4> QED
        BY <1>1, <1>2, <2>2, <4>1, <4>2, AgedPaid
    <3>2. CASE kept # None
      <4>1. Budget = kept /\ kept' = Aged(kept) /\ kept \in Transfer
        BY <1>1, <1>2, <1>4, <3>2 DEF Budget
      <4>2. kept' \in Transfer /\ pace' \in Pace /\ Paid(kept', pace')
        BY <1>1, <1>2, <2>2, <4>1, AgedPaid
      <4>3. Budget' = kept'
        BY <2>1, <4>2, NoneAssumption DEF Budget
      <4> QED
        BY <4>2, <4>3
    <3> QED
      BY <3>1, <3>2
  <2>4. RestOK'
    BY <1>1, <1>4, <2>1, <2>3 DEF IInv, RestOK
  <2> QED
    BY <1>1, <1>4, <2>1, <2>3, <2>4 DEF IInv, PrepInv, StreamInv, Streams, BudgetInv
<1> QED
  BY <1>3, <1>4

-----------------------------------------------------------------------------
(* No LCD is attached yet. *)
LEMMA InitInv ==
  ASSUME Init
  PROVE  IInv
<1>1. /\ target = None /\ held = FALSE /\ kept = None
      /\ requested \in Assets /\ wanted \in Assets
      /\ removals = {} /\ pass = "collect" /\ prep = Idle /\ disposing = 0
      /\ wire = NoWire /\ plugged = TRUE
      /\ pace = [age |-> Long, spent |-> 0, allowed |-> Attempts]
  BY DEF Init, Fresh
<1>2. Attempts \in Nat /\ Long \in 0..Long /\ 0 \in Nat
  BY Constants
<1>3. pace \in Pace
  BY <1>1, <1>2 DEF Pace
<1>4. /\ prep \in Preps
      /\ PrepInv
  BY <1>1 DEF Idle, PrepInv, Preps
<1>5. RestOK
  <2>1. removals \subseteq Tokens /\ IsFiniteSet(removals)
    BY <1>1, FS_EmptySet
  <2>2. held \in BOOLEAN /\ plugged \in BOOLEAN
    BY <1>1
  <2>3. disposing \in 0..2
    BY <1>1
  <2> QED
    BY <1>1, <1>3, <1>4, <2>1, <2>2, <2>3 DEF RestOK
<1>6. StreamInv
  BY <1>1, NoWireOK, SilentWire DEF StreamInv, Streams
<1>7. BudgetInv
  <2>1. Budget = NewTransfer
    BY <1>1 DEF Budget
  <2>2. NewTransfer.since = Long /\ NewTransfer.attempts = 0 /\ Due(NewTransfer) = 0
    BY DEF NewTransfer, Due
  <2> QED
    BY <1>1, <1>2, <2>1, <2>2 DEF BudgetInv, Paid
<1> QED
  BY <1>1, <1>4, <1>5, <1>6, <1>7 DEF IInv

(* Nothing happens. *)
LEMMA StutterInv ==
  ASSUME IInv, UNCHANGED vars
  PROVE  IInv'
BY DEF vars, main, IInv, RestOK, PrepInv, StreamInv, BudgetInv, Budget

(* Whatever is done next, by whatever thread, the invariant is kept. *)
LEMMA StepInv ==
  ASSUME IInv, EndlessTokens, Next
  PROVE  IInv'
<1>1. CASE \E a \in Assets : Save(a)
  BY <1>1, SaveKeeps
<1>2. CASE AssetReady \/ RetryMedia \/ SetBrightness
  BY <1>2, AssetReadyKeeps, RetryMediaKeeps, SetBrightnessKeeps
<1>3. CASE MainLoop
  BY <1>3, TakeTargetKeeps, PutBackKeeps, DetachKeeps, AttachKeeps, ForgetBudgetKeeps,
     RemoveFailedKeeps DEF MainLoop, Refresh
<1>4. CASE Collect \/ Serve
  BY <1>4, CollectKeeps, ServeDueKeeps, ServeNothingKeeps, ServeFailuresKeep,
     ServeStreamKeeps, ServeFrameKeeps DEF Serve
<1>5. CASE Prepares \/ PrepEnds
  BY <1>5, PreparationKeeps DEF Prepares
<1>6. CASE Sends \/ FileEnds
  BY <1>6, TakeMessageKeeps, StreamStepsKeep DEF Sends
<1>7. CASE Renders \/ \E p \in Places : RendererFails(p) \/ EncoderFails(p)
  BY <1>7, RenderersKeep, RestartStreamKeeps DEF Renders
<1>8. CASE Dispose \/ Unplug \/ Replug
  BY <1>8, PlugKeeps
<1>9. CASE Tick
  BY <1>9, TickKeeps
<1> QED
  BY <1>1, <1>2, <1>3, <1>4, <1>5, <1>6, <1>7, <1>8, <1>9 DEF Next

(* The inductive invariant holds in every state the LCD and its threads reach. *)
THEOREM Invariance ==
  ASSUME EndlessTokens
  PROVE  Spec => []IInv
<1>1. Init => IInv
  BY InitInv
<1>2. IInv /\ [Next]_vars => IInv'
  BY StepInv, StutterInv
<1> QED
  BY <1>1, <1>2, PTL DEF Spec

(* Every variable keeps its type, and the sender's queue its bound. *)
THEOREM TypeCorrect ==
  ASSUME EndlessTokens
  PROVE  Spec => []TypeOK
<1>1. IInv => TypeOK
  <2> SUFFICES ASSUME IInv
               PROVE  TypeOK
    OBVIOUS
  <2>1. target \in Target \cup {None}
    BY TargetIs DEF IInv, TargetOK
  <2>2. /\ wire.queue \in Seq(Message) /\ Len(wire.queue) <= Capacity
        /\ wire.active \in Message /\ wire.failure \in Failures \cup {None}
        /\ wire.frames \in Failures \cup {None} /\ wire.latched \in BOOLEAN
    BY DEF IInv, StreamInv, WireOK, Wires
  <2> QED
    BY <2>1, <2>2 DEF IInv, RestOK, Pace, TypeOK, Preps
<1> QED
  BY <1>1, Invariance, PTL

(* A target that waits for no source shows the media it was last given,      *)
(* whichever preparations were still under way when that changed.            *)
THEOREM SelectionPlays ==
  ASSUME EndlessTokens
  PROVE  Spec => []PlaysTheSelection
<1>1. IInv => PlaysTheSelection
  BY DEF IInv, TargetOK, TargetFit, PlaysTheSelection
<1> QED
  BY <1>1, Invariance, PTL

(* What the device takes as a stream is one stream, the current source's,    *)
(* although renderers restart encoders of sources that were just replaced.   *)
THEOREM OneSourceStreams ==
  ASSUME EndlessTokens
  PROVE  Spec => []StreamIsTheSources
<1>1. IInv => StreamIsTheSources
  <2> SUFFICES ASSUME IInv
               PROVE  StreamIsTheSources
    OBVIOUS
  <2> DEFINE S == {i \in DOMAIN wire.queue :
                     wire.queue[i].kind = "stream" /\ wire.queue[i].live}
                  \cup (IF Streaming /\ wire.active.live THEN {0} ELSE {})
  <2>1. /\ WireOK(wire) /\ OneStream(wire) /\ Streams(target, wire)
        /\ target # None => TargetOK(target)
    BY DEF IInv, StreamInv
  <2>2. \A m \in Messages : m.kind = "stream" /\ m.live =>
          target # None /\ target.media.mine /\ target.media.asset = m.asset
    BY <2>1 DEF Messages, Streams, Silent, Carries, Lives
  <2>3. target # None /\ target.retired # None => ~target.retired.mine
    BY <2>1 DEF TargetOK
  <2>4. \A i, j \in S : i = j
    BY <2>1 DEF OneStream, Lives, Streaming
  <2>5. S = {} \/ \E x : S = {x}
    <3>1. ASSUME NEW x \in S
          PROVE  S = {x}
      BY <2>4, <3>1
    <3> HIDE DEF S
    <3> QED
      BY <3>1
  <2>6. Cardinality(S) <= 1
    <3> HIDE DEF S
    <3>1. Cardinality(S) \in {0, 1}
      BY <2>5, FS_EmptySet, FS_Singleton
    <3> QED
      BY <3>1
  <2> QED
    BY <2>2, <2>3, <2>6 DEF StreamIsTheSources
<1> QED
  BY <1>1, Invariance, PTL

(* An LCD whose transfers keep being interrupted is recreated a limited      *)
(* number of times, over all the targets it gets.                            *)
THEOREM RecreationsLimited ==
  ASSUME EndlessTokens
  PROVE  Spec => []RecreationsBounded
<1>1. IInv => RecreationsBounded
  <2> SUFFICES ASSUME IInv
               PROVE  RecreationsBounded
    OBVIOUS
  <2> DEFINE r == Budget
  <2>1. r \in Transfer
    BY NewTransferType DEF IInv, RestOK, TargetOK, TargetFit, Target, Budget
  <2>2. Paid(r, pace) /\ pace \in Pace
    BY DEF IInv, RestOK, BudgetInv
  <2> HIDE DEF r
  <2>3. /\ Attempts \in Nat /\ r.attempts \in 0..Attempts /\ Due(r) \in 0..1
        /\ pace.spent \in Nat /\ pace.allowed \in Nat
    BY <2>1, <2>2, Constants DEF Transfer, Pace, Due
  <2> QED
    BY <2>2, <2>3 DEF Paid, RecreationsBounded
<1> QED
  BY <1>1, Invariance, PTL

=============================================================================
