----------------------- MODULE WirelessRecoveryProofs -----------------------
(***************************************************************************)
(* The dongles pass from one connection to the next without being shared,   *)
(* no controller is left with a lost one, and resets keep their distance:   *)
(* for any ladder of three rungs, any healthy period and any loads.         *)
(***************************************************************************)
EXTENDS WirelessRecovery, TLAPS

(* A worker, whatever it may do. *)
AnyWorker ==
  [at : Stages, allow : BOOLEAN, again : BOOLEAN, cancel : BOOLEAN,
   reset : Dongles \cup {None}, ok : BOOLEAN]

(* The types the proofs need. *)
Typed ==
  /\ worker \in AnyWorker
  /\ main \in {"idle", "stopping", "released", "joining", "closing", "down"}
  /\ link \in [up : BOOLEAN, ever : BOOLEAN, flagged : Dongles \cup {None}]
  /\ session \in {"none", "up", "silent", "dead"}
  /\ open \subseteq {"current", "stale"}
  /\ clone \in [Consumers -> {"none", "current", "stale"}]
  /\ op \in [by : Consumers, on : {"current", "stale"}] \cup {None}

(* Nobody but the main loop and its worker can get at the dongles. *)
NoClone ==
  /\ \A c \in Consumers : clone[c] # "current"
  /\ op # None => op.on # "current"

Cleared == NoClone /\ session = "none" /\ open = {}

(* What a recovery worker has to itself, and has opened. *)
WorkerInv ==
  /\ worker.at # "none" => NoClone /\ ~link.up
  /\ worker.at \in {"connect", "reset", "poll"} => session = "none"
  /\ worker.at \in {"connect", "reset"} => open = {}
  /\ worker.at = "done" /\ ~worker.ok => session = "none" /\ open = {}
  /\ worker.ok => worker.at = "done" /\ session # "none"

(* While the link is down everything of the lost connection is gone, once    *)
(* the controller has been stopped; so it is after a shutdown.               *)
MainInv ==
  /\ main \in {"stopping", "released"} => ~link.up /\ worker.at = "none"
  /\ ~link.up /\ worker.at = "none" /\ main # "stopping" => Cleared
  /\ main \in {"closing", "down"} => worker.at = "none"
  /\ main = "down" => Cleared

(* While it is up there is a connection, and every clone is one of it. *)
LinkInv ==
  link.up /\ main = "idle" =>
    session # "none" /\ \A c \in Consumers : clone[c] # "stale"

(* No dongle is open for an earlier connection. *)
OpenInv == "stale" \notin open

IInv == Typed /\ OpenInv /\ WorkerInv /\ MainInv /\ LinkInv

-----------------------------------------------------------------------------
(* Time and the bus concern neither the worker nor a connection. *)
LEMMA ElsewhereKeeps ==
  ASSUME IInv, UNCHANGED <<worker, main, link, radio, clone, op>>
  PROVE  IInv'
BY DEF IInv, Typed, OpenInv, WorkerInv, MainInv, LinkInv, NoClone, Cleared, radio

(* A failed step ends the attempt, or goes on to a reset. *)
LEMMA AttemptOverEffect ==
  ASSUME Typed, NEW blamed, AttemptOver(blamed)
  PROVE  /\ worker' \in AnyWorker
         /\ worker'.ok = worker.ok
         /\ worker'.at \in {"done", "reset"}
<1>1. worker \in AnyWorker
  BY DEF Typed
<1>2. CASE Goto("done")
  BY <1>1, <1>2 DEF Goto, AnyWorker, Stages
<1>3. ASSUME NEW target, target = ResetTarget(blamed), target # None,
             worker' = [worker EXCEPT !.at = "reset", !.reset = target]
      PROVE  /\ worker' \in AnyWorker
             /\ worker'.ok = worker.ok
             /\ worker'.at \in {"done", "reset"}
  <2>1. target \in Dongles
    BY <1>3 DEF ResetTarget, Dongles
  <2> QED
    BY <1>1, <1>3, <2>1 DEF AnyWorker, Stages
<1> QED
  BY <1>2, <1>3 DEF AttemptOver

(* The worker that begins, or none. *)
LEMMA NewWorkerType ==
  /\ NoWorker \in AnyWorker
  /\ \A allow \in BOOLEAN : [NoWorker EXCEPT !.at = "connect", !.allow = allow] \in AnyWorker
BY DEF NoWorker, AnyWorker, Stages

(* A link that fails is still the connection. *)
LEMMA GoesSilentKeeps ==
  ASSUME IInv, GoesSilent
  PROVE  IInv'
<1>1. Typed'
  BY DEF IInv, Typed, GoesSilent, daemon
<1>2. OpenInv'
  BY DEF IInv, OpenInv, GoesSilent
<1>3. WorkerInv'
  BY DEF IInv, WorkerInv, GoesSilent, NoClone, daemon
<1>4. MainInv'
  BY DEF IInv, MainInv, GoesSilent, Cleared, daemon
<1>5. LinkInv'
  BY DEF IInv, LinkInv, GoesSilent, daemon
<1> QED
  BY <1>1, <1>2, <1>3, <1>4, <1>5 DEF IInv

(* A connection that gives up is still the main loop's, or the worker's. *)
LEMMA StopsPollingKeeps ==
  ASSUME IInv, StopsPolling
  PROVE  IInv'
<1>1. Typed'
  BY DEF IInv, Typed, StopsPolling, daemon
<1>2. OpenInv'
  BY DEF IInv, OpenInv, StopsPolling
<1>3. WorkerInv'
  BY DEF IInv, WorkerInv, StopsPolling, NoClone, daemon
<1>4. MainInv'
  BY DEF IInv, MainInv, StopsPolling, Cleared, daemon
<1>5. LinkInv'
  BY DEF IInv, LinkInv, StopsPolling, daemon
<1> QED
  BY <1>1, <1>2, <1>3, <1>4, <1>5 DEF IInv

(* A clone operates on a connection that nobody has stopped. *)
LEMMA BeginOperationKeeps ==
  ASSUME IInv, NEW c \in Consumers, BeginOperation(c)
  PROVE  IInv'
<1>1. Typed'
  BY DEF IInv, Typed, BeginOperation, daemon, radio
<1>2. OpenInv'
  BY DEF IInv, OpenInv, BeginOperation, radio
<1>3. WorkerInv'
  BY DEF IInv, Typed, WorkerInv, BeginOperation, Stopped, NoClone, daemon
<1>4. MainInv'
  BY DEF IInv, Typed, MainInv, BeginOperation, Stopped, NoClone, Cleared, daemon
<1>5. LinkInv'
  BY DEF IInv, LinkInv, BeginOperation, daemon, radio
<1> QED
  BY <1>1, <1>2, <1>3, <1>4, <1>5 DEF IInv

(* Only the current connection opens a dongle, and never beside the worker. *)
LEMMA SentKeeps ==
  ASSUME IInv, Sent
  PROVE  IInv'
<1>1. Typed'
  BY DEF IInv, Typed, Sent, daemon
<1>2. OpenInv'
  BY DEF IInv, OpenInv, Sent, Stopped
<1>3. WorkerInv'
  BY DEF IInv, Typed, WorkerInv, Sent, Stopped, NoClone, daemon
<1>4. MainInv'
  BY DEF IInv, Typed, MainInv, Sent, Stopped, NoClone, Cleared, daemon
<1>5. LinkInv'
  BY DEF IInv, LinkInv, Sent, daemon
<1> QED
  BY <1>1, <1>2, <1>3, <1>4, <1>5 DEF IInv

(* An operation that fails opens nothing. *)
LEMMA NotSentKeeps ==
  ASSUME IInv, NotSent
  PROVE  IInv'
<1>1. Typed'
  BY DEF IInv, Typed, NotSent, daemon
<1>2. OpenInv'
  BY DEF IInv, OpenInv, NotSent
<1>3. WorkerInv'
  BY DEF IInv, WorkerInv, NotSent, NoClone, daemon
<1>4. MainInv'
  BY DEF IInv, MainInv, NotSent, NoClone, Cleared, daemon
<1>5. LinkInv'
  BY DEF IInv, LinkInv, NotSent, daemon
<1> QED
  BY <1>1, <1>2, <1>3, <1>4, <1>5 DEF IInv

(* The consumers get the connection of the link, or none that can send. *)
LEMMA RebuildKeeps ==
  ASSUME IInv, Rebuild
  PROVE  IInv'
<1>1. Typed'
  BY DEF IInv, Typed, Rebuild, HandOut, daemon, radio
<1>2. OpenInv'
  BY DEF IInv, OpenInv, Rebuild, radio
<1>3. WorkerInv'
  BY DEF IInv, WorkerInv, Rebuild, HandOut, Live, NoClone, daemon, radio
<1>4. MainInv'
  BY DEF IInv, MainInv, Rebuild, HandOut, Live, NoClone, Cleared, daemon, radio
<1>5. LinkInv'
  BY DEF IInv, WorkerInv, LinkInv, Rebuild, HandOut, Live, daemon, radio
<1> QED
  BY <1>1, <1>2, <1>3, <1>4, <1>5 DEF IInv

(* The link is marked as lost before its controller is stopped. *)
LEMMA LoseLinkKeeps ==
  ASSUME IInv, LoseLink
  PROVE  IInv'
<1>1. Typed'
  BY DEF IInv, Typed, LoseLink, radio
<1>2. OpenInv'
  BY DEF IInv, OpenInv, LoseLink, radio
<1>3. WorkerInv'
  BY DEF IInv, WorkerInv, LoseLink
<1>4. MainInv'
  BY DEF MainInv, LoseLink
<1>5. LinkInv'
  BY DEF LinkInv, LoseLink
<1> QED
  BY <1>1, <1>2, <1>3, <1>4, <1>5 DEF IInv

(* The stopped controller waits for the operation under way. *)
LEMMA ReleaseKeeps ==
  ASSUME IInv, Release
  PROVE  IInv'
<1>1. Typed'
  BY DEF IInv, Typed, Release, Released
<1>2. OpenInv'
  BY DEF IInv, OpenInv, Release, Released
<1>3. WorkerInv'
  BY DEF IInv, WorkerInv, MainInv, Release
<1>4. MainInv'
  BY DEF IInv, Typed, OpenInv, MainInv, Release, Released, NoClone, Cleared
<1>5. LinkInv'
  BY DEF LinkInv, Release
<1> QED
  BY <1>1, <1>2, <1>3, <1>4, <1>5 DEF IInv

(* A worker starts when everything of the lost connection is gone. *)
LEMMA SuperviseKeeps ==
  ASSUME IInv, Supervise
  PROVE  IInv'
<1>1. Typed'
  <2>1. worker' \in AnyWorker
    BY NewWorkerType DEF IInv, Typed, Supervise, AllowReset, Settled
  <2>2. link' \in [up : BOOLEAN, ever : BOOLEAN, flagged : Dongles \cup {None}]
        /\ link'.up = link.up
    BY DEF IInv, Typed, Supervise, Observed
  <2>3. clone' \in [Consumers -> {"none", "current", "stale"}]
    BY DEF IInv, Typed, Supervise
  <2> QED
    BY <2>1, <2>2, <2>3 DEF IInv, Typed, Supervise, radio
<1>2. OpenInv'
  BY DEF IInv, OpenInv, Supervise, radio
<1>3. WorkerInv'
  <2>1. ~link.up /\ Cleared
    BY DEF IInv, MainInv, Supervise
  <2>2. link'.up = link.up
    BY DEF Supervise, Observed
  <2>3. worker' = worker \/ (worker'.at = "connect" /\ ~worker'.ok)
    BY DEF Supervise, NoWorker
  <2>4. (\A c \in Consumers : clone'[c] # "current") /\ UNCHANGED <<op, session, open>>
    BY <2>1 DEF Supervise, Cleared, NoClone, radio
  <2> QED
    BY <2>1, <2>2, <2>3, <2>4 DEF IInv, WorkerInv, Supervise, NoClone, Cleared
<1>4. MainInv'
  BY DEF IInv, MainInv, Supervise, NoClone, Cleared, radio
<1>5. LinkInv'
  <2>1. ~link.up
    BY DEF IInv, MainInv, Supervise
  <2>2. link'.up = link.up
    BY DEF Supervise, Observed
  <2> QED
    BY <2>1, <2>2 DEF LinkInv, Supervise
<1> QED
  BY <1>1, <1>2, <1>3, <1>4, <1>5 DEF IInv

(* Everybody is given the new connection. *)
LEMMA AttemptSucceedsKeeps ==
  ASSUME IInv, AttemptSucceeds
  PROVE  IInv'
<1>1. Typed'
  BY DEF IInv, Typed, AttemptSucceeds, HandOut, NoWorker, AnyWorker, Stages, radio
<1>2. OpenInv'
  BY DEF IInv, OpenInv, AttemptSucceeds, radio
<1>3. WorkerInv'
  BY DEF WorkerInv, AttemptSucceeds, NoWorker
<1>4. MainInv'
  BY DEF MainInv, AttemptSucceeds
<1>5. LinkInv'
  BY DEF IInv, WorkerInv, LinkInv, AttemptSucceeds, HandOut, radio
<1> QED
  BY <1>1, <1>2, <1>3, <1>4, <1>5 DEF IInv

(* A failed attempt has closed what it opened. *)
LEMMA AttemptFailsKeeps ==
  ASSUME IInv, AttemptFails
  PROVE  IInv'
<1>1. Typed'
  BY DEF IInv, Typed, AttemptFails, Observed, NoWorker, AnyWorker, Stages, radio
<1>2. OpenInv'
  BY DEF IInv, OpenInv, AttemptFails, radio
<1>3. WorkerInv'
  BY DEF WorkerInv, AttemptFails, NoWorker
<1>4. MainInv'
  BY DEF IInv, WorkerInv, MainInv, AttemptFails, NoClone, Cleared, radio
<1>5. LinkInv'
  BY DEF IInv, WorkerInv, LinkInv, AttemptFails, Observed
<1> QED
  BY <1>1, <1>2, <1>3, <1>4, <1>5 DEF IInv

(* A shutdown cancels the worker. *)
LEMMA BeginShutdownKeeps ==
  ASSUME IInv, BeginShutdown
  PROVE  IInv'
<1>1. Typed'
  BY DEF IInv, Typed, BeginShutdown, AnyWorker, radio
<1>2. OpenInv'
  BY DEF IInv, OpenInv, BeginShutdown, radio
<1>3. WorkerInv'
  BY DEF IInv, WorkerInv, BeginShutdown, NoClone, radio
<1>4. MainInv'
  BY DEF IInv, MainInv, BeginShutdown, NoClone, Cleared, radio
<1>5. LinkInv'
  BY DEF LinkInv, BeginShutdown
<1> QED
  BY <1>1, <1>2, <1>3, <1>4, <1>5 DEF IInv

(* The worker's controller is dropped. *)
LEMMA JoinWorkerKeeps ==
  ASSUME IInv, JoinWorker
  PROVE  IInv'
<1>1. Typed'
  BY DEF IInv, Typed, JoinWorker, NoWorker, AnyWorker, Stages, radio
<1>2. OpenInv'
  BY DEF IInv, OpenInv, JoinWorker, radio
<1>3. WorkerInv'
  BY DEF WorkerInv, JoinWorker, NoWorker
<1>4. MainInv'
  BY RecoveryAssumption DEF IInv, Typed, OpenInv, WorkerInv, MainInv, JoinWorker,
    NoWorker, NoClone, Cleared, radio
<1>5. LinkInv'
  BY DEF LinkInv, JoinWorker
<1> QED
  BY <1>1, <1>2, <1>3, <1>4, <1>5 DEF IInv

(* The controller is stopped. *)
LEMMA CloseKeeps ==
  ASSUME IInv, Close
  PROVE  IInv'
<1>1. Typed'
  BY DEF IInv, Typed, Close, Released
<1>2. OpenInv'
  BY DEF IInv, OpenInv, Close, Released
<1>3. WorkerInv'
  BY DEF IInv, WorkerInv, MainInv, Close
<1>4. MainInv'
  BY DEF IInv, Typed, OpenInv, MainInv, Close, Released, NoClone, Cleared
<1>5. LinkInv'
  BY DEF LinkInv, Close
<1> QED
  BY <1>1, <1>2, <1>3, <1>4, <1>5 DEF IInv

(* The worker opens the dongles of its own connection. *)
LEMMA ConnectOkKeeps ==
  ASSUME IInv, ConnectOk
  PROVE  IInv'
<1>1. Typed'
  BY DEF IInv, Typed, ConnectOk, Goto, AnyWorker, Stages
<1>2. OpenInv'
  BY DEF IInv, OpenInv, ConnectOk
<1>3. WorkerInv'
  BY DEF IInv, WorkerInv, ConnectOk, Goto, NoClone
<1>4. MainInv'
  BY DEF IInv, MainInv, ConnectOk, Goto
<1>5. LinkInv'
  BY DEF IInv, LinkInv, ConnectOk
<1> QED
  BY <1>1, <1>2, <1>3, <1>4, <1>5 DEF IInv

(* A failed connection opens nothing. *)
LEMMA ConnectFailsKeeps ==
  ASSUME IInv, ConnectFails
  PROVE  IInv'
<1>1. Typed'
  <2>1. worker' \in AnyWorker /\ worker'.ok = worker.ok /\ worker'.at \in {"done", "reset"}
    BY AttemptOverEffect DEF IInv, Typed, ConnectFails, AnyWorker, Stages, Goto
  <2> QED
    BY <2>1 DEF IInv, Typed, ConnectFails, radio
<1>2. OpenInv'
  BY DEF IInv, OpenInv, ConnectFails, radio
<1>3. WorkerInv'
  <2>1. worker' \in AnyWorker /\ worker'.ok = worker.ok /\ worker'.at \in {"done", "reset"}
    BY AttemptOverEffect DEF IInv, Typed, ConnectFails, AnyWorker, Stages, Goto
  <2> QED
    BY <2>1 DEF IInv, WorkerInv, ConnectFails, NoClone, radio
<1>4. MainInv'
  <2>1. worker' \in AnyWorker /\ worker'.ok = worker.ok /\ worker'.at \in {"done", "reset"}
    BY AttemptOverEffect DEF IInv, Typed, ConnectFails, AnyWorker, Stages, Goto
  <2> QED
    BY <2>1 DEF IInv, MainInv, ConnectFails
<1>5. LinkInv'
  BY DEF IInv, WorkerInv, LinkInv, ConnectFails
<1> QED
  BY <1>1, <1>2, <1>3, <1>4, <1>5 DEF IInv

(* The new connection is up. *)
LEMMA PollOkKeeps ==
  ASSUME IInv, PollOk
  PROVE  IInv'
<1>1. Typed'
  BY DEF IInv, Typed, PollOk, AnyWorker, Stages
<1>2. OpenInv'
  BY DEF IInv, OpenInv, PollOk
<1>3. WorkerInv'
  BY DEF IInv, WorkerInv, PollOk, NoClone
<1>4. MainInv'
  BY DEF IInv, MainInv, PollOk
<1>5. LinkInv'
  BY DEF IInv, LinkInv, PollOk
<1> QED
  BY <1>1, <1>2, <1>3, <1>4, <1>5 DEF IInv

(* A controller whose threads fail closes the dongles. *)
LEMMA PollFailsKeeps ==
  ASSUME IInv, PollFails
  PROVE  IInv'
<1>1. Typed'
  <2>1. worker' \in AnyWorker /\ worker'.ok = worker.ok /\ worker'.at \in {"done", "reset"}
    BY AttemptOverEffect DEF IInv, PollFails
  <2> QED
    BY <2>1 DEF IInv, Typed, PollFails
<1>2. OpenInv'
  BY DEF IInv, OpenInv, PollFails
<1>3. WorkerInv'
  <2>1. worker' \in AnyWorker /\ worker'.ok = worker.ok /\ worker'.at \in {"done", "reset"}
    BY AttemptOverEffect DEF IInv, PollFails
  <2> QED
    BY <2>1 DEF IInv, Typed, OpenInv, WorkerInv, PollFails, NoClone
<1>4. MainInv'
  <2>1. worker' \in AnyWorker /\ worker'.ok = worker.ok /\ worker'.at \in {"done", "reset"}
    BY AttemptOverEffect DEF IInv, PollFails
  <2> QED
    BY <2>1 DEF IInv, MainInv, PollFails
<1>5. LinkInv'
  BY DEF IInv, LinkInv, PollFails
<1> QED
  BY <1>1, <1>2, <1>3, <1>4, <1>5 DEF IInv

(* A dongle is reset while nobody has one open. *)
LEMMA ResetKeeps ==
  ASSUME IInv, Reset
  PROVE  IInv'
<1>1. Typed'
  BY DEF IInv, Typed, Reset, AnyWorker, Stages, radio
<1>2. OpenInv'
  BY DEF IInv, OpenInv, Reset, radio
<1>3. WorkerInv'
  BY DEF IInv, WorkerInv, Reset, NoClone, radio
<1>4. MainInv'
  BY DEF IInv, MainInv, Reset
<1>5. LinkInv'
  BY DEF IInv, WorkerInv, LinkInv, Reset
<1> QED
  BY <1>1, <1>2, <1>3, <1>4, <1>5 DEF IInv

(* A failed reset ends the attempt. *)
LEMMA ResetFailsKeeps ==
  ASSUME IInv, ResetFails
  PROVE  IInv'
<1>1. Typed'
  BY DEF IInv, Typed, ResetFails, Goto, AnyWorker, Stages, radio
<1>2. OpenInv'
  BY DEF IInv, OpenInv, ResetFails, radio
<1>3. WorkerInv'
  BY DEF IInv, WorkerInv, ResetFails, Goto, NoClone, radio
<1>4. MainInv'
  BY DEF IInv, MainInv, ResetFails, Goto
<1>5. LinkInv'
  BY DEF IInv, WorkerInv, LinkInv, ResetFails
<1> QED
  BY <1>1, <1>2, <1>3, <1>4, <1>5 DEF IInv

-----------------------------------------------------------------------------
(* After the startup there is one connection, or none. *)
LEMMA InitInv == Init => IInv
<1> SUFFICES ASSUME Init PROVE IInv
  OBVIOUS
<1>1. Fan \in Consumers /\ Aio \in Consumers /\ Rgb \in Consumers /\ None \notin Consumers
  BY RecoveryAssumption DEF Consumers
<1>2. Typed
  <2>1. worker \in AnyWorker
    BY NewWorkerType DEF Init
  <2>2. link \in [up : BOOLEAN, ever : BOOLEAN, flagged : Dongles \cup {None}]
    <3>1. \/ link = [up |-> TRUE, ever |-> TRUE, flagged |-> None]
          \/ link = [up |-> FALSE, ever |-> FALSE, flagged |-> None]
      BY DEF Init
    <3>2. \A b \in BOOLEAN : [up |-> b, ever |-> b, flagged |-> None]
            \in [up : BOOLEAN, ever : BOOLEAN, flagged : Dongles \cup {None}]
      OBVIOUS
    <3> QED
      BY <3>1, <3>2
  <2>3. clone \in [Consumers -> {"none", "current", "stale"}]
    BY DEF Init
  <2>4. session \in {"none", "up"} /\ open \subseteq {"current", "stale"} /\ main = "idle"
    BY DEF Init
  <2> QED
    BY <2>1, <2>2, <2>3, <2>4 DEF Init, Typed
<1>3. OpenInv /\ WorkerInv /\ MainInv /\ LinkInv
  BY DEF Init, OpenInv, WorkerInv, MainInv, LinkInv, NoClone, Cleared, NoWorker
<1> QED
  BY <1>2, <1>3 DEF IInv

(* The inductive invariant holds in every behaviour. *)
THEOREM LinkInvariance == Spec => []IInv
<1>1. IInv /\ [Next]_vars => IInv'
  <2> SUFFICES ASSUME IInv, [Next]_vars PROVE IInv'
    OBVIOUS
  <2>1. CASE Tick
    BY <2>1, ElsewhereKeeps DEF Tick
  <2>2. CASE Environment
    <3>1. ASSUME NEW d \in Dongles, Unplug(d) \/ Plug(d) \/ Hang(d) PROVE IInv'
      BY <3>1, ElsewhereKeeps DEF Unplug, Plug, Hang, daemon
    <3> QED
      BY <2>2, <3>1, GoesSilentKeeps, StopsPollingKeeps, RebuildKeeps,
         BeginShutdownKeeps, BeginOperationKeeps DEF Environment
  <2>3. CASE OperationEnds
    BY <2>3, SentKeeps, NotSentKeeps DEF OperationEnds
  <2>4. CASE WorkerStep
    BY <2>4, ConnectOkKeeps, ConnectFailsKeeps, PollOkKeeps, PollFailsKeeps,
       ResetKeeps, ResetFailsKeeps DEF WorkerStep
  <2>5. CASE MainStep
    BY <2>5, LoseLinkKeeps, ReleaseKeeps, SuperviseKeeps, AttemptSucceedsKeeps,
       AttemptFailsKeeps, JoinWorkerKeeps, CloseKeeps DEF MainStep
  <2>6. CASE UNCHANGED vars
    BY <2>6, ElsewhereKeeps DEF vars, daemon
  <2> QED
    BY <2>1, <2>2, <2>3, <2>4, <2>5, <2>6 DEF Next
<1> QED
  BY <1>1, InitInv, PTL DEF Spec

(* stop and with_transport_recovery: the dongles pass from one connection to *)
(* the next, and are closed after a shutdown.                                *)
THEOREM DonglesAreHandedOver == Spec => []DonglesHandedOver
<1>1. IInv => DonglesHandedOver
  BY DEF IInv, OpenInv, WorkerInv, MainInv, Cleared, DonglesHandedOver
<1> QED
  BY <1>1, LinkInvariance, PTL

(* finish_wireless_attempt: while the link is up no controller has a clone   *)
(* of the connection that was lost.                                          *)
THEOREM NobodyStaysBehind == Spec => []NobodyLeftBehind
<1>1. IInv => NobodyLeftBehind
  BY DEF IInv, LinkInv, NobodyLeftBehind
<1> QED
  BY <1>1, LinkInvariance, PTL

-----------------------------------------------------------------------------
(* The ladder and its types. *)

Ladder == [resets : 0..4, last : Ages \cup {None}, due : Ages \cup {None},
           up : (0..Healthy) \cup {None}]
Paces == [age : Ages, run : 0..3, up : (0..Healthy) \cup {None}]

(* The types of what Typed leaves out. *)
Timed ==
  /\ dongle \in [Dongles -> {"works", "hung", "lost", "gone"}]
  /\ known \in [Dongles -> {"absent", "here", "moved"}]
  /\ ladder \in Ladder
  /\ pace \in Paces

(* The rungs are in order, and a healthy period is no shorter than a wait. *)
LEMMA RungsInOrder ==
  /\ Backoff[1] \in Ages /\ Backoff[2] \in Ages /\ Backoff[3] \in Ages
  /\ Backoff[1] <= Backoff[2]
  /\ 0 \in Ages /\ Slow \in Ages /\ None \notin Nat /\ Ages \subseteq Nat
<1>1. Backoff \in Seq(Nat) /\ 1 \in 1..Len(Backoff) /\ 2 \in 1..Len(Backoff)
      /\ 3 \in 1..Len(Backoff)
  BY RecoveryAssumption
<1>2. Backoff[1] \in Nat /\ Backoff[2] \in Nat /\ Backoff[3] \in Nat
  BY <1>1
<1>3. None \notin Nat
  BY RecoveryAssumption
<1>4. Backoff[1] <= Backoff[2] /\ Backoff[2] <= Slow /\ Backoff[3] <= Slow /\ Slow \in Nat
  BY RecoveryAssumption
<1> QED
  BY <1>2, <1>3, <1>4 DEF Ages

(* A spacing is a number of steps, and no shorter after more resets. *)
LEMMA SpacingGrows ==
  ASSUME NEW m \in 0..4, NEW n \in 0..4, m <= n
  PROVE  Spacing(m) \in Ages /\ Spacing(m) <= Spacing(n) /\ Spacing(n) <= Slow
<1>1. \A k \in 0..4 : Spacing(k) = IF k = 0 THEN 0 ELSE IF k = 1 THEN Backoff[1]
                                   ELSE IF k = 2 THEN Backoff[2] ELSE Slow
  <2>1. ASSUME NEW k \in 0..4
        PROVE  Spacing(k) = IF k = 0 THEN 0 ELSE IF k = 1 THEN Backoff[1]
                            ELSE IF k = 2 THEN Backoff[2] ELSE Slow
    <3>1. CASE k = 0
      BY <3>1 DEF Spacing
    <3>2. CASE k = 1
      BY <3>2 DEF Spacing
    <3>3. CASE k = 2
      BY <3>3 DEF Spacing
    <3>4. CASE k \in {3, 4}
      BY <3>4 DEF Spacing
    <3> QED
      BY <2>1, <3>1, <3>2, <3>3, <3>4
  <2> QED
    BY <2>1
<1>2. Backoff[1] \in 0..Slow /\ Backoff[2] \in 0..Slow /\ Backoff[1] <= Backoff[2]
      /\ 0 <= Slow /\ Slow \in Nat
  BY RungsInOrder, RecoveryAssumption DEF Ages
<1> QED
  BY <1>1, <1>2 DEF Ages

(* What an attempt that ends leaves on the ladder. *)
LEMMA RecordEffect ==
  ASSUME Timed, NEW reset \in Dongles \cup {None}, NEW ok \in BOOLEAN
  PROVE  /\ Record(reset, ok) \in Ladder
         /\ reset # None => /\ Record(reset, ok).last = 0
                            /\ Record(reset, ok).resets >= 1
                            /\ ~Settled => \/ Record(reset, ok).resets = ladder.resets + 1
                                           \/ Record(reset, ok).resets = 4
         /\ reset = None =>
              IF Settled THEN Record(reset, ok).last = None
              ELSE /\ Record(reset, ok).last = ladder.last
                   /\ Record(reset, ok).resets = ladder.resets
         /\ Record(reset, ok).up \in {0, None}
<1> DEFINE base == IF Settled THEN NewLadder ELSE ladder
           resets == IF reset = None THEN base.resets
                     ELSE IF base.resets > Len(Backoff) THEN base.resets
                     ELSE base.resets + 1
           wait == CASE resets = 0 -> Backoff[1]
                     [] resets \in 1..Len(Backoff) -> Backoff[resets]
                     [] OTHER -> Slow
           rest == Slow - (IF base.last = None THEN Slow ELSE base.last)
           slow == reset = None /\ resets >= Len(Backoff) /\ rest > wait
<1>1. Record(reset, ok) = [resets |-> resets,
                           last |-> IF reset = None THEN base.last ELSE 0,
                           due |-> IF ok THEN None ELSE IF slow THEN rest ELSE wait,
                           up |-> IF ok THEN 0 ELSE None]
  BY DEF Record
<1>2. base \in Ladder
  BY DEF NewLadder, Timed, Ladder
<1>3. resets \in 0..4
  <2>1. base.resets \in 0..4
    BY <1>2 DEF Ladder
  <2> HIDE DEF base
  <2> QED
    BY <2>1, RecoveryAssumption
<1>4. wait \in Ages
  <2>1. CASE resets = 0
    BY <2>1, RungsInOrder, RecoveryAssumption
  <2>2. CASE resets \in 1..3
    <3>1. wait = Backoff[resets]
      <4> HIDE DEF resets
      <4> QED
        BY <2>2, RecoveryAssumption
    <3>2. resets = 1 \/ resets = 2 \/ resets = 3
      <4> HIDE DEF resets
      <4> QED
        BY <2>2
    <3> HIDE DEF wait, resets
    <3> QED
      BY <3>1, <3>2, RungsInOrder
  <2>3. CASE resets = 4
    <3> HIDE DEF resets
    <3> QED
      BY <2>3, RungsInOrder, RecoveryAssumption
  <2> HIDE DEF wait, resets
  <2> QED
    BY <1>3, <2>1, <2>2, <2>3
<1>5. base.last \in Ages \cup {None}
  BY <1>2 DEF Ladder
<1>6. rest \in Ages
  <2> HIDE DEF base
  <2> QED
    BY <1>5, RecoveryAssumption DEF Ages
<1>7. Record(reset, ok) \in Ladder
  <2> HIDE DEF base, resets, wait, rest, slow
  <2>1. (IF reset = None THEN base.last ELSE 0) \in Ages \cup {None}
    BY <1>5, RungsInOrder
  <2>2. (IF ok THEN None ELSE IF slow THEN rest ELSE wait) \in Ages \cup {None}
    BY <1>4, <1>6
  <2>3. (IF ok THEN 0 ELSE None) \in (0..Healthy) \cup {None}
    BY RecoveryAssumption
  <2> QED
    BY <1>1, <1>3, <2>1, <2>2, <2>3 DEF Ladder
<1>8. reset # None =>
         resets >= 1 /\ (~Settled => resets = ladder.resets + 1 \/ resets = 4)
  <2>1. base.resets \in 0..4 /\ (~Settled => base = ladder)
    BY <1>2 DEF Ladder
  <2> HIDE DEF base
  <2> QED
    BY <2>1, RecoveryAssumption
<1>9. reset = None => IF Settled THEN base.last = None ELSE base = ladder
  BY DEF NewLadder
<1>10. resets = base.resets \/ reset # None
  OBVIOUS
<1> HIDE DEF base, resets, wait, rest, slow
<1> QED
  BY <1>1, <1>7, <1>8, <1>9, <1>10

(* A ladder that grows older keeps its types. *)
LEMMA TickTimes ==
  ASSUME Timed, Tick
  PROVE  /\ ladder' \in Ladder /\ pace' \in Paces
         /\ ladder'.resets = ladder.resets
         /\ ladder'.last = Older(ladder.last, Slow) /\ ladder'.up = Older(ladder.up, Healthy)
         /\ pace'.age = Older(pace.age, Slow)
         /\ pace'.run = pace.run /\ pace'.up = Older(pace.up, Healthy)
<1>1. ladder \in Ladder /\ pace \in Paces
  BY DEF Timed
<1>2. Older(ladder.last, Slow) \in Ages \cup {None}
  <2>1. ladder.last \in Ages \cup {None}
    BY <1>1 DEF Ladder
  <2> QED
    BY <2>1, RecoveryAssumption DEF Older, Ages
<1>3. Older(ladder.up, Healthy) \in (0..Healthy) \cup {None}
  <2>1. ladder.up \in (0..Healthy) \cup {None}
    BY <1>1 DEF Ladder
  <2> QED
    BY <2>1, RecoveryAssumption DEF Older
<1>4. Sooner(ladder.due) \in Ages \cup {None}
  <2>1. ladder.due \in Ages \cup {None}
    BY <1>1 DEF Ladder
  <2> QED
    BY <2>1, RecoveryAssumption DEF Sooner, Ages
<1>5. Older(pace.age, Slow) \in Ages
  <2>1. pace.age \in Ages
    BY <1>1 DEF Paces
  <2> QED
    BY <2>1, RecoveryAssumption DEF Older, Ages
<1>6. ladder' = [ladder EXCEPT !.last = Older(ladder.last, Slow), !.due = Sooner(ladder.due),
                               !.up = Older(ladder.up, Healthy)]
      /\ pace' = [pace EXCEPT !.age = Older(pace.age, Slow), !.up = Older(pace.up, Healthy)]
  BY DEF Tick
<1>7. Older(pace.up, Healthy) \in (0..Healthy) \cup {None}
  <2>1. pace.up \in (0..Healthy) \cup {None}
    BY <1>1 DEF Paces
  <2> QED
    BY <2>1, RecoveryAssumption DEF Older
<1> QED
  BY <1>1, <1>2, <1>3, <1>4, <1>5, <1>6, <1>7 DEF Ladder, Paces

-----------------------------------------------------------------------------
(* The pace of the resets. *)

(* A reset is due by the history alone. *)
Spaced == pace.age >= Spacing(pace.run)

(* A worker that may reset a dongle may do so now; a reset that the ladder   *)
(* has yet to count is the worker's only one; and a ladder that has counted  *)
(* all of them remembers the last one, unless it is as long ago as the       *)
(* longest wait, and no fewer of them than there were.  It and the history   *)
(* agree on when the link was brought up.                                    *)
AttemptInv ==
  /\ worker.again => worker.at # "none" /\ worker.reset # None
  /\ worker.at = "reset" => worker.allow /\ worker.reset # None /\ ~worker.again
  /\ worker.at \in {"connect", "poll", "reset"} /\ worker.allow /\ ~worker.again => Spaced

Counted ==
  /\ IF ladder.last = None THEN pace.age >= Slow
     ELSE ladder.resets >= 1 /\ ladder.last <= pace.age
  /\ ladder.up # None => ladder.up <= pace.age \/ pace.age >= Slow
  /\ pace.age >= Slow \/ pace.run <= ladder.resets

CountInv ==
  main \notin {"closing", "down"} =>
    IF worker.again
    THEN pace.run <= ladder.resets + 1
    ELSE Counted

ClockInv == pace.up = ladder.up

PaceInv == Timed /\ AttemptInv /\ CountInv /\ ClockInv

(* What the ladder counts is about itself and the history alone. *)
LEMMA PacesKeep ==
  ASSUME PaceInv, UNCHANGED <<ladder, worker, pace>>,
         dongle' \in [Dongles -> {"works", "hung", "lost", "gone"}],
         known' \in [Dongles -> {"absent", "here", "moved"}],
         main' \in {"closing", "down"} \/ main \notin {"closing", "down"}
  PROVE  PaceInv'
BY DEF PaceInv, Timed, AttemptInv, CountInv, Counted, ClockInv, Spaced, Spacing

(* The worker goes on, without a reset of its own. *)
LEMMA WorkerPaces ==
  ASSUME PaceInv, UNCHANGED <<ladder, pace, dongle, known, main>>,
         worker'.again = worker.again, worker'.allow = worker.allow,
         worker'.reset = worker.reset,
         worker'.at \in {"poll", "done"},
         worker'.at = "poll" => worker.at = "connect"
  PROVE  PaceInv'
<1>1. Timed' /\ CountInv' /\ ClockInv'
  BY DEF PaceInv, Timed, CountInv, Counted, ClockInv
<1>2. AttemptInv'
  BY DEF PaceInv, AttemptInv, Spaced, Spacing
<1> QED
  BY <1>1, <1>2 DEF PaceInv

(* A scan finds a dongle or not. *)
LEMMA ScanType == Scan \in [Dongles -> {"absent", "here", "moved"}]
BY DEF Scan

(* A dongle that moved is one of those known. *)
LEMMA MovesType ==
  ASSUME NEW d \in Dongles, Moves(d), Timed
  PROVE  known' \in [Dongles -> {"absent", "here", "moved"}]
BY DEF Moves, Timed

(* Time makes no reset come too early. *)
LEMMA TickPaced ==
  ASSUME PaceInv, Tick
  PROVE  PaceInv'
<1>1. Timed /\ AttemptInv /\ CountInv /\ ClockInv
  BY DEF PaceInv
<1>2. /\ ladder' \in Ladder /\ pace' \in Paces
      /\ ladder'.resets = ladder.resets
      /\ ladder'.last = Older(ladder.last, Slow) /\ ladder'.up = Older(ladder.up, Healthy)
      /\ pace'.age = Older(pace.age, Slow)
      /\ pace'.run = pace.run /\ pace'.up = Older(pace.up, Healthy)
      /\ UNCHANGED <<dongle, known, worker, main>>
  BY <1>1, TickTimes DEF Tick
<1>3. pace.age \in 0..Slow /\ Slow \in Nat /\ Healthy \in Nat /\ None \notin Nat
      /\ ladder.last \in (0..Slow) \cup {None} /\ ladder.up \in (0..Healthy) \cup {None}
  BY <1>1, RungsInOrder, RecoveryAssumption DEF Timed, Ladder, Paces, Ages
<1>4. pace'.age \in 0..Slow /\ pace'.age >= pace.age
      /\ (pace.age >= Slow \/ pace'.age = pace.age + 1)
  BY <1>2, <1>3 DEF Older
<1>5. Timed'
  BY <1>1, <1>2 DEF Timed
<1>6. AttemptInv'
  <2>1. Spaced => Spaced'
    <3>1. Spacing(pace.run) \in Nat
      <4>1. pace.run \in 0..4
        BY <1>1 DEF Timed, Paces
      <4>2. Spacing(pace.run) \in Ages
        BY <4>1, SpacingGrows
      <4> QED
        BY <4>2, RungsInOrder
    <3>2. Spacing(pace.run)' = Spacing(pace.run)
      BY <1>2 DEF Spacing
    <3> QED
      BY <1>2, <1>3, <1>4, <3>1, <3>2 DEF Spaced
  <2> QED
    BY <1>1, <1>2, <2>1 DEF AttemptInv
<1>7. CountInv'
  <2>1. Counted => Counted'
    <3>1. ASSUME Counted
          PROVE  IF ladder'.last = None THEN pace'.age >= Slow
                 ELSE ladder'.resets >= 1 /\ ladder'.last <= pace'.age
      BY <1>2, <1>3, <1>4, <3>1 DEF Counted, Older
    <3>2. ASSUME Counted
          PROVE  ladder'.up # None => ladder'.up <= pace'.age \/ pace'.age >= Slow
      BY <1>2, <1>3, <1>4, <3>2 DEF Counted, Older
    <3>3. pace.age >= Slow => pace'.age >= Slow
      BY <1>3, <1>4
    <3> QED
      BY <1>2, <3>1, <3>2, <3>3 DEF Counted
  <2> QED
    BY <1>1, <1>2, <2>1 DEF CountInv
<1>8. ClockInv'
  BY <1>1, <1>2 DEF ClockInv
<1> QED
  BY <1>5, <1>6, <1>7, <1>8 DEF PaceInv

(* Before its attempt a settled ladder has no reset in the last period, and *)
(* none that allows a reset has one within the spacing.                     *)
LEMMA AllowedIsSpaced ==
  ASSUME Timed, Counted
  PROVE  /\ Settled => pace.age >= Slow
         /\ AllowReset => Spaced
<1>1. pace.age \in 0..Slow /\ Slow \in Nat /\ Healthy \in Nat /\ Slow <= Healthy
      /\ None \notin Nat
      /\ ladder.last \in (0..Slow) \cup {None} /\ ladder.up \in (0..Healthy) \cup {None}
      /\ ladder.resets \in 0..4 /\ pace.run \in 0..3
  BY RungsInOrder, RecoveryAssumption DEF Timed, Ladder, Paces, Ages
<1>2. Settled => pace.age >= Slow
  BY <1>1 DEF Settled, Counted
<1>3. Spacing(pace.run) \in 0..Slow /\ Spacing(ladder.resets) \in 0..Slow
  <2>1. Spacing(pace.run) \in Ages /\ Spacing(ladder.resets) \in Ages
    BY <1>1, SpacingGrows
  <2> QED
    BY <2>1 DEF Ages
<1>4. pace.age >= Slow => Spaced
  BY <1>1, <1>3 DEF Spaced
<1>5. ASSUME ladder.last # None, ladder.last >= Spacing(ladder.resets), ~(pace.age >= Slow)
      PROVE  Spaced
  <2>1. ladder.last <= pace.age /\ pace.age >= Spacing(ladder.resets)
    BY <1>1, <1>3, <1>5 DEF Counted
  <2>2. pace.run <= ladder.resets
    BY <1>5 DEF Counted
  <2>3. Spacing(pace.run) <= Spacing(ladder.resets)
    BY <1>1, <2>2, SpacingGrows
  <2> QED
    BY <1>1, <1>3, <2>1, <2>3 DEF Spaced
<1>6. ladder.last = None => pace.age >= Slow
  BY DEF Counted
<1> QED
  BY <1>2, <1>4, <1>5, <1>6 DEF AllowReset

(* An attempt that ends is counted, by the ladder and by the history. *)
LEMMA RecordCounts ==
  ASSUME PaceInv, worker \in AnyWorker, main = "idle", NEW ok \in BOOLEAN,
         ladder' = Record(worker.reset, ok), Remember(worker.reset, ok)
  PROVE  ladder' \in Ladder /\ pace' \in Paces /\ Counted' /\ ClockInv'
<1>1. Timed /\ AttemptInv /\ CountInv /\ ClockInv
  BY DEF PaceInv
<1>2. worker.reset \in Dongles \cup {None} /\ worker.again \in BOOLEAN
  BY DEF AnyWorker
<1>3. /\ ladder' \in Ladder
      /\ worker.reset # None => /\ ladder'.last = 0 /\ ladder'.resets >= 1
                                /\ ~Settled => \/ ladder'.resets = ladder.resets + 1
                                               \/ ladder'.resets = 4
      /\ worker.reset = None =>
           IF Settled THEN ladder'.last = None
           ELSE ladder'.last = ladder.last /\ ladder'.resets = ladder.resets
      /\ ladder'.up \in {0, None}
  BY <1>1, <1>2, RecordEffect
<1>4. /\ pace'.age = pace.age
      /\ pace'.run = IF Settled THEN (IF worker.reset = None THEN 0 ELSE 1) ELSE pace.run
      /\ pace'.up = IF ok THEN 0 ELSE None
  BY <1>1 DEF Remember, Settled, ClockInv
<1>5. pace.age \in 0..Slow /\ Slow \in Nat /\ None \notin Nat /\ pace.run \in 0..3
      /\ ladder.resets \in 0..4
  BY <1>1, RungsInOrder, RecoveryAssumption DEF Timed, Ladder, Paces, Ages
<1>6. worker.again => pace.run <= ladder.resets + 1
  BY <1>1 DEF CountInv
<1>7. ~worker.again => Counted
  BY <1>1 DEF CountInv
<1>8. worker.again => worker.reset # None
  BY <1>1 DEF AttemptInv
<1>9. IF ladder'.last = None THEN pace'.age >= Slow
      ELSE ladder'.resets >= 1 /\ ladder'.last <= pace'.age
  <2>1. CASE worker.reset # None
    BY <1>3, <1>4, <1>5, <2>1
  <2>2. CASE worker.reset = None /\ Settled
    BY <1>1, <1>3, <1>4, <1>7, <1>8, <2>2, AllowedIsSpaced
  <2>3. CASE worker.reset = None /\ ~Settled
    <3>1. Counted
      BY <1>7, <1>8, <2>3
    <3>2. ladder'.last = ladder.last /\ ladder'.resets = ladder.resets
      BY <1>3, <2>3
    <3> QED
      BY <1>4, <3>1, <3>2 DEF Counted
  <2> QED
    BY <2>1, <2>2, <2>3
<1>10. ladder'.up # None => ladder'.up <= pace'.age \/ pace'.age >= Slow
  BY <1>3, <1>4, <1>5
<1>11. pace'.age >= Slow \/ pace'.run <= ladder'.resets
  <2>1. CASE Settled
    <3>1. ladder'.resets \in Nat
      BY <1>3 DEF Ladder
    <3>2. CASE worker.reset = None
      BY <1>4, <2>1, <3>1, <3>2
    <3>3. CASE worker.reset # None
      BY <1>3, <1>4, <2>1, <3>1, <3>3
    <3> QED
      BY <3>2, <3>3
  <2>2. CASE ~Settled /\ worker.reset # None
    <3>1. pace.age >= Slow \/ pace.run <= ladder.resets + 1
      <4>1. CASE worker.again
        BY <1>6, <4>1
      <4>2. CASE ~worker.again
        BY <1>5, <1>7, <4>2 DEF Counted
      <4> QED
        BY <4>1, <4>2
    <3>2. ladder'.resets = ladder.resets + 1 \/ ladder'.resets = 4
      BY <1>3, <2>2
    <3>3. pace'.run = pace.run
      BY <1>4, <2>2
    <3> QED
      BY <1>4, <1>5, <3>1, <3>2, <3>3
  <2>3. CASE ~Settled /\ worker.reset = None
    <3>1. Counted
      BY <1>7, <1>8, <2>3
    <3>2. ladder'.resets = ladder.resets /\ pace'.run = pace.run
      BY <1>3, <1>4, <2>3
    <3> QED
      BY <1>4, <3>1, <3>2 DEF Counted
  <2> QED
    BY <2>1, <2>2, <2>3
<1>12. pace' \in Paces
  <2>1. pace.age \in Ages
    BY <1>1 DEF Timed, Paces
  <2>2. (IF pace.up # None /\ pace.up >= Healthy
         THEN (IF worker.reset = None THEN 0 ELSE 1) ELSE pace.run) \in 0..3
    BY <1>5
  <2>3. (IF ok THEN 0 ELSE None) \in (0..Healthy) \cup {None}
    BY RecoveryAssumption
  <2> QED
    BY <2>1, <2>2, <2>3 DEF Remember, Paces
<1>13. ClockInv'
  <2>1. ladder'.up = IF ok THEN 0 ELSE None
    BY DEF Record
  <2> QED
    BY <1>4, <2>1 DEF ClockInv
<1> QED
  BY <1>3, <1>9, <1>10, <1>11, <1>12, <1>13 DEF Counted

(* A failed step ends the attempt, or chooses the dongle of its one reset. *)
LEMMA AttemptOverPaces ==
  ASSUME PaceInv, worker \in AnyWorker, NEW blamed, AttemptOver(blamed),
         worker.at \in {"connect", "poll"},
         UNCHANGED <<ladder, pace, dongle, known, main>>
  PROVE  PaceInv'
<1>1. CASE Goto("done")
  BY <1>1, WorkerPaces DEF Goto, AnyWorker
<1>2. ASSUME NEW target, target = ResetTarget(blamed), target # None,
             ~worker.again, worker.allow,
             worker' = [worker EXCEPT !.at = "reset", !.reset = target]
      PROVE  PaceInv'
  <2>1. Timed' /\ CountInv' /\ ClockInv'
    BY <1>2 DEF PaceInv, Timed, CountInv, Counted, ClockInv, AnyWorker
  <2>2. AttemptInv'
    BY <1>2 DEF PaceInv, AttemptInv, Spaced, Spacing, AnyWorker
  <2> QED
    BY <2>1, <2>2 DEF PaceInv
<1> QED
  BY <1>1, <1>2 DEF AttemptOver

(* So is an attempt for which there was no thread. *)
LEMMA NothingReset ==
  ASSUME Timed, Counted, ClockInv, ladder' = Record(None, FALSE), Remember(None, FALSE)
  PROVE  ladder' \in Ladder /\ pace' \in Paces /\ Counted' /\ ClockInv'
<1>1. /\ ladder' \in Ladder
      /\ IF Settled THEN ladder'.last = None
         ELSE ladder'.last = ladder.last /\ ladder'.resets = ladder.resets
      /\ ladder'.up = None
  <2>1. Record(None, FALSE).up = None
    BY DEF Record
  <2> QED
    BY <2>1, RecordEffect
<1>2. /\ pace'.age = pace.age
      /\ pace'.run = IF Settled THEN 0 ELSE pace.run
      /\ pace'.up = None
  BY DEF Remember, Settled, ClockInv
<1>3. pace' \in Paces
  <2>1. pace.age \in Ages /\ pace.run \in 0..3
    BY DEF Timed, Paces
  <2>2. (IF pace.up # None /\ pace.up >= Healthy THEN 0 ELSE pace.run) \in 0..3
    BY <2>1
  <2> QED
    BY <2>1, <2>2 DEF Remember, Paces
<1>4. Counted'
  <2>1. CASE Settled
    <3>1. pace.age >= Slow
      BY <2>1, AllowedIsSpaced
    <3> QED
      BY <1>1, <1>2, <2>1, <3>1 DEF Counted
  <2>2. CASE ~Settled
    BY <1>1, <1>2, <2>2 DEF Counted
  <2> QED
    BY <2>1, <2>2
<1> QED
  BY <1>1, <1>2, <1>3, <1>4 DEF ClockInv

(* A worker starts that may reset a dongle only if that is due. *)
LEMMA SupervisePaced ==
  ASSUME IInv, PaceInv, Supervise
  PROVE  PaceInv'
<1>1. Timed /\ AttemptInv /\ Counted /\ ClockInv /\ worker.at = "none" /\ ~worker.again
      /\ worker.reset \in Dongles \cup {None}
  <2>1. worker.at = "none" /\ main \in {"released", "idle"}
    BY DEF Supervise
  <2>2. ~worker.again
    BY <2>1 DEF PaceInv, AttemptInv
  <2> QED
    BY <2>1, <2>2 DEF PaceInv, CountInv, IInv, Typed, AnyWorker
<1>2. AllowReset => Spaced
  BY <1>1, AllowedIsSpaced
<1>3. known' \in [Dongles -> {"absent", "here", "moved"}] /\ dongle' = dongle
      /\ main' = "idle"
  BY ScanType DEF Supervise
<1>4. CASE ladder' = Record(None, FALSE) /\ Remember(None, FALSE) /\ worker' = worker
  <2>1. ladder' \in Ladder /\ pace' \in Paces /\ Counted' /\ ClockInv'
    BY <1>1, <1>4, NothingReset
  <2>2. Timed'
    BY <1>1, <1>3, <2>1 DEF Timed
  <2>3. AttemptInv'
    BY <1>1, <1>4 DEF AttemptInv
  <2> QED
    BY <1>1, <1>4, <2>1, <2>2, <2>3 DEF PaceInv, CountInv
<1>5. CASE /\ ladder' \in {ladder, [ladder EXCEPT !.due = 0]} /\ pace' = pace
           /\ worker' \in {worker, [NoWorker EXCEPT !.at = "connect", !.allow = AllowReset]}
  <2>1. ladder' \in Ladder /\ ladder'.resets = ladder.resets /\ ladder'.last = ladder.last
        /\ ladder'.up = ladder.up
    <3>1. ladder \in Ladder
      BY <1>1 DEF Timed
    <3> QED
      BY <1>5, <3>1, RungsInOrder DEF Ladder
  <2>2. Timed' /\ ClockInv'
    BY <1>1, <1>3, <1>5, <2>1 DEF Timed, ClockInv
  <2>3. Counted'
    BY <1>1, <1>5, <2>1 DEF Counted
  <2>4. worker' = worker \/ /\ worker'.at = "connect" /\ worker'.allow = AllowReset
                            /\ worker'.again = FALSE
    <3> HIDE DEF AllowReset
    <3> QED
      BY <1>5 DEF NoWorker
  <2>5. Spaced' = Spaced
    BY <1>5 DEF Spaced, Spacing
  <2>6. AttemptInv'
    BY <1>1, <1>2, <2>4, <2>5 DEF AttemptInv
  <2>7. CountInv'
    BY <1>1, <2>3, <2>4 DEF CountInv
  <2> QED
    BY <2>2, <2>6, <2>7 DEF PaceInv
<1>6. \/ ladder' = Record(None, FALSE) /\ Remember(None, FALSE) /\ worker' = worker
      \/ /\ ladder' \in {ladder, [ladder EXCEPT !.due = 0]} /\ pace' = pace
         /\ worker' \in {worker, [NoWorker EXCEPT !.at = "connect", !.allow = AllowReset]}
  BY DEF Supervise
<1> QED
  BY <1>4, <1>5, <1>6

(* The main loop counts the resets of an attempt that ends. *)
LEMMA AttemptEndsPaced ==
  ASSUME IInv, PaceInv, AttemptSucceeds \/ AttemptFails
  PROVE  PaceInv'
<1>1. worker \in AnyWorker /\ main = "idle" /\ main' = "idle" /\ worker' = NoWorker
      /\ dongle' = dongle /\ known' = Scan
  BY DEF IInv, Typed, AttemptSucceeds, AttemptFails
<1>2. \/ ladder' = Record(worker.reset, TRUE) /\ Remember(worker.reset, TRUE)
      \/ ladder' = Record(worker.reset, FALSE) /\ Remember(worker.reset, FALSE)
  BY DEF AttemptSucceeds, AttemptFails
<1>3. ladder' \in Ladder /\ pace' \in Paces /\ Counted' /\ ClockInv'
  BY <1>1, <1>2, RecordCounts
<1>4. Timed'
  BY <1>1, <1>3, ScanType DEF PaceInv, Timed
<1>5. AttemptInv' /\ CountInv'
  BY <1>1, <1>3 DEF AttemptInv, CountInv, NoWorker
<1> QED
  BY <1>3, <1>4, <1>5 DEF PaceInv

(* A worker that cannot connect, or whose threads fail. *)
LEMMA AttemptFailingPaced ==
  ASSUME IInv, PaceInv, ConnectFails \/ PollFails
  PROVE  PaceInv'
<1>1. worker \in AnyWorker /\ worker.at \in {"connect", "poll"}
      /\ UNCHANGED <<ladder, pace, dongle, known, main>>
  BY DEF IInv, Typed, ConnectFails, PollFails
<1>2. ASSUME NEW blamed, AttemptOver(blamed)
      PROVE  PaceInv'
  BY <1>1, <1>2, AttemptOverPaces
<1>3. CASE Goto("done")
  BY <1>1, <1>3, WorkerPaces DEF Goto, AnyWorker
<1> QED
  BY <1>2, <1>3 DEF ConnectFails, PollFails

(* A worker that goes on or gives up. *)
LEMMA WorkerGoesOnPaced ==
  ASSUME IInv, PaceInv, ConnectOk \/ PollOk \/ ResetFails
  PROVE  PaceInv'
<1>1. worker \in AnyWorker
  BY DEF IInv, Typed
<1>2. CASE ConnectOk
  BY <1>1, <1>2, WorkerPaces DEF ConnectOk, Goto, AnyWorker
<1>3. CASE PollOk
  BY <1>1, <1>3, WorkerPaces DEF PollOk, AnyWorker
<1>4. CASE ResetFails
  BY <1>1, <1>4, WorkerPaces DEF ResetFails, Goto, AnyWorker
<1> QED
  BY <1>2, <1>3, <1>4

(* A reset is the worker's only one, and one more than the ladder knows. *)
LEMMA ResetPaced ==
  ASSUME IInv, PaceInv, Reset
  PROVE  PaceInv' /\ Spaced
<1>1. Timed /\ AttemptInv /\ CountInv /\ ClockInv /\ worker \in AnyWorker /\ worker.at = "reset"
      /\ worker.reset \in Dongles
  BY DEF PaceInv, IInv, Typed, Reset, AttemptInv, AnyWorker
<1>2. Spaced /\ ~worker.again
  BY <1>1 DEF AttemptInv
<1>3. pace \in Paces /\ pace.age \in 0..Slow /\ Slow \in Nat /\ pace.run \in 0..3
      /\ ladder.resets \in 0..4
  BY <1>1, RecoveryAssumption DEF Timed, Ladder, Paces, Ages
<1>4. pace' \in Paces /\ pace'.run \in 0..3 /\ pace'.up = pace.up
      /\ IF pace.age >= Slow THEN pace'.run = 1 ELSE pace'.run <= pace.run + 1
  <2> DEFINE next == IF pace.age >= Slow THEN 1 ELSE IF pace.run < 3 THEN pace.run + 1 ELSE 3
  <2>1. pace' = [pace EXCEPT !.age = 0, !.run = next]
    BY DEF Reset
  <2>2. next \in 0..3 /\ IF pace.age >= Slow THEN next = 1 ELSE next <= pace.run + 1
    BY <1>3
  <2> HIDE DEF next
  <2> QED
    BY <1>3, <2>1, <2>2, RungsInOrder DEF Paces
<1>5. Timed'
  <2>1. known' \in [Dongles -> {"absent", "here", "moved"}]
    BY <1>1, MovesType DEF Reset
  <2>2. dongle' \in [Dongles -> {"works", "hung", "lost", "gone"}] /\ ladder' = ladder
    BY <1>1 DEF Reset, Timed
  <2> QED
    BY <1>1, <1>4, <2>1, <2>2 DEF Timed
<1>6. worker'.at = "connect" /\ worker'.again /\ worker'.reset = worker.reset
      /\ main' = main /\ ladder' = ladder
  BY <1>1 DEF Reset, AnyWorker
<1>7. AttemptInv'
  BY <1>1, <1>6 DEF AttemptInv
<1>8. CountInv'
  <2>1. ASSUME main \notin {"closing", "down"}
        PROVE  pace'.run <= ladder.resets + 1
    <3>1. Counted
      BY <1>1, <1>2, <2>1 DEF CountInv
    <3>2. CASE pace.age >= Slow
      BY <1>3, <1>4, <3>2
    <3>3. CASE ~(pace.age >= Slow)
      BY <1>3, <1>4, <3>1, <3>3 DEF Counted
    <3> QED
      BY <3>2, <3>3
  <2> QED
    BY <1>6, <2>1 DEF CountInv
<1>9. ClockInv'
  BY <1>1, <1>4, <1>6 DEF ClockInv
<1> QED
  BY <1>2, <1>5, <1>7, <1>8, <1>9 DEF PaceInv

(* A shutdown leaves the worker and ends the count. *)
LEMMA ShutdownPaced ==
  ASSUME IInv, PaceInv, BeginShutdown \/ JoinWorker
  PROVE  PaceInv'
<1>1. worker \in AnyWorker /\ UNCHANGED <<ladder, pace, dongle, known>>
  BY DEF IInv, Typed, BeginShutdown, JoinWorker
<1>2. Timed' /\ ClockInv'
  BY <1>1 DEF PaceInv, Timed, ClockInv
<1>3. CASE BeginShutdown
  <2>1. main = "idle" /\ main' = "joining" /\ worker'.at = worker.at
        /\ worker'.again = worker.again /\ worker'.reset = worker.reset
        /\ worker'.allow = worker.allow
    BY <1>1, <1>3 DEF BeginShutdown, AnyWorker
  <2>2. AttemptInv'
    BY <1>1, <2>1 DEF PaceInv, AttemptInv, Spaced, Spacing
  <2>3. CountInv'
    BY <1>1, <2>1 DEF PaceInv, CountInv, Counted
  <2> QED
    BY <1>2, <2>2, <2>3 DEF PaceInv
<1>4. CASE JoinWorker
  <2>1. AttemptInv' /\ CountInv'
    BY <1>4 DEF JoinWorker, AttemptInv, CountInv, NoWorker
  <2> QED
    BY <1>2, <2>1 DEF PaceInv
<1> QED
  BY <1>3, <1>4

(* At first nothing has been reset. *)
LEMMA InitPaced == Init => PaceInv
<1> SUFFICES ASSUME Init PROVE PaceInv
  OBVIOUS
<1>1. dongle \in [Dongles -> {"works", "hung", "lost", "gone"}]
      /\ known \in [Dongles -> {"absent", "here", "moved"}]
  BY ScanType DEF Init
<1>2. ladder \in Ladder /\ ladder.last = None /\ ladder.resets = 0
      /\ ladder.up = IF link.up THEN 0 ELSE None
  <2>1. CASE ladder = [NewLadder EXCEPT !.up = 0] /\ link.up
    BY <2>1, RecoveryAssumption DEF NewLadder, Ladder
  <2>2. CASE ladder = [NewLadder EXCEPT !.due = IF Present(Tx) THEN Backoff[1] ELSE None]
             /\ ~link.up
    BY <2>2, RungsInOrder DEF NewLadder, Ladder
  <2> QED
    BY <2>1, <2>2 DEF Init
<1>3. pace \in Paces /\ pace.age = Slow /\ pace.up = ladder.up /\ pace.run = 0
  <2>1. pace = [age |-> Slow, run |-> 0, up |-> IF link.up THEN 0 ELSE None]
    BY DEF Init
  <2> QED
    BY <1>2, <2>1, RungsInOrder, RecoveryAssumption DEF Paces
<1>4. worker = NoWorker
  BY DEF Init
<1>5. Timed
  BY <1>1, <1>2, <1>3 DEF Timed
<1>6. Counted
  BY <1>2, <1>3, RungsInOrder, RecoveryAssumption DEF Counted
<1>7. AttemptInv /\ CountInv
  BY <1>4, <1>6 DEF AttemptInv, CountInv, NoWorker
<1>8. ClockInv
  BY <1>3 DEF ClockInv
<1> QED
  BY <1>5, <1>7, <1>8 DEF PaceInv

(* A step changes the history only where a reset is or an attempt ends. *)
LEMMA StepPaced ==
  ASSUME IInv, PaceInv, [Next]_vars
  PROVE  PaceInv' /\ (worker.at = "reset" /\ worker'.at = "connect" => Spaced)
<1>1. Timed /\ worker \in AnyWorker
  BY DEF PaceInv, IInv, Typed
<1>2. CASE Tick
  BY <1>2, TickPaced DEF Tick
<1>3. CASE Environment
  <2>1. ASSUME NEW d \in Dongles, Unplug(d) \/ Plug(d) \/ Hang(d)
        PROVE  PaceInv' /\ worker' = worker
    <3>1. known' \in [Dongles -> {"absent", "here", "moved"}]
      BY <1>1, <2>1, MovesType DEF Unplug, Plug, Hang, Timed
    <3>2. dongle' \in [Dongles -> {"works", "hung", "lost", "gone"}]
      BY <1>1, <2>1 DEF Unplug, Plug, Hang, Timed
    <3>3. UNCHANGED <<ladder, worker, main, pace>>
      BY <2>1 DEF Unplug, Plug, Hang, daemon
    <3> QED
      BY <3>1, <3>2, <3>3, PacesKeep
  <2>2. ASSUME GoesSilent \/ Rebuild \/ \E c \in Consumers : BeginOperation(c)
        PROVE  PaceInv' /\ worker' = worker
    <3>1. UNCHANGED <<ladder, worker, main, pace, dongle, known>>
      BY <2>2 DEF GoesSilent, Rebuild, BeginOperation, daemon
    <3> QED
      BY <1>1, <3>1, PacesKeep DEF Timed
  <2>3. ASSUME StopsPolling
        PROVE  PaceInv' /\ worker' = worker
    <3>1. known' \in [Dongles -> {"absent", "here", "moved"}]
      BY <1>1, <2>3, MovesType DEF StopsPolling, Timed, Dongles
    <3>2. UNCHANGED <<ladder, worker, main, pace, dongle>>
      BY <2>3 DEF StopsPolling, daemon
    <3> QED
      BY <1>1, <3>1, <3>2, PacesKeep DEF Timed
  <2>4. ASSUME BeginShutdown
        PROVE  PaceInv' /\ worker'.at = worker.at
    BY <1>1, <2>4, ShutdownPaced DEF BeginShutdown, AnyWorker
  <2> QED
    BY <1>3, <2>1, <2>2, <2>3, <2>4 DEF Environment
<1>4. CASE OperationEnds
  <2>1. UNCHANGED <<ladder, worker, main, pace, dongle, known>>
    BY <1>4 DEF OperationEnds, Sent, NotSent, daemon
  <2> QED
    BY <1>1, <2>1, PacesKeep DEF Timed
<1>5. CASE WorkerStep
  <2>1. CASE Reset
    BY <2>1, ResetPaced
  <2>2. CASE ConnectOk \/ PollOk \/ ResetFails
    <3>1. worker'.at # "connect"
      BY <1>1, <2>2 DEF ConnectOk, PollOk, ResetFails, Goto, AnyWorker
    <3> QED
      BY <2>2, <3>1, WorkerGoesOnPaced
  <2>3. CASE ConnectFails \/ PollFails
    <3>1. worker.at # "reset"
      BY <2>3 DEF ConnectFails, PollFails
    <3> QED
      BY <2>3, <3>1, AttemptFailingPaced
  <2> QED
    BY <1>5, <2>1, <2>2, <2>3 DEF WorkerStep
<1>6. CASE MainStep
  <2>1. CASE LoseLink \/ Release \/ Close
    <3>1. UNCHANGED <<ladder, worker, pace, dongle, known>>
          /\ (main' \in {"closing", "down"} \/ main \notin {"closing", "down"})
      BY <2>1 DEF LoseLink, Release, Close
    <3> QED
      BY <1>1, <3>1, PacesKeep DEF Timed
  <2>2. CASE Supervise
    BY <2>2, SupervisePaced DEF Supervise
  <2>3. CASE AttemptSucceeds \/ AttemptFails
    BY <2>3, AttemptEndsPaced DEF AttemptSucceeds, AttemptFails
  <2>4. CASE JoinWorker
    BY <2>4, ShutdownPaced DEF JoinWorker, NoWorker
  <2> QED
    BY <1>6, <2>1, <2>2, <2>3, <2>4 DEF MainStep
<1>7. CASE UNCHANGED vars
  <2>1. UNCHANGED <<ladder, worker, main, pace, dongle, known>>
    BY <1>7 DEF vars, daemon
  <2> QED
    BY <1>1, <2>1, PacesKeep DEF Timed
<1> QED
  BY <1>2, <1>3, <1>4, <1>5, <1>6, <1>7 DEF Next

(* What the ladder has counted is what has been reset. *)
THEOREM PaceInvariance == Spec => [](IInv /\ PaceInv)
<1>1. Init => PaceInv
  BY InitPaced
<1>2. IInv /\ PaceInv /\ [Next]_vars => PaceInv'
  BY StepPaced
<1> QED
  BY <1>1, <1>2, LinkInvariance, PTL DEF Spec

(* Every variable of the link, its worker, the ladder and the history keeps  *)
(* its type, and a worker resets a dongle only if it may and knows which.    *)
THEOREM LinkTypeCorrect == Spec => []TypeOK
<1>1. IInv /\ PaceInv => TypeOK
  <2> SUFFICES ASSUME IInv, PaceInv PROVE TypeOK
    OBVIOUS
  <2>1. worker \in Worker
    BY DEF IInv, Typed, PaceInv, AttemptInv, AnyWorker, Worker
  <2>2. ladder \in [resets : 0..(Len(Backoff) + 1), last : Ages \cup {None},
                    due : Ages \cup {None}, up : (0..Healthy) \cup {None}]
    BY RecoveryAssumption DEF PaceInv, Timed, Ladder
  <2> QED
    BY <2>1, <2>2 DEF IInv, Typed, PaceInv, Timed, Paces, TypeOK
<1> QED
  BY <1>1, PaceInvariance, PTL

(* RecoveryLadder, "three fast companion resets, then one every five         *)
(* minutes": resets keep their distance over links that come and go, each    *)
(* counted until Slow has passed without one or a link was brought up        *)
(* Healthy ago.                                                              *)
THEOREM ResetsKeepTheirDistance == Spec => ResetsPaced
<1>1. IInv /\ PaceInv /\ [Next]_vars =>
        [worker.at = "reset" /\ worker'.at = "connect" =>
           pace.age >= Spacing(pace.run)]_vars
  BY StepPaced DEF Spaced
<1> QED
  BY <1>1, PaceInvariance, PTL DEF Spec, ResetsPaced

=============================================================================
