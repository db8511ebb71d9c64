-------------------------- MODULE StateTransaction --------------------------
(***************************************************************************)
(* The crash-safe replacement of the saved settings of one account         *)
(* (lianli-control/src/state_transaction.rs): the files are replaced one   *)
(* by one, a journal beside them says which backup directory holds the     *)
(* old and the new side, and recovery puts the old side back unless the    *)
(* journal was committed.  Managed media is published before the files     *)
(* that name it (media_publication.rs).                                    *)
(*                                                                         *)
(* Several processes may attempt a transaction, a restoration or a         *)
(* recovery at once; each may fail or be killed at any step, and another   *)
(* program may edit a file between the calls.  A file write is a rename    *)
(* followed by fsync of the directory, so one file changes atomically.     *)
(***************************************************************************)

EXTENDS Naturals, FiniteSets

CONSTANTS
  Files,      (* the known state files                                        *)
  Contents,   (* what a file may hold (digest, mode and group together)       *)
  Absent,     (* Option::None: the file does not exist                        *)
  Procs,      (* processes that publish, restore or recover                   *)
  Backups,    (* the backup directories the 16-backup limit allows            *)
  None,       (* no journal, no backup, no lock holder, no job                *)
  Initial,    (* the saved settings to start from                             *)
  MaxEdits,   (* bound on edits by other programs                             *)
  MaxFaults   (* bound on failed or killed processes                          *)

Value == Contents \cup {Absent}
State == [Files -> Value]

(* A backup directory: its "old" and "new" sides, and whether the            *)
(* transaction it was made for publishes managed media.                      *)
Backup == [old : State, new : State, media : BOOLEAN]
Journal == [backup : Backups, committed : BOOLEAN]

(* What a process is doing: for which backup, whether it resumes a partly    *)
(* published restoration, and whether it is putting the old side back.       *)
Job == [backup : Backups, resume : BOOLEAN, undo : BOOLEAN]
Steps == {"idle", "staged", "ready", "media", "applying", "settling"}

ASSUME BoundsAssumption == MaxEdits \in Nat /\ MaxFaults \in Nat
ASSUME InitialAssumption == Initial \subseteq State
ASSUME AbsentAssumption == Absent \notin Contents
ASSUME NoneAssumption ==
  None \notin Backups \cup Procs \cup Backup \cup Journal \cup Job

VARIABLES
  live,       (* the state files themselves                                   *)
  journal,    (* .lianli-state-transaction.json                               *)
  backup,     (* .lianli-state-backup-*: the retained sides                   *)
  imported,   (* backups whose media was renamed into media/imports           *)
  lock,       (* holder of the exclusive flock on the transaction lock        *)
  pc, job,    (* where each process is, and on what                           *)
  todo,       (* files the process's apply() has still to write               *)
  edits, faults

disk == <<live, journal, backup, imported>>
process == <<lock, pc, job, todo>>
bounds == <<edits, faults>>
vars == <<disk, process, bounds>>

Retained == {b \in Backups : backup[b] # None}
Pending == journal # None

-----------------------------------------------------------------------------

Init ==
  /\ live \in Initial
  /\ journal = None
  /\ backup = [b \in Backups |-> None]
  /\ imported = {}
  /\ lock = None
  /\ pc = [p \in Procs |-> "idle"]
  /\ job = [p \in Procs |-> None]
  /\ todo = [p \in Procs |-> {}]
  /\ edits = 0
  /\ faults = 0

(* A verification that compares nothing. *)
VerifyNothing(b, allowNew) == allowNew \in BOOLEAN

(* verify_current: every file still has its old content, or its new one when *)
(* partly published state is accepted, and no other state file appeared      *)
(* (a file outside the transaction is Absent on both sides).                 *)
VerifyCurrent(b, allowNew) ==
  \A f \in Files : \/ live[f] = backup[b].old[f]
                   \/ allowNew /\ live[f] = backup[b].new[f]

(* Directory::lock: a non-blocking exclusive flock; a caller that finds it   *)
(* held returns an error without touching anything.                          *)
LockFree(p) == pc[p] = "idle" /\ lock = None

Enter(p, step, j) ==
  /\ pc' = [pc EXCEPT ![p] = step]
  /\ job' = [job EXCEPT ![p] = j]

(* The process returns, with a result or an error: the lock is dropped.      *)
Leave(p) ==
  /\ lock' = None
  /\ Enter(p, "idle", None)
  /\ todo' = [todo EXCEPT ![p] = {}]

(* prepare_all up to the retained backup directory: no transaction is        *)
(* pending, a directory is left under the limit, the old side is read from   *)
(* the state files and both sides and the manifest are written out.          *)
Prepare(p, requested, media) ==
  /\ LockFree(p)
  /\ ~Pending
  /\ \E b \in Backups \ Retained :
       /\ backup' = [backup EXCEPT ![b] =
                       [old |-> live, new |-> requested, media |-> media]]
       /\ lock' = p
       /\ Enter(p, "staged", [backup |-> b, resume |-> FALSE, undo |-> FALSE])
  /\ UNCHANGED <<live, journal, imported, todo, bounds>>

(* prepare_restore: the requested state is the old side of a retained        *)
(* backup, read under the lock; the lock is dropped and taken again by       *)
(* prepare, but a retained side never changes.                               *)
PrepareRestore(p, b) ==
  /\ b \in Retained
  /\ Prepare(p, backup[b].old, FALSE)

(* A journal without its commit mark. *)
JournalUnmarked(p) ==
  /\ pc[p] = "staged"
  /\ journal' = [backup |-> job[p].backup]
  /\ Enter(p, "ready", job[p])
  /\ UNCHANGED <<live, backup, imported, lock, todo, bounds>>

(* The end of prepare_all: the journal is written beside the state files.    *)
WriteJournal(p) ==
  /\ pc[p] = "staged"
  /\ journal' = [backup |-> job[p].backup, committed |-> FALSE]
  /\ Enter(p, "ready", job[p])
  /\ UNCHANGED <<live, backup, imported, lock, todo, bounds>>

(* resume_restore: an interrupted restoration of `original` continues from   *)
(* the undo backup it made, whose new side is original's old side.           *)
ResumeRestore(p, original, undo) ==
  /\ LockFree(p)
  /\ ~Pending
  /\ original # undo /\ {original, undo} \subseteq Retained
  /\ ~backup[undo].media
  /\ backup[original].old = backup[undo].new
  /\ VerifyCurrent(undo, TRUE)
  /\ journal' = [backup |-> undo, committed |-> FALSE]
  /\ lock' = p
  /\ Enter(p, "ready", [backup |-> undo, resume |-> TRUE, undo |-> FALSE])
  /\ UNCHANGED <<live, backup, imported, todo, bounds>>

(* publish_checked, first part: the journal is the one prepared and the      *)
(* state files were not changed since; otherwise publication is refused and  *)
(* the journal stays.                                                        *)
Publishable(p) ==
  /\ journal = [backup |-> job[p].backup, committed |-> FALSE]
  /\ VerifyCurrent(job[p].backup, job[p].resume)

BeginPublish(p) ==
  /\ pc[p] = "ready"
  /\ Publishable(p)
  /\ IF backup[job[p].backup].media
     THEN /\ Enter(p, "media", job[p])
          /\ UNCHANGED todo
     ELSE /\ Enter(p, "applying", job[p])
          /\ todo' = [todo EXCEPT ![p] = Files]
  /\ UNCHANGED <<disk, lock, bounds>>

RefusePublish(p) ==
  /\ pc[p] = "ready"
  /\ ~Publishable(p)
  /\ Leave(p)
  /\ UNCHANGED <<disk, bounds>>

(* A publication whose media stays in its staging directory. *)
MediaLeftStaged(p) ==
  /\ pc[p] = "media"
  /\ VerifyCurrent(job[p].backup, FALSE)
  /\ Enter(p, "applying", job[p])
  /\ todo' = [todo EXCEPT ![p] = Files]
  /\ UNCHANGED <<disk, lock, bounds>>

(* MediaPublication::publish renames the staged directory into place, and    *)
(* the files are verified once more before the first one is written.         *)
PublishMedia(p) ==
  /\ pc[p] = "media"
  /\ imported' = imported \cup {job[p].backup}
  /\ VerifyCurrent(job[p].backup, FALSE)
  /\ Enter(p, "applying", job[p])
  /\ todo' = [todo EXCEPT ![p] = Files]
  /\ UNCHANGED <<live, journal, backup, lock, bounds>>

Side(p) == IF job[p].undo THEN backup[job[p].backup].old
                          ELSE backup[job[p].backup].new

(* apply: the next file of the side is written, or removed when absent.      *)
ApplyFile(p, f) ==
  /\ pc[p] = "applying"
  /\ f \in todo[p]
  /\ live' = [live EXCEPT ![f] = Side(p)[f]]
  /\ todo' = [todo EXCEPT ![p] = @ \ {f}]
  /\ UNCHANGED <<journal, backup, imported, lock, pc, job, bounds>>

(* A commit before the last file is written. *)
CommitEarly(p) ==
  /\ pc[p] = "applying" /\ ~job[p].undo
  /\ journal' = [backup |-> job[p].backup, committed |-> TRUE]
  /\ Enter(p, "settling", job[p])
  /\ UNCHANGED <<live, backup, imported, lock, todo, bounds>>

(* publish_checked, last part: every file reads back as published, then the  *)
(* committed journal is written ...                                          *)
Commit(p) ==
  /\ pc[p] = "applying" /\ ~job[p].undo
  /\ todo[p] = {}
  /\ live = backup[job[p].backup].new
  /\ journal' = [backup |-> job[p].backup, committed |-> TRUE]
  /\ Enter(p, "settling", job[p])
  /\ UNCHANGED <<live, backup, imported, lock, todo, bounds>>

(* recover: a pending journal is read under the lock.  Uncommitted state     *)
(* must be all old or new content, and its old side is put back; committed   *)
(* state stays, once its media is seen in place.                             *)
Recover(p) ==
  /\ LockFree(p)
  /\ Pending
  /\ lock' = p
  /\ IF journal.committed
     THEN /\ backup[journal.backup].media => journal.backup \in imported
          /\ Enter(p, "settling",
                   [backup |-> journal.backup, resume |-> FALSE, undo |-> TRUE])
          /\ UNCHANGED todo
     ELSE /\ VerifyCurrent(journal.backup, TRUE)
          /\ Enter(p, "applying",
                   [backup |-> journal.backup, resume |-> FALSE, undo |-> TRUE])
          /\ todo' = [todo EXCEPT ![p] = Files]
  /\ UNCHANGED <<disk, bounds>>

Undone(p) == pc[p] = "applying" /\ job[p].undo /\ todo[p] = {}

(* A transaction that ends with its journal in place. *)
JournalLeft(p) ==
  /\ pc[p] = "settling" \/ Undone(p)
  /\ Leave(p)
  /\ UNCHANGED <<disk, bounds>>

(* ... and publication and recovery both end by removing the journal.        *)
RemoveJournal(p) ==
  /\ pc[p] = "settling" \/ Undone(p)
  /\ journal' = None
  /\ Leave(p)
  /\ UNCHANGED <<live, backup, imported, bounds>>

(* An error return or a kill at any step: the lock goes with the process,    *)
(* everything on disk stays as it is.                                        *)
Interrupt(p) ==
  /\ pc[p] # "idle"
  /\ faults < MaxFaults
  /\ faults' = faults + 1
  /\ Leave(p)
  /\ UNCHANGED <<disk, edits>>

(* Another program edits a file.  prepare and publish are called with the    *)
(* daemon stopped and hardware reserved, so no edit falls inside a call, but *)
(* one may come between prepare and publish or while a dead process's        *)
(* journal is pending.                                                       *)
Quiescent == \A p \in Procs : pc[p] \in {"idle", "ready"}

Edit(f, c) ==
  /\ Quiescent
  /\ edits < MaxEdits
  /\ edits' = edits + 1
  /\ live[f] # c
  /\ live' = [live EXCEPT ![f] = c]
  /\ UNCHANGED <<journal, backup, imported, process, faults>>

-----------------------------------------------------------------------------

(* The steps of a call once it was accepted, and the recovery a daemon       *)
(* start or a switch recovery attempts as long as a journal is pending.      *)
Continue(p) ==
  \/ WriteJournal(p)
  \/ BeginPublish(p)
  \/ RefusePublish(p)
  \/ PublishMedia(p)
  \/ \E f \in Files : ApplyFile(p, f)
  \/ Commit(p)
  \/ RemoveJournal(p)

Next ==
  \/ \E p \in Procs :
       \/ \E requested \in State, media \in BOOLEAN : Prepare(p, requested, media)
       \/ \E b \in Backups : PrepareRestore(p, b)
       \/ \E original, undo \in Backups : ResumeRestore(p, original, undo)
       \/ Recover(p)
       \/ Continue(p)
       \/ Interrupt(p)
  \/ \E f \in Files, c \in Value : Edit(f, c)

(* A call that started takes its next step or returns, and the restarted     *)
(* daemon keeps attempting recovery; nobody has to start a transaction.      *)
Fairness ==
  /\ \A p \in Procs : WF_vars(Continue(p))
  /\ WF_vars(\E p \in Procs : Recover(p))

Spec == Init /\ [][Next]_vars
FairSpec == Spec /\ Fairness

-----------------------------------------------------------------------------

(* The type of every variable. *)
TypeOK ==
  /\ live \in State
  /\ journal \in Journal \cup {None}
  /\ backup \in [Backups -> Backup \cup {None}]
  /\ imported \subseteq Backups
  /\ lock \in Procs \cup {None}
  /\ pc \in [Procs -> Steps]
  /\ job \in [Procs -> Job \cup {None}]
  /\ todo \in [Procs -> SUBSET Files]
  /\ edits \in Nat
  /\ faults \in Nat

(* No content is lost: a step of the transaction code replaces a file only   *)
(* when what the file held is retained as a side of a backup, so an edit by  *)
(* another program is never silently overwritten.                            *)
NothingUnsavedOverwritten ==
  [][\A f \in Files :
       live'[f] # live[f] /\ edits' = edits =>
         \E b \in Retained : live[f] \in {backup[b].old[f], backup[b].new[f]}]_vars

(* Managed media is in place before a state that names it: nobody writes the *)
(* new side, and no committed journal exists, while the media of that        *)
(* transaction is still in its staging directory.                            *)
MediaPrecedesState ==
  /\ \A p \in Procs : pc[p] = "applying" /\ ~job[p].undo
       /\ backup[job[p].backup].media => job[p].backup \in imported
  /\ Pending /\ journal.committed /\ backup[journal.backup].media
       => journal.backup \in imported

(* An uncommitted state with an edit the transaction does not know: the code *)
(* asks for manual recovery and touches nothing.                             *)
Blocked == Pending /\ ~journal.committed /\ ~VerifyCurrent(journal.backup, TRUE)

(* A pending journal does not stay pending for ever: the transaction is      *)
(* finished or undone, unless somebody edited the files it is about.         *)
PendingSettles == Pending ~> (~Pending \/ Blocked)

(* What the next daemon start will find once recovery ran: an uncommitted    *)
(* transaction counts as its old side.                                       *)
Effective ==
  [f \in Files |->
     IF /\ Pending
        /\ ~journal.committed
        /\ live[f] = backup[journal.backup].new[f]
     THEN backup[journal.backup].old[f]
     ELSE live[f]]

SavedStates == UNION {{backup[b].old, backup[b].new} : b \in Retained}

Abstract == INSTANCE AtomicState WITH state <- Effective, saved <- SavedStates

(* The journalled transaction implements the atomic one: whatever the        *)
(* interleaving, the failures and the edits, the state found after recovery  *)
(* changes as a whole, to a retained state, or by a single edit.             *)
ImplementsAtomicState == Abstract!Spec

=============================================================================
