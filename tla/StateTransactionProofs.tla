----------------------- MODULE StateTransactionProofs -----------------------
(***************************************************************************)
(* Proofs that StateTransaction keeps its inductive invariant, publishes   *)
(* media before state, never overwrites unsaved content and implements     *)
(* AtomicState, for every set of files, contents, processes and backups.   *)
(***************************************************************************)

EXTENDS StateTransaction, TLAPS

(* Only the lock holder is inside a call. *)
LockInv == \A p \in Procs : pc[p] # "idle" <=> lock = p

(* A pending journal names a retained backup. *)
JournalInv == Pending => journal.backup \in Retained

(* What a process that is inside a call knows of the disk. *)
CallInv(p) ==
  /\ pc[p] # "idle" => job[p] \in Job /\ job[p].backup \in Retained
  /\ pc[p] = "staged" => /\ ~Pending
                         /\ ~job[p].undo
                         /\ live = backup[job[p].backup].old
  /\ pc[p] \in {"ready", "media", "applying"} =>
       journal = [backup |-> job[p].backup, committed |-> FALSE]
  /\ pc[p] \in {"ready", "media"} => ~job[p].undo
  /\ pc[p] = "applying" =>
       /\ VerifyCurrent(job[p].backup, TRUE)
       /\ \A f \in Files \ todo[p] : live[f] = Side(p)[f]
       /\ ~job[p].undo /\ backup[job[p].backup].media
            => job[p].backup \in imported
  /\ pc[p] = "settling" =>
       journal = [backup |-> job[p].backup, committed |-> TRUE]

CommittedInv ==
  Pending /\ journal.committed /\ backup[journal.backup].media
    => journal.backup \in imported

(* The inductive invariant. *)
IInv ==
  /\ TypeOK
  /\ LockInv
  /\ JournalInv
  /\ \A p \in Procs : CallInv(p)
  /\ CommittedInv


-----------------------------------------------------------------------------

(* A retained backup holds two complete states. *)
LEMMA RetainedBackup ==
  ASSUME TypeOK, NEW b \in Retained
  PROVE  /\ b \in Backups
         /\ backup[b] \in Backup
         /\ backup[b].old \in State
         /\ backup[b].new \in State
         /\ backup[b].media \in BOOLEAN
<1>1. b \in Backups /\ backup[b] # None
  BY DEF Retained
<1>2. backup[b] \in Backup
  BY <1>1 DEF TypeOK
<1> QED
  BY <1>1, <1>2 DEF Backup

(* The process inside a call is the only one that is not idle. *)
LEMMA OthersIdle ==
  ASSUME LockInv, NEW p \in Procs, NEW q \in Procs, pc[p] # "idle", q # p
  PROVE  pc[q] = "idle" /\ lock = p
BY DEF LockInv

(* While the lock is free every process is idle. *)
LEMMA FreeMeansIdle ==
  ASSUME TypeOK, LockInv, lock = None
  PROVE  \A q \in Procs : pc[q] = "idle"
BY NoneAssumption DEF LockInv, TypeOK

(* The lock discipline survives a process entering, continuing and leaving.  *)
LEMMA EnterKeepsLock ==
  ASSUME TypeOK, LockInv, NEW p \in Procs, NEW s \in Steps, s # "idle",
         pc' = [pc EXCEPT ![p] = s],
         \/ lock = None /\ lock' = p
         \/ pc[p] # "idle" /\ lock' = lock
  PROVE  LockInv'
<1>1. CASE lock = None /\ lock' = p
  BY <1>1, FreeMeansIdle DEF LockInv, TypeOK
<1>2. CASE pc[p] # "idle" /\ lock' = lock
  BY <1>2 DEF LockInv, TypeOK
<1> QED
  BY <1>1, <1>2

(* The process that leaves was the only one not idle. *)
LEMMA LeaveKeepsLock ==
  ASSUME TypeOK, LockInv, NEW p \in Procs, pc[p] # "idle", Leave(p)
  PROVE  LockInv' /\ \A q \in Procs : pc'[q] = "idle"
<1>1. pc' = [pc EXCEPT ![p] = "idle"] /\ lock' = None
  BY DEF Leave, Enter
<1>2. \A q \in Procs : pc'[q] = "idle"
  BY <1>1, OthersIdle DEF TypeOK
<1>3. \A q \in Procs : q # None
  BY NoneAssumption
<1> QED
  BY <1>1, <1>2, <1>3 DEF LockInv

(* An idle process is under no obligation. *)
LEMMA IdleCall ==
  ASSUME NEW q \in Procs, pc'[q] = "idle"
  PROVE  CallInv(q)'
BY DEF CallInv

(* The invariant holds initially. *)
LEMMA InitIInv == Init => IInv
<1> SUFFICES ASSUME Init PROVE IInv
  OBVIOUS
<1>1. TypeOK
  BY InitialAssumption DEF Init, TypeOK, Steps
<1>2. LockInv
  BY NoneAssumption DEF Init, LockInv
<1>3. JournalInv /\ CommittedInv
  BY DEF Init, JournalInv, CommittedInv, Pending
<1>4. \A p \in Procs : CallInv(p)
  BY DEF Init, CallInv
<1> QED
  BY <1>1, <1>2, <1>3, <1>4 DEF IInv

(* Preparing a transaction keeps the invariant: the new backup directory     *)
(* was unused, so what the others retain is unchanged.                       *)
LEMMA PrepareStep ==
  ASSUME IInv, NEW p \in Procs, NEW requested \in State,
         NEW media \in BOOLEAN, Prepare(p, requested, media)
  PROVE  IInv'
<1> USE DEF IInv
<1>1. PICK b \in Backups \ Retained :
        /\ backup' = [backup EXCEPT ![b] =
                        [old |-> live, new |-> requested, media |-> media]]
        /\ lock' = p
        /\ Enter(p, "staged", [backup |-> b, resume |-> FALSE, undo |-> FALSE])
  BY DEF Prepare
<1>2. /\ pc[p] = "idle" /\ lock = None /\ ~Pending
      /\ UNCHANGED <<live, journal, imported, todo, bounds>>
  BY DEF Prepare, LockFree
<1>3. [old |-> live, new |-> requested, media |-> media] \in Backup
  BY DEF TypeOK, Backup
<1>4. backup'[b] = [old |-> live, new |-> requested, media |-> media]
  BY <1>1 DEF TypeOK
<1>5. b \in Retained'
  BY <1>1, <1>3, <1>4, NoneAssumption DEF Retained
<1>6. [backup |-> b, resume |-> FALSE, undo |-> FALSE] \in Job
  BY DEF Job
<1>7. TypeOK'
  BY <1>1, <1>2, <1>3, <1>6 DEF TypeOK, Enter, bounds, Steps
<1>8. LockInv'
  BY <1>1, <1>2, EnterKeepsLock DEF Enter, Steps
<1>9. ~Pending'
  BY <1>2 DEF Pending
<1>10. \A q \in Procs : CallInv(q)'
  <2> TAKE q \in Procs
  <2>1. CASE q = p
    <3>1. pc'[p] = "staged"
          /\ job'[p] = [backup |-> b, resume |-> FALSE, undo |-> FALSE]
      BY <1>1 DEF Enter, TypeOK
    <3> QED
      BY <2>1, <3>1, <1>2, <1>4, <1>5, <1>6, <1>9 DEF CallInv
  <2>2. CASE q # p
    <3>1. pc'[q] = "idle"
      BY <2>2, <1>1, <1>2, FreeMeansIdle DEF Enter, TypeOK
    <3> QED
      BY <3>1, IdleCall
  <2> QED
    BY <2>1, <2>2
<1> QED
  BY <1>7, <1>8, <1>9, <1>10 DEF JournalInv, CommittedInv

(* Writing the journal: it names the backup the process just made. *)
LEMMA WriteJournalStep ==
  ASSUME IInv, NEW p \in Procs, WriteJournal(p)
  PROVE  IInv'
<1> USE DEF IInv
<1>1. /\ pc[p] = "staged"
      /\ journal' = [backup |-> job[p].backup, committed |-> FALSE]
      /\ pc' = [pc EXCEPT ![p] = "ready"]
      /\ job' = [job EXCEPT ![p] = job[p]]
      /\ UNCHANGED <<live, backup, imported, lock, todo, bounds>>
  BY DEF WriteJournal, Enter
<1>2. job[p] \in Job /\ job[p].backup \in Retained /\ ~job[p].undo
  BY <1>1 DEF CallInv
<1>3. journal' \in Journal
  BY <1>1, <1>2 DEF Journal, Retained
<1>4. TypeOK'
  BY <1>1, <1>2, <1>3 DEF TypeOK, bounds, Steps
<1>5. LockInv'
  BY <1>1, EnterKeepsLock DEF Steps
<1>6. JournalInv' /\ CommittedInv'
  BY <1>1, <1>2 DEF JournalInv, CommittedInv, Pending, Retained
<1>7. \A q \in Procs : CallInv(q)'
  <2> TAKE q \in Procs
  <2>1. CASE q = p
    BY <2>1, <1>1, <1>2 DEF CallInv, TypeOK, Retained
  <2>2. CASE q # p
    BY <2>2, <1>1, OthersIdle, IdleCall DEF TypeOK
  <2> QED
    BY <2>1, <2>2
<1> QED
  BY <1>4, <1>5, <1>6, <1>7

(* Resuming a restoration writes a journal for the undo backup. *)
LEMMA ResumeRestoreStep ==
  ASSUME IInv, NEW p \in Procs, NEW original \in Backups, NEW undo \in Backups,
         ResumeRestore(p, original, undo)
  PROVE  IInv'
<1> USE DEF IInv
<1> DEFINE j == [backup |-> undo, resume |-> TRUE, undo |-> FALSE]
<1>1. /\ pc[p] = "idle" /\ lock = None
      /\ undo \in Retained
      /\ journal' = [backup |-> undo, committed |-> FALSE]
      /\ lock' = p
      /\ pc' = [pc EXCEPT ![p] = "ready"]
      /\ job' = [job EXCEPT ![p] = j]
      /\ UNCHANGED <<live, backup, imported, todo, bounds>>
  BY DEF ResumeRestore, LockFree, Enter
<1>2. j \in Job /\ j.backup = undo /\ ~j.undo
  BY DEF Job
<1>3. journal' \in Journal
  BY <1>1 DEF Journal
<1>4. TypeOK'
  BY <1>1, <1>2, <1>3 DEF TypeOK, bounds, Steps
<1>5. LockInv'
  BY <1>1, EnterKeepsLock DEF Steps
<1>6. JournalInv' /\ CommittedInv'
  BY <1>1 DEF JournalInv, CommittedInv, Pending, Retained
<1>7. \A q \in Procs : CallInv(q)'
  <2> TAKE q \in Procs
  <2>1. CASE q = p
    <3>1. job'[p] = j /\ pc'[p] = "ready"
      BY <1>1 DEF TypeOK
    <3> QED
      BY <2>1, <3>1, <1>1, <1>2 DEF CallInv, Retained
  <2>2. CASE q # p
    BY <2>2, <1>1, FreeMeansIdle, IdleCall DEF TypeOK
  <2> QED
    BY <2>1, <2>2
<1> QED
  BY <1>4, <1>5, <1>6, <1>7

(* Starting to publish: files are still old, or old and new when resumed. *)
LEMMA BeginPublishStep ==
  ASSUME IInv, NEW p \in Procs, BeginPublish(p)
  PROVE  IInv'
<1> USE DEF IInv
<1>1. /\ pc[p] = "ready"
      /\ VerifyCurrent(job[p].backup, job[p].resume)
      /\ UNCHANGED <<live, journal, backup, imported, lock, bounds>>
  BY DEF BeginPublish, Publishable, disk
<1>2. /\ job[p] \in Job /\ job[p].backup \in Retained /\ ~job[p].undo
      /\ journal = [backup |-> job[p].backup, committed |-> FALSE]
  BY <1>1 DEF CallInv
<1>3. VerifyCurrent(job[p].backup, TRUE)
  BY <1>1 DEF VerifyCurrent
<1>4. JournalInv' /\ CommittedInv'
  BY <1>1 DEF JournalInv, CommittedInv, Pending, Retained
<1>5. CASE /\ backup[job[p].backup].media
           /\ pc' = [pc EXCEPT ![p] = "media"]
           /\ job' = [job EXCEPT ![p] = job[p]]
           /\ UNCHANGED todo
  <2>1. TypeOK'
    BY <1>1, <1>2, <1>5 DEF TypeOK, bounds, Steps
  <2>2. LockInv'
    BY <1>1, <1>5, EnterKeepsLock DEF Steps
  <2>3. CallInv(p)'
    BY <1>1, <1>2, <1>5 DEF CallInv, TypeOK, Retained
  <2>4. \A q \in Procs : q # p => CallInv(q)'
    BY <1>1, <1>5, OthersIdle, IdleCall DEF TypeOK
  <2> QED
    BY <2>1, <2>2, <2>3, <2>4, <1>4
<1>6. CASE /\ ~backup[job[p].backup].media
           /\ pc' = [pc EXCEPT ![p] = "applying"]
           /\ job' = [job EXCEPT ![p] = job[p]]
           /\ todo' = [todo EXCEPT ![p] = Files]
  <2>1. TypeOK'
    BY <1>1, <1>2, <1>6 DEF TypeOK, bounds, Steps
  <2>2. LockInv'
    BY <1>1, <1>6, EnterKeepsLock DEF Steps
  <2>3. CallInv(p)'
    BY <1>1, <1>2, <1>3, <1>6 DEF CallInv, TypeOK, Retained, VerifyCurrent
  <2>4. \A q \in Procs : q # p => CallInv(q)'
    BY <1>1, <1>6, OthersIdle, IdleCall DEF TypeOK
  <2> QED
    BY <2>1, <2>2, <2>3, <2>4, <1>4
<1> QED
  BY <1>5, <1>6 DEF BeginPublish, Enter

(* Publishing media: the transaction's media is imported before any write.   *)
LEMMA PublishMediaStep ==
  ASSUME IInv, NEW p \in Procs, PublishMedia(p)
  PROVE  IInv'
<1> USE DEF IInv
<1>1. /\ pc[p] = "media"
      /\ imported' = imported \cup {job[p].backup}
      /\ VerifyCurrent(job[p].backup, FALSE)
      /\ pc' = [pc EXCEPT ![p] = "applying"]
      /\ job' = [job EXCEPT ![p] = job[p]]
      /\ todo' = [todo EXCEPT ![p] = Files]
      /\ UNCHANGED <<live, journal, backup, lock, bounds>>
  BY DEF PublishMedia, Enter
<1>2. /\ job[p] \in Job /\ job[p].backup \in Retained /\ ~job[p].undo
      /\ job[p].backup \in Backups
      /\ journal = [backup |-> job[p].backup, committed |-> FALSE]
  BY <1>1 DEF CallInv, Retained
<1>3. VerifyCurrent(job[p].backup, TRUE)
  BY <1>1 DEF VerifyCurrent
<1>4. TypeOK'
  BY <1>1, <1>2 DEF TypeOK, bounds, Steps
<1>5. LockInv'
  BY <1>1, EnterKeepsLock DEF Steps
<1>6. JournalInv' /\ CommittedInv'
  BY <1>1 DEF JournalInv, CommittedInv, Pending, Retained
<1>7. CallInv(p)'
  BY <1>1, <1>2, <1>3 DEF CallInv, TypeOK, Retained, VerifyCurrent
<1>8. \A q \in Procs : q # p => CallInv(q)'
  BY <1>1, OthersIdle, IdleCall DEF TypeOK
<1> QED
  BY <1>4, <1>5, <1>6, <1>7, <1>8

(* Writing one file keeps every file on one of the two sides. *)
LEMMA ApplyFileStep ==
  ASSUME IInv, NEW p \in Procs, NEW f \in Files, ApplyFile(p, f)
  PROVE  IInv'
<1> USE DEF IInv
<1>1. /\ pc[p] = "applying" /\ f \in todo[p]
      /\ live' = [live EXCEPT ![f] = Side(p)[f]]
      /\ todo' = [todo EXCEPT ![p] = todo[p] \ {f}]
      /\ UNCHANGED <<journal, backup, imported, lock, pc, job, bounds>>
  BY DEF ApplyFile
<1>2. /\ job[p] \in Job /\ job[p].backup \in Retained
      /\ VerifyCurrent(job[p].backup, TRUE)
      /\ \A g \in Files \ todo[p] : live[g] = Side(p)[g]
  BY <1>1 DEF CallInv
<1>3. /\ backup[job[p].backup].old \in State
      /\ backup[job[p].backup].new \in State
  BY <1>2, RetainedBackup
<1>4. Side(p) \in State /\ Side(p)' = Side(p)
  BY <1>1, <1>3 DEF Side
<1>5. TypeOK'
  BY <1>1, <1>4 DEF TypeOK, bounds, State
<1>6. LockInv' /\ JournalInv' /\ CommittedInv'
  BY <1>1 DEF LockInv, JournalInv, CommittedInv, Pending, Retained
<1>7. CallInv(p)'
  <2>1. VerifyCurrent(job[p].backup, TRUE)'
    BY <1>1, <1>2, <1>3 DEF VerifyCurrent, Side, TypeOK, State
  <2>2. \A g \in Files \ todo'[p] : live'[g] = Side(p)'[g]
    BY <1>1, <1>2, <1>4 DEF TypeOK, State
  <2> QED
    BY <1>1, <1>2, <2>1, <2>2 DEF CallInv, Retained, VerifyCurrent
<1>8. \A q \in Procs : q # p => CallInv(q)'
  BY <1>1, OthersIdle, IdleCall DEF TypeOK
<1> QED
  BY <1>5, <1>6, <1>7, <1>8

(* Committing: the journal of the published backup is marked committed. *)
LEMMA CommitStep ==
  ASSUME IInv, NEW p \in Procs, Commit(p)
  PROVE  IInv'
<1> USE DEF IInv
<1>1. /\ pc[p] = "applying" /\ ~job[p].undo
      /\ journal' = [backup |-> job[p].backup, committed |-> TRUE]
      /\ pc' = [pc EXCEPT ![p] = "settling"]
      /\ job' = [job EXCEPT ![p] = job[p]]
      /\ UNCHANGED <<live, backup, imported, lock, todo, bounds>>
  BY DEF Commit, Enter
<1>2. /\ job[p] \in Job /\ job[p].backup \in Retained
      /\ job[p].backup \in Backups
      /\ backup[job[p].backup].media => job[p].backup \in imported
  BY <1>1 DEF CallInv, Retained
<1>3. TypeOK'
  BY <1>1, <1>2 DEF TypeOK, bounds, Steps, Journal
<1>4. LockInv'
  BY <1>1, EnterKeepsLock DEF Steps
<1>5. JournalInv' /\ CommittedInv'
  BY <1>1, <1>2 DEF JournalInv, CommittedInv, Pending, Retained
<1>6. CallInv(p)'
  BY <1>1, <1>2 DEF CallInv, TypeOK, Retained
<1>7. \A q \in Procs : q # p => CallInv(q)'
  BY <1>1, OthersIdle, IdleCall DEF TypeOK
<1> QED
  BY <1>3, <1>4, <1>5, <1>6, <1>7

(* Recovery takes the lock on behalf of the backup the journal names. *)
LEMMA RecoverStep ==
  ASSUME IInv, NEW p \in Procs, Recover(p)
  PROVE  IInv'
<1> USE DEF IInv
<1> DEFINE j == [backup |-> journal.backup, resume |-> FALSE, undo |-> TRUE]
<1>1. /\ pc[p] = "idle" /\ lock = None /\ Pending /\ lock' = p
      /\ UNCHANGED <<live, journal, backup, imported, bounds>>
      /\ job' = [job EXCEPT ![p] = j]
  BY DEF Recover, LockFree, Enter, disk
<1>2. /\ journal \in Journal /\ journal.backup \in Retained
      /\ journal.backup \in Backups
  BY <1>1 DEF JournalInv, TypeOK, Pending, Retained
<1>3. j \in Job /\ j.backup = journal.backup /\ j.undo
  BY <1>2 DEF Job
<1>4. JournalInv' /\ CommittedInv'
  BY <1>1, <1>2 DEF JournalInv, CommittedInv, Pending, Retained
<1>5. \A q \in Procs : q # p => pc[q] = "idle"
  BY <1>1, FreeMeansIdle
<1>6. CASE /\ journal.committed
           /\ pc' = [pc EXCEPT ![p] = "settling"]
           /\ UNCHANGED todo
  <2>1. TypeOK'
    BY <1>1, <1>3, <1>6 DEF TypeOK, bounds, Steps
  <2>2. LockInv'
    BY <1>1, <1>6, EnterKeepsLock DEF Steps
  <2>3. journal = [backup |-> j.backup, committed |-> TRUE]
    BY <1>2, <1>6 DEF Journal
  <2>4. job'[p] = j /\ pc'[p] = "settling"
    BY <1>1, <1>6 DEF TypeOK
  <2>5. CallInv(p)'
    BY <1>1, <1>2, <1>3, <2>3, <2>4 DEF CallInv, Retained
  <2>6. \A q \in Procs : q # p => CallInv(q)'
    BY <1>5, <1>6, IdleCall DEF TypeOK
  <2> QED
    BY <2>1, <2>2, <2>5, <2>6, <1>4
<1>7. CASE /\ ~journal.committed
           /\ VerifyCurrent(journal.backup, TRUE)
           /\ pc' = [pc EXCEPT ![p] = "applying"]
           /\ todo' = [todo EXCEPT ![p] = Files]
  <2>1. TypeOK'
    BY <1>1, <1>3, <1>7 DEF TypeOK, bounds, Steps
  <2>2. LockInv'
    BY <1>1, <1>7, EnterKeepsLock DEF Steps
  <2>3. journal = [backup |-> j.backup, committed |-> FALSE]
    BY <1>2, <1>7 DEF Journal
  <2>4. job'[p] = j /\ pc'[p] = "applying" /\ todo'[p] = Files
    BY <1>1, <1>7 DEF TypeOK
  <2>5. CallInv(p)'
    BY <1>1, <1>2, <1>3, <1>7, <2>3, <2>4 DEF CallInv, Retained, VerifyCurrent
  <2>6. \A q \in Procs : q # p => CallInv(q)'
    BY <1>5, <1>7, IdleCall DEF TypeOK
  <2> QED
    BY <2>1, <2>2, <2>5, <2>6, <1>4
<1> QED
  BY <1>6, <1>7 DEF Recover, Enter

(* Leaving a call, with the journal left alone or removed. *)
LEMMA LeaveStep ==
  ASSUME IInv, NEW p \in Procs, pc[p] # "idle", Leave(p),
         UNCHANGED <<live, backup, imported>>,
         journal' \in {journal, None},
         edits' \in Nat, faults' \in Nat
  PROVE  IInv'
<1> USE DEF IInv
<1>1. TypeOK'
  BY DEF TypeOK, Leave, Enter, Steps
<1>2. LockInv' /\ \A q \in Procs : CallInv(q)'
  BY LeaveKeepsLock, IdleCall
<1>3. JournalInv' /\ CommittedInv'
  BY DEF JournalInv, CommittedInv, Pending, Retained
<1> QED
  BY <1>1, <1>2, <1>3

(* An edit while no call is between its verification and its end. *)
LEMMA EditStep ==
  ASSUME IInv, NEW f \in Files, NEW c \in Value, Edit(f, c)
  PROVE  IInv'
<1> USE DEF IInv
<1>1. /\ \A p \in Procs : pc[p] \in {"idle", "ready"}
      /\ edits' = edits + 1
      /\ live' = [live EXCEPT ![f] = c]
      /\ UNCHANGED <<journal, backup, imported, lock, pc, job, todo, faults>>
  BY DEF Edit, Quiescent, process
<1>2. TypeOK'
  BY <1>1 DEF TypeOK, State
<1>3. LockInv' /\ JournalInv' /\ CommittedInv'
  BY <1>1 DEF LockInv, JournalInv, CommittedInv, Pending, Retained
<1>4. \A p \in Procs : CallInv(p)'
  BY <1>1 DEF CallInv, Retained
<1> QED
  BY <1>2, <1>3, <1>4

(* Every step preserves the inductive invariant. *)
LEMMA NextIInv == IInv /\ [Next]_vars => IInv'
<1> SUFFICES ASSUME IInv, [Next]_vars PROVE IInv'
  OBVIOUS
<1>1. ASSUME NEW p \in Procs, NEW requested \in State, NEW media \in BOOLEAN,
             Prepare(p, requested, media)
      PROVE  IInv'
  BY <1>1, PrepareStep
<1>2. ASSUME NEW p \in Procs, NEW b \in Backups, PrepareRestore(p, b)
      PROVE  IInv'
  <2>1. backup[b].old \in State
    BY <1>2, RetainedBackup DEF PrepareRestore, IInv
  <2> QED
    BY <1>2, <2>1, PrepareStep DEF PrepareRestore
<1>3. ASSUME NEW p \in Procs, NEW original \in Backups, NEW undo \in Backups,
             ResumeRestore(p, original, undo)
      PROVE  IInv'
  BY <1>3, ResumeRestoreStep
<1>4. ASSUME NEW p \in Procs, Recover(p) PROVE IInv'
  BY <1>4, RecoverStep
<1>5. ASSUME NEW p \in Procs, WriteJournal(p) PROVE IInv'
  BY <1>5, WriteJournalStep
<1>6. ASSUME NEW p \in Procs, BeginPublish(p) PROVE IInv'
  BY <1>6, BeginPublishStep
<1>7. ASSUME NEW p \in Procs, RefusePublish(p) PROVE IInv'
  BY <1>7, LeaveStep DEF RefusePublish, disk, bounds, IInv, TypeOK
<1>8. ASSUME NEW p \in Procs, PublishMedia(p) PROVE IInv'
  BY <1>8, PublishMediaStep
<1>9. ASSUME NEW p \in Procs, NEW f \in Files, ApplyFile(p, f) PROVE IInv'
  BY <1>9, ApplyFileStep
<1>10. ASSUME NEW p \in Procs, Commit(p) PROVE IInv'
  BY <1>10, CommitStep
<1>11. ASSUME NEW p \in Procs, RemoveJournal(p) PROVE IInv'
  BY <1>11, LeaveStep DEF RemoveJournal, Undone, bounds, IInv, TypeOK
<1>12. ASSUME NEW p \in Procs, Interrupt(p) PROVE IInv'
  BY <1>12, LeaveStep DEF Interrupt, disk, IInv, TypeOK
<1>13. ASSUME NEW f \in Files, NEW c \in Value, Edit(f, c) PROVE IInv'
  BY <1>13, EditStep
<1>14. ASSUME UNCHANGED vars PROVE IInv'
  BY <1>14 DEF vars, disk, process, bounds, IInv, TypeOK, LockInv, JournalInv,
     CallInv, CommittedInv, Pending, Retained, VerifyCurrent, Side
<1> QED
  BY <1>1, <1>2, <1>3, <1>4, <1>5, <1>6, <1>7, <1>8, <1>9, <1>10, <1>11,
     <1>12, <1>13, <1>14 DEF Next, Continue

-----------------------------------------------------------------------------

(* The inductive invariant holds in every behaviour. *)
THEOREM Invariance == Spec => []IInv
<1>1. Init => IInv
  BY InitIInv
<1>2. IInv /\ [Next]_vars => IInv'
  BY NextIInv
<1> QED
  BY <1>1, <1>2, PTL DEF Spec

(* Every variable keeps its type. *)
THEOREM TypeCorrect == Spec => []TypeOK
<1>1. IInv => TypeOK
  BY DEF IInv
<1> QED
  BY <1>1, Invariance, PTL

(* Media is imported before the files that may name it are written, and a    *)
(* committed journal never leaves media behind in staging.                   *)
THEOREM MediaFirst == Spec => []MediaPrecedesState
<1>1. IInv => MediaPrecedesState
  BY DEF IInv, CallInv, CommittedInv, MediaPrecedesState, Pending
<1> QED
  BY <1>1, Invariance, PTL

(* One step never loses content that no backup retains. *)
LEMMA StepOverwritesOnlySaved ==
  ASSUME IInv, [Next]_vars, NEW f \in Files, live'[f] # live[f], edits' = edits
  PROVE  \E b \in Retained : live[f] \in {backup[b].old[f], backup[b].new[f]}
<1> USE DEF IInv
<1>1. ASSUME NEW p \in Procs, NEW g \in Files, ApplyFile(p, g)
      PROVE  \E b \in Retained :
               live[f] \in {backup[b].old[f], backup[b].new[f]}
  <2>1. job[p].backup \in Retained /\ VerifyCurrent(job[p].backup, TRUE)
    BY <1>1 DEF ApplyFile, CallInv
  <2> QED
    BY <2>1 DEF VerifyCurrent
<1>2. ASSUME NEW g \in Files, NEW c \in Value, Edit(g, c)
      PROVE  FALSE
  BY <1>2 DEF Edit, TypeOK
<1>3. CASE UNCHANGED vars
  BY <1>3 DEF vars, disk
<1>4. ASSUME NEW p \in Procs,
             \/ \E requested \in State, media \in BOOLEAN :
                  Prepare(p, requested, media)
             \/ \E b \in Backups : PrepareRestore(p, b)
             \/ \E original, undo \in Backups : ResumeRestore(p, original, undo)
             \/ Recover(p) \/ WriteJournal(p) \/ BeginPublish(p)
             \/ RefusePublish(p) \/ PublishMedia(p) \/ Commit(p)
             \/ RemoveJournal(p) \/ Interrupt(p)
      PROVE  live' = live
  BY <1>4 DEF Prepare, PrepareRestore, ResumeRestore, Recover, WriteJournal,
     BeginPublish, RefusePublish, PublishMedia, Commit, RemoveJournal,
     Interrupt, disk
<1> QED
  BY <1>1, <1>2, <1>3, <1>4 DEF Next, Continue

(* No step of the transaction code overwrites an edit nobody saved. *)
THEOREM EditsPreserved == Spec => NothingUnsavedOverwritten
<1>1. IInv /\ [Next]_vars =>
        [\A f \in Files :
           live'[f] # live[f] /\ edits' = edits =>
             \E b \in Retained :
               live[f] \in {backup[b].old[f], backup[b].new[f]}]_vars
  BY StepOverwritesOnlySaved
<1> QED
  BY <1>1, Invariance, PTL DEF Spec, NothingUnsavedOverwritten

-----------------------------------------------------------------------------

(* The effective state is a complete state. *)
LEMMA EffectiveType == IInv => Effective \in State
<1> SUFFICES ASSUME IInv PROVE Effective \in State
  OBVIOUS
<1> USE DEF IInv
<1>1. ASSUME NEW f \in Files, Pending
      PROVE  backup[journal.backup].old[f] \in Value
  BY <1>1, RetainedBackup DEF JournalInv, State
<1>2. \A f \in Files : live[f] \in Value
  BY DEF TypeOK, State
<1> QED
  BY <1>1, <1>2 DEF Effective, State

(* A step that leaves files, journal and backups alone is a stutter. *)
LEMMA DiskStutters ==
  ASSUME UNCHANGED <<live, journal, backup, edits>>
  PROVE  UNCHANGED Abstract!vars
BY DEF Abstract!vars, Effective, SavedStates, Pending, Retained

(* Preparing retains the current and the requested state. *)
LEMMA PrepareRefines ==
  ASSUME IInv, NEW p \in Procs, NEW requested \in State,
         NEW media \in BOOLEAN, Prepare(p, requested, media)
  PROVE  Abstract!Retain(requested)
<1> USE DEF IInv
<1>1. PICK b \in Backups \ Retained :
        backup' = [backup EXCEPT ![b] =
                     [old |-> live, new |-> requested, media |-> media]]
  BY DEF Prepare
<1>2. ~Pending /\ UNCHANGED <<live, journal, edits>>
  BY DEF Prepare, bounds
<1>3. Effective = live /\ Effective' = live
  BY <1>2 DEF Effective, Pending, TypeOK, State
<1>4. backup'[b] = [old |-> live, new |-> requested, media |-> media]
      /\ \A c \in Backups : c # b => backup'[c] = backup[c]
  BY <1>1 DEF TypeOK
<1>5. backup'[b] # None
  <2>1. backup'[b] \in Backup
    BY <1>4 DEF Backup, TypeOK
  <2> QED
    BY <2>1, NoneAssumption
<1>6. Retained' = Retained \cup {b}
  BY <1>1, <1>4, <1>5 DEF Retained
<1>7. SavedStates' = SavedStates \cup {live, requested}
  <2>1. \A c \in Retained : backup'[c] = backup[c]
    BY <1>1, <1>4 DEF Retained
  <2> QED
    BY <1>4, <1>6, <2>1 DEF SavedStates
<1> QED
  BY <1>2, <1>3, <1>7 DEF Abstract!Retain

(* Every step is a step of AtomicState or leaves its variables alone. *)
LEMMA StepRefines ==
  ASSUME IInv, [Next]_vars
  PROVE  [Abstract!Next]_Abstract!vars
<1> USE DEF IInv
<1>1. ASSUME NEW p \in Procs, NEW requested \in State, NEW media \in BOOLEAN,
             Prepare(p, requested, media)
      PROVE  Abstract!Next
  BY <1>1, PrepareRefines DEF Abstract!Next, Abstract!State, State, Value
<1>2. ASSUME NEW p \in Procs, NEW b \in Backups, PrepareRestore(p, b)
      PROVE  Abstract!Next
  <2>1. backup[b].old \in State
    BY <1>2, RetainedBackup DEF PrepareRestore
  <2> QED
    BY <1>2, <2>1, <1>1 DEF PrepareRestore
<1>3. ASSUME NEW p \in Procs, NEW original \in Backups, NEW undo \in Backups,
             ResumeRestore(p, original, undo)
      PROVE  Abstract!Next
  <2>1. /\ undo \in Retained
        /\ VerifyCurrent(undo, TRUE)
        /\ journal' = [backup |-> undo, committed |-> FALSE]
        /\ UNCHANGED <<live, backup, edits>>
    BY <1>3 DEF ResumeRestore, bounds
  <2>2. backup[undo].old \in State
    BY <2>1, RetainedBackup
  <2>3. journal' # None
    <3>1. journal' \in Journal
      BY <2>1 DEF Journal
    <3> QED
      BY <3>1, NoneAssumption
  <2>4. Effective' = backup[undo].old
    BY <2>1, <2>2, <2>3 DEF Effective, Pending, VerifyCurrent, State
  <2>5. backup[undo].old \in SavedStates /\ SavedStates' = SavedStates
    BY <2>1 DEF SavedStates, Retained
  <2> QED
    BY <2>1, <2>4, <2>5 DEF Abstract!Next, Abstract!Replace
<1>4. ASSUME NEW p \in Procs, WriteJournal(p)
      PROVE  UNCHANGED Abstract!vars
  <2>1. /\ ~Pending /\ live = backup[job[p].backup].old
        /\ journal' = [backup |-> job[p].backup, committed |-> FALSE]
        /\ UNCHANGED <<live, backup, edits>>
    BY <1>4 DEF WriteJournal, CallInv, bounds
  <2>2. Effective = live
    BY <2>1 DEF Effective, TypeOK, State
  <2>3. Effective' = live
    BY <2>1 DEF Effective, TypeOK, State
  <2> QED
    BY <2>1, <2>2, <2>3 DEF Abstract!vars, SavedStates, Retained
<1>5. ASSUME NEW p \in Procs, NEW f \in Files, ApplyFile(p, f)
      PROVE  UNCHANGED Abstract!vars
  <2>1. /\ job[p].backup \in Retained
        /\ VerifyCurrent(job[p].backup, TRUE)
        /\ journal = [backup |-> job[p].backup, committed |-> FALSE]
        /\ live' = [live EXCEPT ![f] = Side(p)[f]]
        /\ UNCHANGED <<journal, backup, edits>>
    BY <1>5 DEF ApplyFile, CallInv, bounds
  <2>2. journal # None
    <3>1. journal \in Journal
      BY <2>1 DEF Journal, Retained
    <3> QED
      BY <3>1, NoneAssumption
  <2>3. \A g \in Files : Effective[g] = backup[job[p].backup].old[g]
    BY <2>1, <2>2 DEF Effective, VerifyCurrent, Pending
  <2>4. \A g \in Files : live'[g] = backup[job[p].backup].old[g]
                         \/ live'[g] = backup[job[p].backup].new[g]
    BY <2>1 DEF VerifyCurrent, Side, TypeOK, State
  <2>5. \A g \in Files : Effective'[g] = Effective[g]
    BY <2>1, <2>2, <2>3, <2>4 DEF Effective, Pending
  <2>6. Effective' = Effective
    BY <2>5 DEF Effective
  <2> QED
    BY <2>1, <2>6 DEF Abstract!vars, SavedStates, Retained
<1>6. ASSUME NEW p \in Procs, Commit(p)
      PROVE  Abstract!Next
  <2>1. /\ job[p].backup \in Retained
        /\ live = backup[job[p].backup].new
        /\ journal' = [backup |-> job[p].backup, committed |-> TRUE]
        /\ UNCHANGED <<live, backup, edits>>
    BY <1>6 DEF Commit, CallInv, bounds
  <2>2. Effective' = live
    BY <2>1 DEF Effective, TypeOK, State
  <2>3. live \in SavedStates /\ SavedStates' = SavedStates
    BY <2>1 DEF SavedStates, Retained
  <2> QED
    BY <2>1, <2>2, <2>3 DEF Abstract!Next, Abstract!Replace
<1>7. ASSUME NEW p \in Procs, RemoveJournal(p)
      PROVE  UNCHANGED Abstract!vars
  <2>1. journal' = None /\ UNCHANGED <<live, backup, edits>>
    BY <1>7 DEF RemoveJournal, bounds
  <2>2. Effective' = live
    BY <2>1 DEF Effective, Pending, TypeOK, State
  <2>3. Effective = live
    <3>1. CASE pc[p] = "settling"
      <4>1. journal = [backup |-> job[p].backup, committed |-> TRUE]
        BY <3>1 DEF CallInv
      <4>2. journal.committed = TRUE
        BY <4>1
      <4> QED
        BY <4>2 DEF Effective, TypeOK, State
    <3>2. CASE Undone(p)
      <4>1. /\ journal = [backup |-> job[p].backup, committed |-> FALSE]
            /\ \A f \in Files : live[f] = backup[job[p].backup].old[f]
        BY <3>2 DEF Undone, CallInv, Side
      <4> QED
        BY <4>1 DEF Effective, TypeOK, State
    <3> QED
      BY <1>7, <3>1, <3>2 DEF RemoveJournal
  <2> QED
    BY <2>1, <2>2, <2>3 DEF Abstract!vars, SavedStates, Retained
<1>8. ASSUME NEW f \in Files, NEW c \in Value, Edit(f, c)
      PROVE  Abstract!Next
  <2>1. /\ live' = [live EXCEPT ![f] = c] /\ edits' = edits + 1
        /\ UNCHANGED <<journal, backup>>
    BY <1>8 DEF Edit
  <2>2. \A g \in Files : g # f => Effective'[g] = Effective[g]
    BY <2>1 DEF Effective, Pending, TypeOK, State
  <2>3. Effective' \in State
    <3>1. \A g \in Files : live'[g] \in Value
      BY <2>1 DEF TypeOK, State
    <3>2. ASSUME NEW g \in Files, Pending
          PROVE  backup[journal.backup].old[g] \in Value
      BY <3>2, RetainedBackup DEF JournalInv, State
    <3>3. \A g \in Files : Effective'[g] \in Value
      BY <2>1, <3>1, <3>2 DEF Effective, Pending
    <3> QED
      BY <3>3 DEF Effective, State
  <2>4. Effective' = [Effective EXCEPT ![f] = Effective'[f]]
    BY <2>2, <2>3, EffectiveType DEF State
  <2>5. Effective'[f] \in Contents \cup {Absent}
    BY <2>3 DEF State, Value
  <2>6. SavedStates' = SavedStates
    BY <2>1 DEF SavedStates, Retained
  <2> QED
    BY <2>1, <2>4, <2>5, <2>6 DEF Abstract!Next, Abstract!Edit
<1>9. ASSUME NEW p \in Procs,
             \/ Recover(p) \/ BeginPublish(p) \/ RefusePublish(p)
             \/ PublishMedia(p) \/ Interrupt(p)
      PROVE  UNCHANGED Abstract!vars
  BY <1>9, DiskStutters DEF Recover, BeginPublish, RefusePublish, PublishMedia,
     Interrupt, disk, bounds
<1>10. CASE UNCHANGED vars
  BY <1>10, DiskStutters DEF vars, disk, bounds
<1> QED
  BY <1>1, <1>2, <1>3, <1>4, <1>5, <1>6, <1>7, <1>8, <1>9, <1>10
     DEF Next, Continue

(* The journalled, file-by-file transaction implements the atomic one for    *)
(* every set of files, contents, processes and backups.                      *)
THEOREM Refinement == Spec => ImplementsAtomicState
<1>1. Init => Abstract!Init
  BY InitialAssumption
     DEF Init, Abstract!Init, Abstract!State, State, Value, Effective,
     SavedStates, Pending, Retained
<1>2. IInv /\ [Next]_vars => [Abstract!Next]_Abstract!vars
  BY StepRefines
<1> QED
  BY <1>1, <1>2, Invariance, PTL DEF Spec, ImplementsAtomicState, Abstract!Spec

=============================================================================
