SPECIFICATION FairSpec
CONSTANTS
  Files = {f1, f2}
  Contents = {c1, c2}
  Absent = Absent
  Procs = {p1, p2}
  Backups = {b1, b2}
  None = None
  Initial <- NoSettings
  MaxEdits = 1
  MaxFaults = 2
INVARIANTS
  TypeOK
  MediaPrecedesState
PROPERTIES
  NothingUnsavedOverwritten
  ImplementsAtomicState
  PendingSettles
CHECK_DEADLOCK FALSE
