SPECIFICATION FairSpec
CONSTANTS
  Tx = Tx
  Rx = Rx
  Fan = Fan
  Aio = Aio
  Rgb = Rgb
  None = None
  Backoff <- Rungs
  Slow = 3
  Healthy = 3
  Loads <- Some
INVARIANTS
  TypeOK
  DonglesHandedOver
  NobodyLeftBehind
PROPERTIES
  ResetsPaced
  LinkComesBack
CHECK_DEADLOCK FALSE
