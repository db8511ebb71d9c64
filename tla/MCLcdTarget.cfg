SPECIFICATION FairSpec
CONSTANTS
  Live = Live
  File = File
  None = None
  Tokens = {1, 2, 3, 4, 5}
  Delays <- Waits
  Healthy = 2
  Retries = 2
  Loads <- Some
INVARIANTS
  TypeOK
  PlaysTheSelection
  StreamIsTheSources
  RecreationsBounded
PROPERTIES
  RequestsServed
  InterruptedIsHandled
CHECK_DEADLOCK FALSE
