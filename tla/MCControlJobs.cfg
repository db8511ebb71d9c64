SPECIFICATION FairSpec
CONSTANTS
  Recovery = Recovery
  Switch = Switch
  Clients = {c1}
  Triggers = {t1, t2}
  None = None
  Burst = 2
  Loads <- Some
INVARIANTS
  InterruptedIsLost
  RecoversOnlyWhatItSaw
PROPERTIES
  TriggerServed
CHECK_DEADLOCK FALSE
