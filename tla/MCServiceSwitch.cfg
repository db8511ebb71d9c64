SPECIFICATION SwitchSpec
CONSTANTS
  User = User
  System = System
  Manual = Manual
  Routes = {User, System, Manual}
  Coordinator = Coordinator
  None = None
  Scenarios <- Safety
INVARIANTS
  SwitchTypeOK
  OnlySelectedServes
  RewrittenWhileStopped
  DestinationHeldBack
  ChangedSettingsHaveBackup
  SubmittedOnce
PROPERTIES
  SwitchIsAtomic
CHECK_DEADLOCK FALSE
