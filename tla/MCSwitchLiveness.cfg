SPECIFICATION FairSwitchSpec
CONSTANTS
  User = User
  System = System
  Manual = Manual
  Routes = {User, System}
  Coordinator = Coordinator
  None = None
  Scenarios <- Liveness
PROPERTIES
  SwitchResolves
  SystemSourceReturns
  RecordedStateRetained
CHECK_DEADLOCK FALSE
