SPECIFICATION FairSwitchSpec
CONSTANTS
  User = User
  System = System
  Manual = Manual
  Routes = {User, System}
  Coordinator = Coordinator
  None = None
  Scenarios <- CrossedHost
PROPERTIES
  RecordedStateRetained
CHECK_DEADLOCK FALSE
