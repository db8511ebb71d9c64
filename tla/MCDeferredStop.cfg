SPECIFICATION FairSwitchSpec
CONSTANTS
  User = User
  System = System
  Manual = Manual
  Routes = {User, System}
  Coordinator = Coordinator
  None = None
  Scenarios <- RestoredSystem
PROPERTIES
  DeferredStopIsBrief
CHECK_DEADLOCK FALSE
