SPECIFICATION LiveSpec
CONSTANTS
    Daemons = {1, 2}
    Requests = {r1, r2}
    Operations = {o1, o2}
    MaxPending = 2
    MaxReplacements = 1
    None = None
INVARIANTS
    TypeOK
    SlotsBalanced
    BulkAlone
    NoWriteWhileActing
    OneOperationActs
PROPERTIES
    PermitsReturned
CHECK_DEADLOCK FALSE
