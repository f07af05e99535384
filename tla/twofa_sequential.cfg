SPECIFICATION Spec
CONSTANTS
    Procs = {p1}
    MaxFailAttempts = 2
    LockoutDuration = 2
    BackupCodeCount = 2
    UpsertOnAnyKey = FALSE
    MaxTime = 5
    MaxIds = 2
    MaxBatches = 2
    MaxFaults = 1
INVARIANTS
    CodesAccountedFor
PROPERTIES
    LockoutHolds
    BackupCodeSingleUse
    StatusFollowsRequests
\* The instance stops when its clock, ids and code batches are used up.
CHECK_DEADLOCK FALSE
