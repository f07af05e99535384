SPECIFICATION Spec
CONSTANTS
    Procs = {p1, p2}
    MaxFailAttempts = 2
    LockoutDuration = 1
    BackupCodeCount = 1
    UpsertOnAnyKey = FALSE
    MaxTime = 1
    MaxIds = 2
    MaxBatches = 2
    MaxFaults = 1
SYMMETRY Symmetry
INVARIANTS
    EnabledSecretDelivered
    SpentStaysSpent
    LockCarried
    GrantedOnlyWithProof
\* The instance stops when its clock, ids and code batches are used up.
CHECK_DEADLOCK FALSE
