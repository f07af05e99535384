SPECIFICATION Spec
CONSTANTS
    Procs = {p1, p2}
    MaxRequestNum = 1
    Duration = 2
    Expiration = 2
    MaxTime = 4
    MaxAdmissions = 9
    MaxFaults = 1
SYMMETRY Symmetry
\* The instance stops when its clock and its requests run out.
CHECK_DEADLOCK FALSE
INVARIANTS
    UseBounded
    KeyWillExpire
