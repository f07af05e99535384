SPECIFICATION Spec
CONSTANTS
    Procs = {p1, p2, p3}
    MaxRequests = 2
    Duration = 2
    MaxTime = 6
    MaxCount = 4
    MaxFaults = 1
SYMMETRY Symmetry
\* The instance stops when its clock and its requests run out.
CHECK_DEADLOCK FALSE
INVARIANTS
    UseBounded
PROPERTIES
    RefusalEnds
