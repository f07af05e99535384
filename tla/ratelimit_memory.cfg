SPECIFICATION Spec
CONSTANTS
    Keys = {k1, k2}
    MaxRequestNum = 2
    Duration = 2
    Expiration = 2
    MaxTime = 5
INVARIANTS
    WindowBound
PROPERTIES
    ImplementsSlidingWindow
