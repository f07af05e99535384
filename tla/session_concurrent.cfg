SPECIFICATION Spec
CONSTANTS
    Users = {u1, u2}
    Browsers = {b1}
    Procs = {p1, p2}
    None = None
    Timeout = 2
    InitRows <- TwoFAUsers
    Ops = {"login", "login2fa", "logout"}
    MaxTime = 1
    MaxChanges = 1
    MaxFaults = 0
SYMMETRY Symmetry
INVARIANTS
    SessionProven
    AuthorityWasHeld
