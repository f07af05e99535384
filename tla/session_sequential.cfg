SPECIFICATION Spec
CONSTANTS
    Users = {u1}
    Browsers = {b1}
    Procs = {p1}
    None = None
    Timeout = 2
    InitRows <- AllUsers
    Ops = {"login", "login2fa", "logout", "admin", "verify2fa", "verifyPasskey", "status", "passkeyLoginBegin", "passkeyLoginFinish", "passkeyVerifyBegin", "passkeyVerifyFinish"}
    MaxTime = 3
    MaxChanges = 1
    MaxFaults = 1
SYMMETRY Symmetry
INVARIANT
    LogoutIsFinal
PROPERTY
    VerifiedIsFresh
