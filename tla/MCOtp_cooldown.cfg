SPECIFICATION Spec
CONSTANTS
    Emails = {e1, e2}
    Devices = {d1}
    Tokens = {t1}
    Requests <- NoRequests
    Codes = {c1, c2, c3, c4, c5}
    NoCode = NoCode
    NoRequest = NoRequest
    MaxAttempts = 2
    OtpTtl = 2
    LockTtl = 1
    VerifyTokenTtl = 1
    CountTtl = 6
    ShortUpTo = 1
    MiddleUpTo = 2
    ShortCooldown = 1
    MiddleCooldown = 2
    LongCooldown = 6
    MaxDuration = 2
    LastStart = 11
    EndOfTime = 11
SYMMETRY CodeSymmetry
INVARIANT RateBound
CHECK_DEADLOCK FALSE
