SPECIFICATION FairSpec
CONSTANTS
    Emails = {e1}
    Devices = {d1}
    Tokens = {t1, t2, t3}
    Requests <- MCRequests
    Codes = {c1, c2}
    NoCode = NoCode
    NoRequest = NoRequest
    MaxAttempts = 2
    OtpTtl = 2
    LockTtl = 1
    VerifyTokenTtl = 1
    CountTtl = 4
    ShortUpTo = 1
    MiddleUpTo = 2
    ShortCooldown = 1
    MiddleCooldown = 2
    LongCooldown = 4
    MaxDuration = 2
    LastStart = 3
    EndOfTime = 6
PROPERTIES
    LeaseSpec
    LockAlwaysFreed
CHECK_DEADLOCK FALSE
