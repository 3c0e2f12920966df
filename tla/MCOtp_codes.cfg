SPECIFICATION Spec
CONSTANTS
    Emails = {e1}
    Devices = {d1, d2}
    Tokens = {t1, t2, t3}
    Requests <- UnevenRequests
    Codes = {c1, c2}
    NoCode = NoCode
    NoRequest = NoRequest
    MaxAttempts = 2
    OtpTtl = 1
    LockTtl = 1
    VerifyTokenTtl = 1
    CountTtl = 4
    ShortUpTo = 0
    MiddleUpTo = 1
    ShortCooldown = 1
    MiddleCooldown = 4
    LongCooldown = 4
    MaxDuration = 2
    LastStart = 2
    EndOfTime = 4
SYMMETRY UnevenSymmetry
INVARIANTS
    TypeOK
    LockKept
    NeverOvercounts
    StoredAttemptsBounded
    SingleExchange
PROPERTIES
    DisturbsOnlyItsOwn
    OneTimeCodeSpec
CHECK_DEADLOCK FALSE
