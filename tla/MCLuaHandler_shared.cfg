SPECIFICATION Spec
CONSTANTS
    otp = otp
    rate = rate
    i1 = i1
    i2 = i2
    c1 = c1
    c2 = c2
    Scripts = {otp, rate}
    Inits = {i1, i2}
    Calls = {c1, c2}
    Configs <- SharedConfigs
    ScriptOf <- TwoCalls
    Nobody = Nobody
    MaxFlushes = 1
    MaxResends = 1
SYMMETRY SameCalls
INVARIANTS TypeOK EntriesAreLive
PROPERTIES ScriptServiceSpec
CHECK_DEADLOCK FALSE
