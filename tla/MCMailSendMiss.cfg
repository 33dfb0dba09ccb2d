SPECIFICATION Spec
CONSTANTS
    k1 = k1
    Keys = {k1}
    Attempts = {a1, a2}
    Nobody = Nobody
    KeyOf <- OneMessage
    Lease = 2
    RenewEvery = 1
    MaxWait = 0
    Cooldowns = {}
    MaxSends = 1
    MaxMissed = 2
INVARIANTS OneMissSurvives
