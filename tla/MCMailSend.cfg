SPECIFICATION LiveSpec
CONSTANTS
    k1 = k1
    Keys = {k1}
    Attempts = {a1, a2}
    Nobody = Nobody
    KeyOf <- OneMessage
    Lease = 2
    RenewEvery = 1
    MaxWait = 1
    Cooldowns = {1, 2}
    MaxSends = 2
    MaxMissed = 1
INVARIANTS MailSafe
PROPERTIES LedgerSteps EndedClaimLapses
