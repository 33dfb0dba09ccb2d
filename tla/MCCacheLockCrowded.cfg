SPECIFICATION LockSpec
CONSTANTS
    Callers = {c1, c2, d1}
    Local = {c1, c2}
    Nobody = Nobody
    Lease = 2
    HeldCap = 16
PROPERTIES NeverFreesSecond
CHECK_DEADLOCK FALSE
