SPECIFICATION MCSpec
CONSTANTS
    Callers = {c1, c2, c3, d1, d2}
    Local = {c1, c2, c3}
    Nobody = Nobody
    Lease = 2
    HeldCap = 2
    Pods = {q1, q2}
    LeaderNobody = LeaderNobody
    LeaderLease = 2
    r1 = r1
    r2 = r2
    r3 = r3
    p1 = p1
    p2 = p2
    Requests = {r1, r2, r3}
    IdemNobody = IdemNobody
    Prints = {p1, p2}
    PrintOf <- TwoQuestions
    IdemLease = 2
INVARIANTS LockSafe LeaderSafe IdemSafe
PROPERTIES LateReleaseSafe GoneLockFreed LeadsUnderLease KeyFreed
CHECK_DEADLOCK FALSE
