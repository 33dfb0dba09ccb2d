CONSTANTS
    i1 = i1
    i2 = i2
    b1 = b1
    r1 = r1
    b2 = b2
    Ids = {i1, i2}
    Batches = {b1, b2}
    Redrivers = {r1}
    Redrivable = {i1, i2}
    RetryLimit = 1
    Concurrency = 2
    DeleteOnSuccess = TRUE
    PendingWatch = TRUE
    MaxInc = 2
SPECIFICATION Spec
SYMMETRY Symmetry
INVARIANTS JobsSafe
PROPERTIES JobSteps
CHECK_DEADLOCK FALSE
