CONSTANTS
    i1 = i1
    b1 = b1
    b2 = b2
    Ids = {i1}
    Batches = {b1, b2}
    Redrivers = {}
    Redrivable = {i1}
    RetryLimit = 1
    Concurrency = 1
    DeleteOnSuccess = TRUE
    PendingWatch = TRUE
    MaxInc = 2
SPECIFICATION Spec
SYMMETRY Symmetry
PROPERTIES
    StaleTouchesNothing
CHECK_DEADLOCK FALSE
