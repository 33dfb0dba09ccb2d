CONSTANTS
    i1 = i1
    i2 = i2
    b1 = b1
    b2 = b2
    b3 = b3
    Ids = {i1, i2}
    Batches = {b1, b2, b3}
    Redrivers = {}
    Redrivable = {i1}
    RetryLimit = 2
    Concurrency = 2
    DeleteOnSuccess = TRUE
    PendingWatch = FALSE
    MaxInc = 1
SPECIFICATION LiveSpec
PROPERTIES
    EveryJobLeaves
CHECK_DEADLOCK FALSE
