SPECIFICATION MCLiveSpec
CONSTANTS
    Settings <- MCSettings
    Requests = {r1}
    Jobs = {j1}
    Period = 2
    Reserve = 1
    MinBudget = 1
    Deliveries = {d1}
    Installers = {i1, i2}
    Nobody = Nobody
    MaxPurges = 1
    Callers = {c1, c2, c3}
    PoolMax = 1
    MinBackoff = 1
    MaxBackoff = 2
    LastNow = 2
    Creates = {o1, o2}
    PoolSize = 1
    NoOrg = NoOrg
PROPERTIES ShutdownEnds WaiterAnswered InstallsRun CreatesEnd
CHECK_DEADLOCK FALSE
