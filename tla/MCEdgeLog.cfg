SPECIFICATION MCSpec
CONSTANTS
    Requests = {r1, r2}
    Visitors <- MCVisitors
    Setups <- MCSetups
    NoCaller = NoCaller
    Ambient = Ambient
    Limit = 1
    Window = 3
    ClockSkew = 1
    EvalTime = 1
    HttpLastTime = 4
    EdgeRequests = {r1, r2}
    Askers = {a1, a2}
    Targets = {r1, r2}
    Addresses = {i1, odd, junk}
    Usable = {i1, odd}
    RealIps = {i1}
    Socket = Socket
    NoTrio = NoTrio
    MaxSkew = 1
    WarnEvery = 2
    EdgeLastTime = 0
    Rows <- MCRows
    PageLimits = {0, 1, 2}
    MaxLimit = 2
    MaxEdits = 0
    Options <- MCOptions
    Labels = {"route", "queue", "job_name"}
    Paths <- MCPaths
    Queued <- MCQueued
    Jobs <- MCJobs
    LabelLimit = 1
    Timed = {c1}
    MaxCount = 0
SYMMETRY Symmetry
INVARIANTS LogTellsStatus
CHECK_DEADLOCK FALSE
