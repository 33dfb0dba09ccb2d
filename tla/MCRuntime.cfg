SPECIFICATION MCSpec
CONSTANTS
    Settings <- MCSettings
    Requests = {r1, r2}
    Jobs = {j1}
    Period = 2
    Reserve = 1
    MinBudget = 1
    Queues = {q1, q2}
    Configs = {k1, k2}
    NoConfig = NoConfig
    WorkerCap = 2
    Deliveries = {d1, d2, d3}
    Installers = {i1, i2}
    Nobody = Nobody
    MaxPurges = 1
    Callers = {c1, c2, c3, c4}
    PoolMax = 2
    MinBackoff = 1
    MaxBackoff = 2
    LastNow = 3
    Creates = {o1, o2, o3}
    PoolSize = 2
    NoOrg = NoOrg
    QueueConfigs <- MCQueueConfigs
    Default <- MCDefault
    NotGiven = NotGiven
    Immediate = Immediate
    LongestTime = 20
    DbPods = {d1, d2}
    DbEnvs <- MCDbEnvs
    RoleLimit = 3
    MaxWraps = 1
    MaxChanges = 2
    MailEnvs <- MCMailEnvs
    Mails <- MCMails
    MaxRecipients = 2
    MaxTries = 3
    Workers = {w1, w2}
    Gain = 2
    Cost = 5
    Burst = 2
    BucketTtl = 5
    MaxWait = 4
    Cooldowns = {2}
    MaxTime = 6
INVARIANTS RateBound WaitsRight   OnceSafe OrgSafe QueueSafe  TransportSafe
PROPERTIES PoolKept
CHECK_DEADLOCK FALSE
