SPECIFICATION MCSpec
CONSTANTS
    Attempts = {x1, x2}
    Devices = {y1, y2}
    Addresses = {z1}
    NoDevice = NoDevice
    DeviceMax = 1
    DevicesMax = 1
    HereMax = 2
    Free = 0
    Ceiling = 1
    MaxResets = 1
    MaxExpiries = 1
    Browsers = {x1, x2}
    Calls = {y1, y2}
    NoCookie = NoCookie
    NoBrowser = NoBrowser
    MaxAge = 2
    DeviceLastNow = 3
    MaxPassword = 1
    PolicyAddresses = {"boss", "lab", "stud", "odd"}
    DomainOf <- MCDomainOf
    Setups <- MCSetups
    SharedLabels = {"com"}
    Entra = {m1, m2}
    Guests = {m2}
    Profiles <- MCProfiles
    FirstProfile <- MCFirst
    SsoProviders = {z1}
    Claims <- MCClaims
    SignIns = {x1, x2}
    NoUser = NoUser
    NoMail = NoMail
    MaxEdits = 1
    Kids = {"k1", "k2"}
    JwtTokens <- MCTokens
    VerifierConfigs <- MCVerifiers
    Null = Null
    Cooldown = 1
    JwtMaxAge = 2
    Tolerance = 1
    JwtLastTime = 3
    Ids = {i1, i2}
    Jobs = {j1}
    Requests = {x1, x2}
    NoId = NoId
    Tokens = {x1, x2}
    Procs = {p1}
    Home = p1
    NoToken = NoToken
    Ttl = 2
    Latency = 1
    LastNow = 2
    MaxOutages = 1
    MaxOps = 1
    Contexts = {w1}
    Hosts = {h1}
    Users = {y1, y2}
    None = None
    Revalidate = 1
    CallTime = 1
    LastTime = 2
    MaxDowntimes = 1
    Sessions = {x1}
    Pods = {p1, p2}
    Cap = 1
    Long = 3
    UpdateAge = 1
    MemoTime = 1
    ReadTime = 1
    LastHour = 4
    Providers = {x1, x2}
    SsoPods = {y1, y2}
    ClientKeys = {"a", "b"}
    MaxSaves = 2
CONSTRAINT SessionsBound
SYMMETRY Symmetry
INVARIANTS  DeviceSafe    SessionsSafe   SsoSafe
CHECK_DEADLOCK FALSE
