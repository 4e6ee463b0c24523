SPECIFICATION Spec
CONSTANTS
    h1 = h1
    h2 = h2
    m1 = m1
    m2 = m2
    l1 = l1
    pa = pa
    pb = pb
    px = px
    t1 = t1
    t2 = t2
    t3 = t3
    t4 = t4
    t5 = t5
    None = None
    KindOf <- MCKindOf
    SizeOf <- MCSizeOf
    Serves <- MCServes
    BaseDelay = 1
    Ids = {3}
    PayloadsOf <- MCOnePayloadOf
    Queried = {}
    Spooled = {}
    Workers = {h1}
    DaemonWorkers = {h1}
    Tokens = {t1, t2}
    MaxActiveBytes = 3
    MaxDelay = 1
    Hints = {0}
    ClaimTtl = 1
    StartupTtl = 1
    Horizon = 1
    RetryCap = 1
    MaxFaults = 1
INVARIANTS TypeOK
PROPERTIES ShutdownReleasesClaims
