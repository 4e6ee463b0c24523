SPECIFICATION FairSpec
CONSTANTS
    h1 = h1
    h2 = h2
    m1 = m1
    m2 = m2
    l1 = l1
    pa = pa
    pb = pb
    px = px
    t1 = t1
    t2 = t2
    t3 = t3
    t4 = t4
    t5 = t5
    None = None
    KindOf <- MCKindOf
    SizeOf <- MCSizeOf
    Serves <- MCServes
    BaseDelay = 1
    Ids = {1, 2}
    PayloadsOf <- MCPayloadsOf
    Queried = {1}
    Spooled = {}
    Workers = {m1}
    DaemonWorkers = {m1}
    Tokens = {t1, t2, t3, t4}
    MaxActiveBytes = 3
    MaxDelay = 1
    Hints = {2}
    ClaimTtl = 0
    StartupTtl = 0
    Horizon = 1
    RetryCap = 1
    MaxFaults = 1
INVARIANTS BudgetRespected StatusNeverMissing
PROPERTIES EveryClaimEnds AckedWorkSettles
