SPECIFICATION ProfileSpec
CONSTANTS
    m1 = m1
    m2 = m2
    k1 = k1
    k2 = k2
    NoFile = NoFile
    NL = NL
    Msgs = {m1, m2}
    Acked = {m1, m2}
    Size <- MCSize
    Drains = {k1, k2}
    OneDrainer = TRUE
    MaxDeaths = 1
    MaxPending = 1
    MaxInboxBytes = 3
    svc = svc
    c1 = c1
    c2 = c2
    NoToken = NoToken
    Procs = {svc, c1, c2}
    Service = {svc}
    BytesOf <- MCBytesOf
    Serials = {1, 2}
    Sticky <- MCSticky
    Attempts = 2
    MaxHolders = 2
    Reserved = 1
    MaxCacheBytes = 3
    i1 = i1
    i2 = i2
    i3 = i3
    Ingests = {i1, i2, i3}
    Sources = {"s", "t"}
    Chunks = {"a", "b"}
    Nobody = Nobody
    SourceOf <- MCSourceOf
    ModesOf <- MCModesOf
    MaxVersions = 1
    Drawers = {1, 2, 3}
    PathOf <- MCPathOf
    ChunkOf <- MCChunkOf
    Targets <- MCTargets
    BatchSize = 2
    NoVector = NoVector
    NoStash = NoStash
    Merged = {1}
    Deleted = {2}
    MaxReindexes = 2
    MaxAccidents = 1
    MaxMerges = 1
    p1 = p1
    p2 = p2
    cl = cl
    CardCalls = {p1, p2, cl}
    Cli = {cl}
    Overdue = {p1, p2}
    CardRequests <- MCCardRequests
    CardTiers = {"dao_tian", "shu"}
    FirstLinks <- MCFirstLinks
    NoHolder = NoHolder
INVARIANTS ProfileTypeOK RoomKept Searchable SentIsKept MailIsReported VersionsNeverMix
PROPERTIES StatusForward SuccessMeansStored
CHECK_DEADLOCK FALSE
