SPECIFICATION StartSpec
CONSTANTS
    Ttl = 4
    WaitMax = 1
    ExtendedMax = 3
    MaxHolders = 2
    Births = {1, 2, 3}
    NoOne = NoOne
    MaxRestarts = 2
    Window = 1
    Cooldown = 2
    MaxTrouble = 3
    Drawers = {1, 2, 3}
    Protected = {2}
    Tier1 = {3}
    Hashless = {}
    TwoStage = TRUE
    PageSize = 2
    Concurrency = 2
    Edited = {1}
    MaxVersions = 1
    MaxSweeps = 2
    MaxMishaps = 1
    None = None
INVARIANTS RefusedOnlyByIngestWorker OneDaemon BudgetIsExact RemovedIsRestorable OnlyCondemnedRemoved CheckpointAgrees
PROPERTIES DaemonServes SweepEnds
