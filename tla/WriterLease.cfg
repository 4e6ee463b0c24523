SPECIFICATION CrewSpec
CONSTANTS
    d1 = d1
    d2 = d2
    c1 = c1
    m1 = m1
    r1 = r1
    r2 = r2
    None = None
    Procs = {d1, d2, c1, m1, r1, r2}
    Mode <- MCMode
    Namespace <- MCOneNamespace
    TTL = 1
    MaxTime = 2
    MaxGen = 3
PROPERTIES WritesInGenerationOrder LiveHolderKept LostDaemonStepsDown
CHECK_DEADLOCK FALSE
