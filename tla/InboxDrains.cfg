SPECIFICATION InboxSpec
CONSTANTS
    m1 = m1
    m2 = m2
    m3 = m3
    k1 = k1
    k2 = k2
    NoFile = NoFile
    NL = NL
    Msgs = {m1, m2}
    Size <- MCSize
    Drains = {k1, k2}
    OneDrainer = FALSE
    MaxDeaths = 1
    MaxPending = 2
    MaxInboxBytes = 5
INVARIANTS AtMostOnce
CHECK_DEADLOCK FALSE
