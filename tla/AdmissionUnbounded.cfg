SPECIFICATION FairSpec
CONSTANTS
    Ttl = 4
    WaitMax = 1
    ExtendedMax = 3
    MaxHolders = 2
PROPERTIES AdmissionEnds
