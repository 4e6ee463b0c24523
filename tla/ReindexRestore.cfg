SPECIFICATION ReindexSpec
CONSTANTS
    Drawers = {1, 2, 3}
    PathOf <- MCPathOf
    ChunkOf <- MCChunkOf
    Targets <- MCTargets
    BatchSize = 2
    NoVector = NoVector
    NoStash = NoStash
    MaxReindexes = 2
    MaxAccidents = 1
    MaxMerges = 1
    Merged = {1}
    Deleted = {2}
PROPERTY EmptyRunRestoresAmongOthers
CHECK_DEADLOCK FALSE
