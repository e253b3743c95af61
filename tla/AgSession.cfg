SPECIFICATION FairSpec
CONSTANTS
    Jobs = {"derive", "reveal", "fast", "session"}
    Programs <- MCPrograms
    Targets <- MCTargets
    ChunkOts = 4
    ChunkBlocks = 2
    BaseOts = 2
    MaskBatch = 2
    GarbleChunk = 2
    ValueBits = 3
    Ssp = 10
    FrameWords = 2
    Capacity = 3
    MaxFaults = 1
INVARIANTS
    WordsInStep
    HonestRunSucceeds
    AgreedBeforeStart
    CheckedBeforeOpened
PROPERTY
    JobEnds
CHECK_DEADLOCK FALSE
