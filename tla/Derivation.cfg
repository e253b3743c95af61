\* All ranges of 5-bit indices in every mode, tiles of up to 4 leaves, trunks
\* whole or in chunks of two bits, and sessions of three targets.
SPECIFICATION Spec
CONSTANTS
    IndexBits = 5
    CacheTileHeight = 2
    ChunkSizes = {0, 2}
    MaxTargets = 3
INVARIANTS ValuesExact NothingMissing PlannedUnitsAreRun PruningIsFree
CHECK_DEADLOCK FALSE
