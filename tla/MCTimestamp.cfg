SPECIFICATION Spec

CONSTANTS
    Node = {0, 1}
    Skew <- OneAhead
    MINIMUM_TIME_INTERVAL = 2
    MAX_DRIFT = 2
    MIN_TIME_BEFORE_CLEANUP = 1
    MIN_BLOCKS_BEFORE_CLEANUP = 0
    BLOCK_TIME = 3
    MaxTime = 9
    MaxBlocks = 4
    MaxForeign = 1
    MaxCleanUps = 3

INVARIANTS
    TypeOK
    OneTimestampPerBlock
    TimeAdvances
    ParentTimestampLive

PROPERTIES
    BlocksSpread
