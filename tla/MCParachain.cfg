SPECIFICATION Spec

CONSTANTS
    Collator = {0, 1}
    MINIMUM_TIME_INTERVAL = 1
    MAX_DRIFT = 1
    MIN_TIME_BEFORE_CLEANUP = 1
    MIN_BLOCKS_BEFORE_CLEANUP = 1
    MaxAge = 2
    MaxRelay = 4
    MaxBlocks = 4
    MaxOther = 1

INVARIANTS
    TypeOK
    CollationsValidate
    WatermarkIsRelayParent
    StoredNumberRises

PROPERTIES
    IncludedReachesAll
