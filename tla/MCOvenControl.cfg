SPECIFICATION FairSpec
CONSTANTS
    MAX_ERROR_HYSTORY = 2
    ErrorValue <- MCErrorValue
    MAX_INTEGRAL_SIZE = 2
    WarmupSize = 1
    WarmupBand = 5
    WarmupOffset = 10
    Thresholds <- MCThresholds
    InitThreshold = 110
    RawSamples <- MCRawSamples
    Bodies <- AllBodies
    WaitsForTransfer = FALSE
INVARIANTS
    TypeOK
    HeaterFollowsCycle
    ControlHasHistory
PROPERTIES
    RewarmOnlyInsidePut
    EnableNeverRegained
    DisabledOvenCools
    WarmupEnds
