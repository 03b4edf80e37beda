SPECIFICATION ObsSpec
CONSTANTS
    MAX_ERROR_HYSTORY = 3
    ErrorValue <- MCErrorValue
    MAX_INTEGRAL_SIZE = 2
    WarmupSize = 2
    WarmupBand = 5
    WarmupOffset = 10
    Thresholds <- MCThresholds
    InitThreshold = 110
    RawSamples <- MCRawSamples
    Bodies <- TwoBodies
    WaitsForTransfer = TRUE
INVARIANTS
    ReadersAgree
    AtMostOneLateHeat
    HeatsOnFreshSample
PROPERTIES
    ImplementsSlidingWindow
    SettledMeansStreak
