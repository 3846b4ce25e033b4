CONSTANTS
    WinLength = 4
    Records <- MCRecordsToSample
    Symmetries = {0}
    CropSize = 5
    LegalRadius = 1
    Budget = 2
    MaxWidth = 3
    CacheSize = 2
    BatchSize = 2
SPECIFICATION SamplerSpec
INVARIANT SeesItsPosition
CHECK_DEADLOCK FALSE
