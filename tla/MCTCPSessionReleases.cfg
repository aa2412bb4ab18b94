SPECIFICATION FairSpec
CONSTANTS
    HeaderBytes = 1
    MaxBodySize = 3
    LowWater = 1
    HighWater = 2
    HardCap = 4
    MaxBatchBytes = 2
    MaxIovPerWrite = 2
    SizeMax = 1000
    ResponseBodies <- MCOneResponse
    HeaderSizes <- MCHeaderSizes
    HeaderVersions <- MCHeaderVersions
PROPERTIES
    ShutdownReleases
CHECK_DEADLOCK FALSE
