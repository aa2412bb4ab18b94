SPECIFICATION FairSpec
CONSTANTS
    HeaderBytes = 1
    MaxBodySize = 3
    LowWater = 1
    HighWater = 2
    HardCap = 4
    MaxBatchBytes = 2
    MaxIovPerWrite = 2
    SizeMax = 1000
    ResponseBodies <- MCResponseBodies
    HeaderSizes <- MCHeaderSizes
    HeaderVersions <- MCHeaderVersions
INVARIANTS
    TypeOK
    SingleFlight
    BytesAccounted
    BatchIsQueuePrefix
    WaterMarks
    ParkedReaderIsWoken
    QueueIsDrained
    ShutdownIsPosted
PROPERTIES
    NothingSentOnceClosed
    QueueIsFifo
    SilentPeerIsClosed
    ShutdownEnds
    ReaderEndsUnlessParked
    ImplementsLifecycle
CHECK_DEADLOCK FALSE
