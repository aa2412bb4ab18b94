SPECIFICATION FairSpec
CONSTANTS
    MaxItems = 2
    MaxRecords = 2
    NoItem = NoItem
    Main = Main
    Flusher = Flusher
    Backend = Backend
    io1 = io1
    io2 = io2
    db1 = db1
    IoThreads <- MCIoThreads
    DbThreads <- MCDbThreads
    Workers <- MCWorkers
    Producers <- MCProducers
    Consumers <- MCConsumers
    Items <- MCItems
INVARIANTS
    NoLostWakeUp
    LoggerOutlivesUsers
PROPERTIES
    ImplementsLogChannel
    TeardownEnds
    AcceptedIsFlushed
