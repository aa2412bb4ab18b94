SPECIFICATION FairSpec
CONSTANTS
    Clients = {c1, c2, c3}
    IoThreads = 2
    PoolSize = 1
INVARIANTS
    LeasesAreExclusive
    LeaseWaitsForQueries
PROPERTIES
    RequestIsHandled
