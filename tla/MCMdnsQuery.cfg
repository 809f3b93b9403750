SPECIFICATION FairSpec
CONSTANTS
    Clients = {"c1", "c2"}
    Searches = {1, 2}
    QueueLen = 2
    Modulus = 3
    Timeout = 1
    Resend = 1
    Limits = {0, 1}
    MaxQueries = 2
    MaxPackets = 1
INVARIANTS
    TypeOK
    SearchesOwned
PROPERTIES
    OffGrowsNoMore
    QueryReturns
CHECK_DEADLOCK FALSE
