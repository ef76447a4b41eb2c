SPECIFICATION FairSpec
CONSTANTS
    k1 = k1
    d1 = d1
    d2 = d2
    wa = wa
    Null = Null
    Keys <- OneKey
    Rank <- OneRank
    Dispatchers = {d1, d2}
    WorkerOf <- SharedWorker
    MaxAttempts <- TwoAttempts
    Lease = 2
    Retry = 1
    MaxDelay = 1
    MaxRows = 2
INVARIANTS
    DeliveredWasReceived
    DeliveriesBounded
PROPERTIES
    RowHistory
    MessagesSettle
