CONSTANTS
    balance = balance
    transactions = transactions
    address1 = address1
    address2 = address2
    Types <- MCTypes
    Addresses <- MCAddresses
    Keys <- MCOneKey
    MaxWatches = 2
    MaxCalls = 1
    MaxSockets = 2
    MaxFaults = 2
    MaxEvents = 5
    MaxBatchSize = 2
    MaxQueueSize = 3
    MaxBackoff = 2
    RpcRequests = {r1, r2}
    MaxSenders = 2
    connect1 = connect1
    transaction1 = transaction1
    Requests <- MCRequests
    KindOf <- MCKindOf
    Embedded <- MCEmbedded
    NoRequest = NoRequest
    MaxQueue = 2
    MaxRejects = 1
    MaxTroubles = 1
    Callers = {c1, c2, c3}
    NoCaller = NoCaller
    MaxRetries = 1
SPECIFICATION FairEdgesSpec
CHECK_DEADLOCK FALSE
INVARIANTS
    EdgesTypeOK
    QueueHasAttention
    NoEventVanishes
    WaitingIsTimed
PROPERTIES
    EventuallyServed
    QueueDrains
    RequestSettles
    RequestIsServed
    EveryCallSettles
