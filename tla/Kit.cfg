CONSTANTS
    connect1 = connect1
    transaction1 = transaction1
    transaction2 = transaction2
    Requests <- MCRequests
    KindOf <- MCKindOf
    Embedded <- MCEmbedded
    NoRequest = NoRequest
    MaxQueue = 2
    MaxRejects = 1
    MaxTroubles = 1
    SessionIds = {session1, session2}
    MaxKeys = 2
    MaxQueued = 3
    MaxMishaps = 2
    balance = balance
    transactions = transactions
    address1 = address1
    address2 = address2
    Types <- MCTypes
    Addresses <- MCAddresses
    Keys <- MCKeys
    MaxWatches = 2
    MaxCalls = 2
    MaxSockets = 2
    MaxFaults = 2
    Accounts = {a1, a2}
    Traces = {t1, t2}
    CacheSize = 1
    Setups = {setup1, setup2}
SPECIFICATION KitSpec
CHECK_DEADLOCK FALSE
INVARIANTS
    KitTypeOK
    ShownIsOnScreen
    CutOffNeedsTrouble
    BroadcastOnce
    SessionsAsDecided
    LastWriteIsTheMap
    OneSocket
    ServerInSync
    WatchesAreAttended
    WatchIsHeard
    UndoReaches
    CallbackIsKept
PROPERTIES
    NeverLessFinal
