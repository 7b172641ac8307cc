CONSTANTS
    balance = balance
    transactions = transactions
    address1 = address1
    address2 = address2
    Types <- MCTypes
    Addresses <- MCAddresses
    Keys <- MCKeys
    MaxWatches = 2
    MaxCalls = 2
    MaxSockets = 2
    MaxFaults = 2
SPECIFICATION StreamingSpec
CHECK_DEADLOCK FALSE
INVARIANTS
    SingleConnection
