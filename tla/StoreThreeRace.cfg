CONSTANTS
    Events = {1, 2}
    Callers = {c1, c2, c3}
    NoCaller = NoCaller
    Ops <- MCOps
    InitialDoc <- MCInitialDoc
    MaxRetries = 1
    MaxFaults = 0
    MaxCrashes = 0
SPECIFICATION StoreSpec
INVARIANT
    SavesAreAtomic
