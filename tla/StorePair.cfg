CONSTANTS
    Events = {1, 2}
    Callers = {c1, c2}
    NoCaller = NoCaller
    Ops <- MCOps
    InitialDoc <- MCInitialDoc
    MaxRetries = 1
    MaxFaults = 1
    MaxCrashes = 1
SPECIFICATION FairStoreSpec
INVARIANTS
    SavesAreAtomic
PROPERTIES
    ImplementsAtomicStore
