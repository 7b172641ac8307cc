CONSTANTS
    Events = {1, 2}
    Callers = {"bridge", "loop", "recovery", "cleanup"}
    NoCaller = "nobody"
    Ops = {}
    InitialDoc <- MCInitialDoc
    MaxRetries = 1
    MaxFaults = 1
    MaxCrashes = 0
    Wallet = wallet
    Wallets <- MCWallets
    NoWallet = NoWallet
    NoEvent = 0
    Source <- MCSource
    Wordless = {2}
    Volatile = {}
SPECIFICATION Spec
INVARIANTS
    NoOrphanedWaiter
    CompletedWasRouted
    ErroredWasRetried
