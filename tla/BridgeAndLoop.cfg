CONSTANTS
    Events = {1, 2, 3}
    Callers = {"bridge", "loop"}
    NoCaller = "nobody"
    Ops = {}
    InitialDoc <- MCInitialDoc
    MaxRetries = 2
    MaxFaults = 0
    MaxCrashes = 1
    Wallet = wallet
    Wallets <- MCWallets
    NoWallet = NoWallet
    NoEvent = 0
    Source <- MCSource
    Wordless = {}
    Volatile = {wallet, NoWallet}
SPECIFICATION FairSpec
INVARIANTS
    TypeOK
    AtMostOnce
    AttemptsBounded
    NoOvertaking
PROPERTIES
    ImplementsLifecycle
    EventuallySettled
