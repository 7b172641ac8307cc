CONSTANTS
    Events = {1}
    Callers = {"loop"}
    NoCaller = "nobody"
    Ops = {}
    InitialDoc <- MCFullDoc
    MaxRetries = 1
    MaxFaults = 0
    MaxCrashes = 0
    Wallet = wallet
    Wallets <- MCWallets
    NoWallet = NoWallet
    NoEvent = 0
    Source <- MCSource
    Wordless = {1}
    Volatile = {}
SPECIFICATION Spec
INVARIANT
    AttemptsBounded
