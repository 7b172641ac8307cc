CONSTANTS
    Events = {1}
    Callers = {"loop", "recovery"}
    NoCaller = "nobody"
    Ops = {}
    InitialDoc <- MCFullDoc
    MaxRetries = 1
    MaxFaults = 0
    MaxCrashes = 1
    Wallet = wallet
    Wallets <- MCWallets
    NoWallet = NoWallet
    NoEvent = 0
    Source <- MCSource
    Wordless = {}
    Volatile = {}
SPECIFICATION FairSpec
PROPERTIES
    RecoveredIsRetried
