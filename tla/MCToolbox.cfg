SPECIFICATION Spec
CONSTANTS
    ChainFile <- Chains
    WalletFile <- Wallets
    DefaultName = "chain.blk"
    DefaultText <- DefaultGenesis
    Text <- Texts
    CommandLine <- AllLines
    MaxRuns = 3
INVARIANTS
    ToolboxTypeOK
    AmountArrives
    LoadedIsWritten
    WalletSigns
CHECK_DEADLOCK FALSE
