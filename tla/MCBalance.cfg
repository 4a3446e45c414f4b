SPECIFICATION BalanceSpec
CONSTANTS
    m = m
    w1 = w1
    t1 = t1
    now = now
    Everyone = Everyone
    Tx <- MCTx
    Time <- MCTime
    Masters <- MCMasters
    Node <- MCNode
    Dials <- MCDials
    StartFile <- MCStartFile
    MinTx = 1
    MaxRead = 1
    MaxSends = 1
    MaxBlocks = 4
    MaxOutbox = 2
    MaxDials = 2
    MaxRuns = 1
    MaxChan = 8
INVARIANTS
    BalanceTypeOK
    BalanceCoversChain
CHECK_DEADLOCK FALSE
