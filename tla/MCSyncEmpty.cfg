SPECIFICATION Spec
CONSTANTS
    m = m
    w1 = w1
    w2 = w2
    t1 = t1
    now = now
    Everyone = Everyone
    Tx <- MCTx
    Time <- MCTime
    Masters <- MCMasters
    Node <- OneWallet
    Dials <- DialBoth
    StartFile <- EmptyFile
    MinTx = 1
    MaxRead = 1
    MaxSends = 0
    MaxBlocks = 4
    MaxOutbox = 2
    MaxDials = 1
    MaxRuns = 1
    MaxChan = 8
PROPERTIES
    CatchUp
CHECK_DEADLOCK FALSE
