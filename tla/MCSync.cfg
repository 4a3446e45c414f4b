SPECIFICATION Spec
CONSTANTS
    m = m
    w1 = w1
    w2 = w2
    t1 = t1
    now = now
    Everyone = Everyone
    Tx <- MCTx
    Time <- MCTime
    Masters <- MCMasters
    Node <- OneWallet
    Dials <- DialBoth
    StartFile <- BehindFile
    MinTx = 1
    MaxRead = 2
    MaxSends = 1
    MaxBlocks = 3
    MaxOutbox = 2
    MaxDials = 2
    MaxRuns = 2
    MaxChan = 8
INVARIANTS
    TypeOK
    
PROPERTIES
    
    CatchUp
CHECK_DEADLOCK FALSE
