SPECIFICATION Spec
CONSTANTS
    t1 = t1
    t2 = t2
    bad = bad
    now = now
    NoFile = NoFile
    Tx <- MCTx
    Time <- MCTime
    Valid <- MCValid
    Offered <- MCOffered
    StartFiles <- FromToolbox
    MinTx = 3
    MaxRequests = 4
    MaxRuns = 2
INVARIANTS
    TypeOK
    
    TxInOrder
    BufferBelowMin
    
    
PROPERTIES
    
    
    EveryBlockAnnounced
CHECK_DEADLOCK FALSE
