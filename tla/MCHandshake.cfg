SPECIFICATION Spec
CONSTANTS
    m = m
    w1 = w1
    w2 = w2
    Node <- TwoWallets
    Setting <- Usual
INVARIANTS
    TypeOK
    NoNestedRequest
    AcquitedIsKnown
    NewcomersMeetPeers

    
    
CHECK_DEADLOCK FALSE
