SPECIFICATION Spec
CONSTANTS
    a = a
    b = b
    d = d
    Remote <- Peers
    Setting <- Usual
INVARIANTS
    TypeOK
    
    PeersBounded
PROPERTIES
    HeardUnlessStale
CHECK_DEADLOCK FALSE
