SPECIFICATION Spec
CONSTANTS
    n1 = n1
    n2 = n2
    n3 = n3
    Node <- Three
    Setting <- Usual
INVARIANTS
    LifecycleTypeOK
    OrderlyEnd
PROPERTIES
    BlocksAreSent
    
CHECK_DEADLOCK FALSE
