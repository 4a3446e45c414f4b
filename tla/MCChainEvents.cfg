SPECIFICATION Spec
CONSTANTS
    kept = kept
    loaded = loaded
    c1 = c1
    c2 = c2
    Manager <- Chains
    Callback <- Callbacks
    Setting <- Small
INVARIANTS
    EventsTypeOK
    HearsAllUnlessRaced
    RefsHoldUnlessShifted
PROPERTIES
    JoinsEnd
    OwedIsHeard
CHECK_DEADLOCK FALSE
