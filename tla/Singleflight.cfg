SPECIFICATION Spec
CONSTANTS
    c1 = c1
    c2 = c2
    c3 = c3
    k1 = k1
    None = None
    Calls <- MCCalls
    Keys <- MCKeys
    Window = 2
    MaxTime = 2
INVARIANTS
    TypeOK
    OneFlightPerKey
    NoLostWaiter
    ResultsFresh
PROPERTIES
    RerunsAreRaces
    EveryCallReturns
CHECK_DEADLOCK FALSE
