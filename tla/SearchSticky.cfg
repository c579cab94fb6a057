SPECIFICATION Spec
CONSTANTS
    c1 = c1
    c2 = c2
    k1 = k1
    k2 = k2
    None = None
    Calls <- MCCalls
    Keys <- OneKey
    TTL = 1
    Window = 1
    MaxTime = 3
PROPERTIES
    StickyResponses
CHECK_DEADLOCK FALSE
