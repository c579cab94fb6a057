SPECIFICATION Spec
CONSTANTS
    c1 = c1
    c2 = c2
    k1 = k1
    k2 = k2
    None = None
    Calls <- MCCalls
    Keys <- MCKeys
    TTL = 1
    Window = 1
    MaxTime = 2
INVARIANTS
    TypeOK
    OwnAnswer
    AnswersFresh
PROPERTIES
    CacheMovesForward
    EverySearchReturns
CHECK_DEADLOCK FALSE
