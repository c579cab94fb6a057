SPECIFICATION Spec
CONSTANTS
    Rows = 5
    PageSize = 3
    Blank = Blank
INVARIANTS
    TypeOK
    HandedOutOnce
    NothingLost
    CleanEnd
PROPERTIES
    InOrder
    DrainEnds
