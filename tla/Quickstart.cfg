SPECIFICATION Spec
CONSTANTS
    OptionLists <- MCOptionLists
    TTL = 4
    ContextTimeout = 9
    JobDeadline = 18
    PollInterval = 2
    MaxTime = 30
    None = None
INVARIANTS
    TypeOK
    ClientAsAsked
    SearchesAgain
    ContextRules
PROPERTIES
    MainEnds
CHECK_DEADLOCK FALSE
