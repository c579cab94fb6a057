SPECIFICATION Spec
CONSTANTS
    None = None
    Policies <- MCPolicies
    MaxDuration = 31
    Replies <- MCReplies
INVARIANTS
    TypeOK
    GivesUpLast
    ObservedOnce
PROPERTIES
    RetryAfterHonoured
    EveryCallReturns
    ImplementsAtLeastOnce
CHECK_DEADLOCK FALSE
