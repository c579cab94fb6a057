SPECIFICATION Spec
CONSTANTS
    None = None
    Policies <- MCManyAttempts
    MaxDuration = 7
    Replies <- MCReplies
PROPERTIES
    BackoffCapped
CHECK_DEADLOCK FALSE
