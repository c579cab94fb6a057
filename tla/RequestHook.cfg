SPECIFICATION Spec
CONSTANTS
    None = None
    Policies <- MCPolicies
    MaxDuration = 31
    Replies <- MCReplies
PROPERTIES
    HookAborts
CHECK_DEADLOCK FALSE
