SPECIFICATION Spec
CONSTANTS
    c1 = c1
    c2 = c2
    None = None
    Callers <- MCCallers
    Methods <- MCMethods
    Attempts = 2
    RetryOn <- MCRetryOn
SYMMETRY MCSymmetry
INVARIANTS
    TypeOK
    AnswersTrue
    WritesStay
    OrphansAreRetries
    CountsHonest
    ConflictsNamed
PROPERTIES
    ImplementAtLeastOnce
CHECK_DEADLOCK FALSE
