CONSTANTS
    RetryLimits = {0, 1, 3}
    Backoff = 2
    MaxPages = 3
    MaxResults = 2
SPECIFICATION Spec
INVARIANTS
    TypeOK
    RetryDiscipline
    UnavailableMeansExhausted
    BackoffIsLinear
PROPERTIES
    DeliversStream
CHECK_DEADLOCK FALSE
