CONSTANTS
    Task = {t1}
    Slot = {s1, s2}
    MaxRetries = 2
    MaxCrashes = 2
SPECIFICATION FairSpec
INVARIANTS
    TypeOK
    NothingLost
    OutagesAreRetried
    RunsAreBounded
    SuccessIsTold
    IInv
PROPERTY EveryTaskEnds
CHECK_DEADLOCK FALSE
