CONSTANTS
    User = {u1}
    ContentType = {Film}
    Request = {r1, r2, r3}
    MaxPk = 1
SPECIFICATION RequestSpec
INVARIANT FalseMeansDeleted
CHECK_DEADLOCK FALSE
