CONSTANTS
    User = {u1}
    ContentType = {Film}
    Request = {r1, r2, r3}
    MaxPk = 1
SPECIFICATION Spec
INVARIANT VotesHaveItems
CHECK_DEADLOCK FALSE
