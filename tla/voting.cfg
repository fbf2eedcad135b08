CONSTANTS
    User = {u1, u2}
    ContentType = {Film, Starship}
    Request = {r1, r2, r3}
    MaxPk = 1
SYMMETRY Symmetry
SPECIFICATION Spec
INVARIANTS
    TypeOK
    OneVotePerUserPerItem
    VotesHaveUsers
    MissHasCause
    ServerErrorOnlyIfDeleted
    CountIsPerItem
    IInv
PROPERTIES
    NoInheritedVotes
    RefinesLedger
CHECK_DEADLOCK FALSE
