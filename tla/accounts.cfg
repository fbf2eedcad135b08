CONSTANTS
    Process = {p1, p2}
    Ident = {i1}
    Rates <- MCRates
    Window = 2
    MaxNow = 2
    MaxKills = 1
    Request = {r1, r2, r3}
    Name = {n1, n2}
    Mail = {m1, m2}
    MaxMishaps = 1
SPECIFICATION Spec
SYMMETRY Symmetry
INVARIANTS
    TypeOK
    UniqueAccounts
    InternalErrorHasCause
    NobodyIsStranded
    RotationInvalidates
    DeletionInvalidates
    AuthIsLimited
    IInv
CHECK_DEADLOCK FALSE
