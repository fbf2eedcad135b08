CONSTANTS
    Run = {run1, run2}
    Catalog <- NoPeople
    Links <- NoPeopleLinks
    NotObject <- BrokenFilm
    Free = Free
SYMMETRY Symmetry
SPECIFICATION Spec
INVARIANTS
    TypeOK
    LinksPointToRows
    RowsAreWhole
    EveryRecordCounted
    IInv
PROPERTIES
    IdentityIsStable
    CleanRunMirrors
CHECK_DEADLOCK FALSE
