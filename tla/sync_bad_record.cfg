CONSTANTS
    Run = {run1}
    Catalog <- NoPeople
    Links <- NoPeopleLinks
    NotObject <- BrokenFilm
    Free = Free
SPECIFICATION Spec
INVARIANT NoRecordAborts
CHECK_DEADLOCK FALSE
