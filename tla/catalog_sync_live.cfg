CONSTANTS
    Run = {run1, run2}
    Catalog <- TinyCatalog
    Links <- TinyLinks
    NotObject = {}
    Free = Free
SPECIFICATION FairSpec
PROPERTIES
    EveryRunEnds
    CleanRunMirrors
CHECK_DEADLOCK FALSE
