CONSTANTS
    Run = {run1, run2}
    Catalog <- TinyCatalog
    Links <- DroppedLinks
    NotObject = {}
    Free = Free
SYMMETRY Symmetry
SPECIFICATION Spec
PROPERTY CleanRunTranslates
CHECK_DEADLOCK FALSE
