CONSTANTS
    User = {u1, u2}
    ContentType = {Film}
    Request = {r1, r2, r3, r4}
    MaxPk = 2
SYMMETRY Symmetry
SPECIFICATION SerialSpec
INVARIANTS
    RepeatToggles
    ResponseAgrees
CHECK_DEADLOCK FALSE
