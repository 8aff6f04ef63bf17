CONSTANTS
    Requests = {r1, r2, r3}
    Media = {m1, m2}
    Nil = Nil
    Modes = {"direct", "append", "staged"}
    Faults = {"overlapZone", "diskError", "crash", "early"}
    MaxCrash = 1
SPECIFICATION Spec
INVARIANTS
    ServedIsListed
    ServedIsWhole
SYMMETRY Symmetry
CHECK_DEADLOCK FALSE
