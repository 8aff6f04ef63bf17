CONSTANTS
    Requests = {r1, r2, r3, r4}
    Media = {m1, m2}
    Nil = Nil
    Modes = {"direct", "staged"}
    Faults = {"overlapMedia", "crash"}
    MaxCrash = 1
SPECIFICATION Spec
INVARIANTS
    SettledCsv
SYMMETRY Symmetry
CHECK_DEADLOCK FALSE
