CONSTANTS
    Requests = {r1, r2}
    Media = {m1}
    Nil = Nil
    Modes = {"direct"}
    Faults = {}
    MaxCrash = 0
SPECIFICATION Spec
INVARIANTS
    CsvUpToDate
SYMMETRY Symmetry
CHECK_DEADLOCK FALSE
