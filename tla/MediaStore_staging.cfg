CONSTANTS
    Requests = {r1, r2, r3}
    Media = {m1}
    Nil = Nil
    Modes = {"direct", "staged"}
    Faults = {"overlapMedia", "overlapZone", "early", "diskError", "csvError", "crash"}
    MaxCrash = 1
SPECIFICATION Spec
INVARIANTS
    TypeOK
    StagedHidden
    CommittedOnce
PROPERTIES
    StagingKept
SYMMETRY Symmetry
CHECK_DEADLOCK FALSE
