CONSTANTS
    Sends = {s1, s2}
    Metas = {m1}
    Nil = Nil
    Faults = {"overlap", "netError", "refusal", "late", "retry"}
    Timeout = 1
    MaxClock = 1
SPECIFICATION Spec
INVARIANTS
    TypeOK
    PublishedSeesSends
    HandledReportsCount
    StatusReckoned
SYMMETRY Symmetry
CHECK_DEADLOCK FALSE
