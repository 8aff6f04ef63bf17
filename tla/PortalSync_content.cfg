CONSTANTS
    Sends = {s1, s2, s3}
    Metas = {m1}
    Nil = Nil
    Faults = {"staleForm", "refusal", "late"}
    Timeout = 1
    MaxClock = 0
SPECIFICATION Spec
INVARIANTS
    PortalUpToDate
SYMMETRY Symmetry
CHECK_DEADLOCK FALSE
