CONSTANTS
    Edits = {e1, e2, e3}
    Files = {f1, f2}
    Nil = Nil
    Faults = {"staleForm", "late", "expire", "lost"}
SPECIFICATION Spec
INVARIANTS
    TypeOK
    SentIsServed
    LastCommitSends
SYMMETRY Symmetry
CHECK_DEADLOCK FALSE
