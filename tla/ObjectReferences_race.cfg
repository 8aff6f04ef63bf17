CONSTANTS
    o1 = o1
    c1 = c1
    c2 = c2
    Requests = {r1, r2}
    Organizations = {o1}
    Contacts = {c1, c2}
    Metas = {m1}
    Bodies <- MCBodies
    Old = Old
    Nil = Nil
SPECIFICATION Spec
INVARIANTS
    TypeOK
    DanglesByRace
    AloneAsExpected
    SuccessStored
    InvalidIsReplaced
SYMMETRY Symmetry
CHECK_DEADLOCK FALSE
