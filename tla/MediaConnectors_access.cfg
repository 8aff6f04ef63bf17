CONSTANTS
    Posts = {p1, p2}
    Conns = {c1}
    Gets = {g1}
    Media = {m1, m2}
    FileNames = {n1, n2}
    Nil = Nil
    Faults = {"early", "csvError", "stop"}
SPECIFICATION FairSpec
INVARIANTS
    TypeOK
    ServedCurrent
    FailsIfDeleted
    Md5Right
    ListedIsZone
PROPERTIES
    ConnectorsClose
CHECK_DEADLOCK FALSE
