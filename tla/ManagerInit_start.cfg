CONSTANTS
    OldUsers = {u1, u2}
    NewUsers = {n1, SU, Dummy}
    SU = SU
    SuId = 0
    Dummy = Dummy
    Nil = Nil
    StartValue = 4
SPECIFICATION FairSpec
INVARIANTS
    TypeOK
    AccountsKept
    RightsKept
    SuperUserCan
PROPERTIES
    StartEnds
CHECK_DEADLOCK FALSE
