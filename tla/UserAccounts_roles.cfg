CONSTANTS
    Requests = {r1, r2}
    Names = {boss, bob, eve}
    Emails = {x, y}
    Boss = boss
    Roles = {Admin, Editeur}
    RoleArgs = {Admin, Editeur, Unknown}
    ADMIN = Admin
    Nil = Nil
    Kinds = {"create", "edit", "delete", "register", "login"}
    MaxId = 3
SPECIFICATION Spec
INVARIANTS
    TypeOK
    RowsRefer
    RolesAgreed
    NeverBare
    EmailsDistinct
    EndsByRace
SYMMETRY Symmetry
CHECK_DEADLOCK FALSE
