---------------------------- MODULE ManagerInit ----------------------------
(***************************************************************************)
(* The start of rudi-manager: dbInitialize creates the SQLite tables of    *)
(* the accounts, or brings those of an older version up to date, while the *)
(* server already answers requests.                                        *)
(*                                                                         *)
(* No transaction groups its requests: each is a step, and the process may *)
(* be stopped between two of them and started again on what they left.  A  *)
(* read has no step of its own where nobody else writes what it read.      *)
(***************************************************************************)
EXTENDS Naturals, FiniteSets

CONSTANTS
    OldUsers,   \* the accounts of an existing database
    NewUsers,   \* the names under which somebody registers, once each
    SU,         \* SU_NAME
    SuId,       \* db_su_id, 0 by default: a string, hence never taken for none
    Dummy,      \* 'dummy'
    Nil,        \* a table, or the rows of one, that does not exist
    StartValue  \* USER_ID_START_VALUE

ASSUME ConstantsAssumption ==
    /\ StartValue \in Nat \ {0} /\ SuId \in Nat
    /\ SU # Dummy /\ {SU, Dummy} \cap OldUsers = {}
    /\ OldUsers \cap NewUsers = {}
    /\ IsFiniteSet(OldUsers) /\ IsFiniteSet(NewUsers)

VARIABLES
    roles,      \* the table Roles: what is known of its rows, hide apart
    hidden,     \* its roles whose flag hide is set, Missing without the column
    userRoles,  \* the table User_Roles
    tables,     \* the tables of users, under each of the names they may bear
    pc,         \* where dbInitialize is
    old,        \* the parameter of dbNormalizeUserTableName
    accounts,   \* (history) the rows of the users that were ever there
    registered, \* (history) the names under which somebody registered
    stops       \* (history) the breaks where dbInitialize was stopped

vars == <<roles, hidden, userRoles, tables, pc, old, accounts, registered, stops>>

-----------------------------------------------------------------------------
(* Data *)

\* In the order of initialRoles.
InitialRoles == <<"SuperAdmin", "Admin", "Moniteur", "Editeur", "Lecteur">>
HiddenRoles == {"SuperAdmin", "Moniteur"}
NewRoles == {InitialRoles[i] : i \in 1 .. 5}
OldRoles == {"SuperAdmin", "Admin", "Moniteur", "Gestionnaire", "Createur"}

Readers(r) == IF r = "Createur" THEN "Lecteur" ELSE r
Editors(r) == IF r = "Gestionnaire" THEN "Editeur" ELSE r
isOld(r) == r \in {"Createur", "Gestionnaire"}

TableNames == {"x", "xxx", "users", "xusersx", "Users"}
tempName(t) == IF t = "x" THEN "xxx" ELSE "xusersx"

\* A table of users, with the last identifier that AUTOINCREMENT gave or met.
Names == OldUsers \cup NewUsers \cup {SU, Dummy}
Rows == SUBSET (Nat \X Names)
Table == [seq : Nat, rows : Rows]
EmptyTable == [seq |-> 0, rows |-> {}]

\* What stands for the rows of a table of roles, or a column, that does not exist.
Missing == {Nil}

ASSUME NilAssumption ==
    Nil \notin Table \cup OldRoles \cup NewRoles \cup (Nat \X (OldRoles \cup NewRoles))

Inserted(t, id, name) ==
    [seq |-> IF id > t.seq THEN id ELSE t.seq, rows |-> t.rows \cup {<<id, name>>}]

named(name) == {row \in tables["Users"].rows : row[2] = name}

\* The keys of a row that another must not have: the identifier, and the name (UNIQUE).
isTaken(t, id, name) == \E row \in t.rows : row[1] = id \/ row[2] = name

PC == {"down", "initRoles", "createRoles", "addHide", "setHide", "renameRoles", "renameEditors",
       "renameUserRoles", "renameUserEditors", "initUserRoles", "renameUsers", "renameTemp",
       "initUsers", "findDummy", "insertDummy", "dropDummy", "findSU", "insertSU", "grantSU",
       "ready", "failed", "stuck"}

\* Where a step is left half done, that no later start completes.
Breaks == {"createRoles", "initUserRoles", "setHide", "renameTemp", "grantSU"}

at(place) == pc = place
goto(place) == pc' = place

-----------------------------------------------------------------------------
(* The table Roles *)

initRoles ==
    /\ at("initRoles")
    /\ IF roles = Missing
         THEN roles' = {} /\ hidden' = {} /\ goto("createRoles")
         ELSE goto("addHide") /\ UNCHANGED <<roles, hidden>>
    /\ UNCHANGED <<userRoles, tables, old, accounts, registered, stops>>

\* dbCreateRoles queues its insertions, and resolves without awaiting them: SQLite
\* makes them in this order, before the requests that follow.
insertRole ==
    LET role == InitialRoles[Cardinality(roles) + 1]
    IN  /\ at("createRoles")
        /\ roles' = roles \cup {role}
        /\ hidden' = IF role \in HiddenRoles THEN hidden \cup {role} ELSE hidden
        /\ goto(IF Cardinality(roles) = 4 THEN "initUserRoles" ELSE "createRoles")
        /\ UNCHANGED <<userRoles, tables, old, accounts, registered, stops>>

addHide ==
    /\ at("addHide")
    /\ IF hidden = Missing
         THEN hidden' = {} /\ goto("setHide")
         ELSE goto("renameRoles") /\ UNCHANGED hidden
    /\ UNCHANGED <<roles, userRoles, tables, old, accounts, registered, stops>>

\* Faulty: all roles are hidden.
setHide_all ==
    /\ at("setHide")
    /\ hidden' = roles
    /\ goto("renameRoles")
    /\ UNCHANGED <<roles, userRoles, tables, old, accounts, registered, stops>>

setHide ==
    /\ at("setHide")
    /\ hidden' = roles \cap HiddenRoles
    /\ goto("renameRoles")
    /\ UNCHANGED <<roles, userRoles, tables, old, accounts, registered, stops>>

\* Faulty: where the roles bear their new names, those of the users are left alone.
renameRoles_return ==
    /\ at("renameRoles")
    /\ IF \E r \in roles : isOld(r)
         THEN roles' = {Readers(r) : r \in roles} /\ goto("renameEditors")
         ELSE goto("initUserRoles") /\ UNCHANGED roles
    /\ UNCHANGED <<hidden, userRoles, tables, old, accounts, registered, stops>>

renameRoles ==
    /\ at("renameRoles")
    /\ IF \E r \in roles : isOld(r)
         THEN roles' = {Readers(r) : r \in roles} /\ goto("renameEditors")
         ELSE goto("renameUserRoles") /\ UNCHANGED roles
    /\ UNCHANGED <<hidden, userRoles, tables, old, accounts, registered, stops>>

renameEditors ==
    /\ at("renameEditors")
    /\ roles' = {Editors(r) : r \in roles}
    /\ goto("renameUserRoles")
    /\ UNCHANGED <<hidden, userRoles, tables, old, accounts, registered, stops>>

-----------------------------------------------------------------------------
(* The table User_Roles *)

\* Nothing handles the rejection where the table does not exist: the promise that is
\* awaited is never settled.
renameUserRoles ==
    /\ at("renameUserRoles")
    /\ CASE userRoles = Missing -> goto("stuck") /\ UNCHANGED userRoles
         [] userRoles # Missing /\ (\E ur \in userRoles : isOld(ur[2])) ->
              /\ userRoles' = {<<ur[1], Readers(ur[2])>> : ur \in userRoles}
              /\ goto("renameUserEditors")
         [] OTHER -> goto("initUserRoles") /\ UNCHANGED userRoles
    /\ UNCHANGED <<roles, hidden, tables, old, accounts, registered, stops>>

renameUserEditors ==
    /\ at("renameUserEditors")
    /\ userRoles' = {<<ur[1], Editors(ur[2])>> : ur \in userRoles}
    /\ goto("initUserRoles")
    /\ UNCHANGED <<roles, hidden, tables, old, accounts, registered, stops>>

initUserRoles ==
    /\ at("initUserRoles")
    /\ userRoles' = IF userRoles = Missing THEN {} ELSE userRoles
    /\ old' = "x"
    /\ goto("renameUsers")
    /\ UNCHANGED <<roles, hidden, tables, accounts, registered, stops>>

-----------------------------------------------------------------------------
(* The table Users *)

\* dbNormalizeUserTableName, of 'x', then of 'users'.
nextTable ==
    IF old = "x" THEN old' = "users" /\ goto("renameUsers")
                 ELSE goto("initUsers") /\ UNCHANGED old

\* SQLite makes no difference between users and Users: hence the name in between.
renameUsers ==
    /\ at("renameUsers")
    /\ IF tables[old] = Nil
         THEN nextTable /\ UNCHANGED tables
         ELSE /\ tables' = [tables EXCEPT ![old] = Nil, ![tempName(old)] = tables[old]]
              /\ goto("renameTemp")
              /\ UNCHANGED old
    /\ UNCHANGED <<roles, hidden, userRoles, accounts, registered, stops>>

renameTemp ==
    /\ at("renameTemp")
    /\ tables' = [tables EXCEPT ![tempName(old)] = Nil, !["Users"] = tables[tempName(old)]]
    /\ nextTable
    /\ UNCHANGED <<roles, hidden, userRoles, accounts, registered, stops>>

\* Faulty: the table is created anew.
initUsers_drop ==
    /\ at("initUsers")
    /\ tables' = [tables EXCEPT !["Users"] = EmptyTable]
    /\ goto("findDummy")
    /\ UNCHANGED <<roles, hidden, userRoles, old, accounts, registered, stops>>

initUsers ==
    /\ at("initUsers")
    /\ tables' = [tables EXCEPT !["Users"] = IF @ = Nil THEN EmptyTable ELSE @]
    /\ goto("findDummy")
    /\ UNCHANGED <<roles, hidden, userRoles, old, accounts, registered, stops>>

\* Faulty: the dummy is inserted whoever bears its identifier.
findDummy_again ==
    /\ at("findDummy")
    /\ goto("insertDummy")
    /\ UNCHANGED <<roles, hidden, userRoles, tables, old, accounts, registered, stops>>

\* dbNormalizeUserTableId: a user is inserted and deleted at StartValue, so that the
\* identifiers that follow are greater.
findDummy ==
    LET found == {row \in tables["Users"].rows : row[1] = StartValue}
    IN  /\ at("findDummy")
        /\ goto(CASE found = {}                    -> "insertDummy"
                  [] found = {<<StartValue, Dummy>>} -> "dropDummy"
                  [] OTHER                         -> "findSU")
        /\ UNCHANGED <<roles, hidden, userRoles, tables, old, accounts, registered, stops>>

\* dbCreateUserCheckExists.  Somebody who registered may have that identifier now, or
\* that name, on which every start fails.
insertDummy ==
    /\ at("insertDummy")
    /\ IF isTaken(tables["Users"], StartValue, Dummy)
         THEN goto("failed") /\ UNCHANGED tables
         ELSE /\ tables' = [tables EXCEPT !["Users"] = Inserted(@, StartValue, Dummy)]
              /\ goto("dropDummy")
    /\ UNCHANGED <<roles, hidden, userRoles, old, accounts, registered, stops>>

dropDummy ==
    /\ at("dropDummy")
    /\ tables' = [tables EXCEPT !["Users"].rows = {row \in @ : row[1] # StartValue}]
    /\ goto("findSU")
    /\ UNCHANGED <<roles, hidden, userRoles, old, accounts, registered, stops>>

\* dbCreateSuperUser
findSU ==
    /\ at("findSU")
    /\ goto(IF named(SU) # {} THEN "ready" ELSE "insertSU")
    /\ UNCHANGED <<roles, hidden, userRoles, tables, old, accounts, registered, stops>>

\* dbCreateUserCheckExists.  Somebody may have registered under that name since.
insertSU ==
    /\ at("insertSU")
    /\ IF isTaken(tables["Users"], SuId, SU)
         THEN goto("failed") /\ UNCHANGED <<tables, accounts>>
         ELSE /\ tables' = [tables EXCEPT !["Users"] = Inserted(@, SuId, SU)]
              /\ accounts' = accounts \cup {<<SuId, SU>>}
              /\ goto("grantSU")
    /\ UNCHANGED <<roles, hidden, userRoles, old, registered, stops>>

\* Faulty: the identifier is the last that was given, not the one of the configuration.
grantSU_last ==
    /\ at("grantSU")
    /\ userRoles' = userRoles \cup {<<tables["Users"].seq, "SuperAdmin">>}
    /\ goto("ready")
    /\ UNCHANGED <<roles, hidden, tables, old, accounts, registered, stops>>

\* The foreign keys are not enforced here.
grantSU ==
    /\ at("grantSU")
    /\ userRoles' = userRoles \cup {<<row[1], "SuperAdmin">> : row \in named(SU)}
    /\ goto("ready")
    /\ UNCHANGED <<roles, hidden, tables, old, accounts, registered, stops>>

-----------------------------------------------------------------------------
(* The server, meanwhile *)

\* postRegister, which accepts any name and finds the table under either of its own.
Register(n) ==
    /\ ~at("down")
    /\ n \notin registered
    /\ \E t \in {"users", "Users"} :
         /\ tables[t] # Nil
         /\ \A row \in tables[t].rows : row[2] # n
         /\ LET id == tables[t].seq + 1
            IN  /\ tables' = [tables EXCEPT ![t] = Inserted(@, id, n)]
                /\ accounts' = accounts \cup {<<id, n>>}
    /\ registered' = registered \cup {n}
    /\ UNCHANGED <<roles, hidden, userRoles, pc, old, stops>>

Stop ==
    /\ ~at("down")
    /\ stops' = stops \cup ({pc} \cap Breaks)
    /\ goto("down")
    /\ UNCHANGED <<roles, hidden, userRoles, tables, old, accounts, registered>>

Start ==
    /\ at("down")
    /\ goto("initRoles")
    /\ UNCHANGED <<roles, hidden, userRoles, tables, old, accounts, registered, stops>>

-----------------------------------------------------------------------------

\* There may be no database, or one whose roles, flags and table of users are of
\* either version, with the super user or not yet: any other account has a role.
Init ==
    /\ \/ /\ roles = Missing /\ hidden = Missing /\ userRoles = Missing
          /\ tables = [t \in TableNames |-> Nil]
          /\ accounts = {}
       \/ /\ \/ roles = OldRoles /\ hidden \in {Missing, HiddenRoles}
             \/ roles = NewRoles /\ hidden = HiddenRoles
          /\ \E ids \in [OldUsers -> 1 .. Cardinality(OldUsers)], found \in BOOLEAN :
               /\ \A m, n \in OldUsers : ids[m] = ids[n] => m = n
               /\ found => \A n \in OldUsers : ids[n] # SuId
               /\ accounts = {<<ids[n], n>> : n \in OldUsers}
                               \cup (IF found THEN {<<SuId, SU>>} ELSE {})
               /\ \E role \in [OldUsers -> roles \ HiddenRoles] :
                    userRoles = {<<ids[n], role[n]>> : n \in OldUsers}
                                  \cup (IF found THEN {<<SuId, "SuperAdmin">>} ELSE {})
          /\ \E name \in {"x", "users", "Users"}, last \in {Cardinality(OldUsers), SuId} :
               /\ \A row \in accounts : row[1] <= last
               /\ tables = [t \in TableNames |->
                             IF t = name THEN [seq |-> last, rows |-> accounts] ELSE Nil]
    /\ pc = "initRoles"
    /\ old = "x"
    /\ registered = {}
    /\ stops = {}

dbInitialize ==
    \/ initRoles \/ insertRole \/ addHide \/ setHide \/ renameRoles \/ renameEditors
    \/ renameUserRoles \/ renameUserEditors \/ initUserRoles
    \/ renameUsers \/ renameTemp \/ initUsers
    \/ findDummy \/ insertDummy \/ dropDummy \/ findSU \/ insertSU \/ grantSU

Next == dbInitialize \/ (\E n \in NewUsers : Register(n)) \/ Stop \/ Start

Spec == Init /\ [][Next]_vars

\* The requests that are queued are made, and a process that stopped is started again.
FairSpec == Spec /\ WF_vars(dbInitialize) /\ WF_vars(Start)

-----------------------------------------------------------------------------
(* Properties *)

TypeOK ==
    /\ roles \in (SUBSET (OldRoles \cup NewRoles)) \cup {Missing}
    /\ hidden \in (SUBSET HiddenRoles) \cup {Missing}
    /\ userRoles \in (SUBSET (Nat \X (OldRoles \cup NewRoles))) \cup {Missing}
    /\ tables \in [TableNames -> Table \cup {Nil}]
    /\ pc \in PC
    /\ old \in {"x", "users"}
    /\ accounts \in Rows
    /\ registered \in SUBSET NewUsers
    /\ stops \in SUBSET Breaks

\* The process was never stopped while the table of users bore a temporary name, the
\* only one under which no later start looks for it.
NoTempLost == "renameTemp" \notin stops

\* The accounts, but that of somebody who registered as the dummy and was given its
\* identifier.
Lasting == accounts \ {<<StartValue, Dummy>>}

\* Once the start has ended, the accounts of the database that was found, and those
\* of the users who registered meanwhile, are there with their identifiers, whatever
\* the number of stops before.
AccountsKept ==
    at("ready") /\ NoTempLost => Lasting \subseteq tables["Users"].rows

\* Once the start has ended, every account of the old database still has a role, none
\* of the old ones, and nobody who only registered got one, through an identifier that
\* was used again or the name of the super user.
RightsKept ==
    at("ready") /\ NoTempLost =>
        /\ \A n \in OldUsers : \A row \in named(n) : \E ur \in userRoles : ur[1] = row[1]
        /\ \A ur \in userRoles : ~isOld(ur[2])
        /\ \A n \in registered : \A row \in named(n) : \A ur \in userRoles : ur[1] # row[1]

\* Once the start has ended, the super user exists and has its role, unless the
\* process was stopped between the two insertions, which no later start completes, or
\* somebody registered under its name before, whom every start takes for it.
SuperUserCan ==
    at("ready") /\ {"grantSU", "renameTemp"} \cap stops = {} /\ SU \notin registered =>
        \E row \in named(SU) : <<row[1], "SuperAdmin">> \in userRoles

\* The process was never stopped between the creation of the table Roles and that of
\* User_Roles: every later start waits for ever for the roles of the users.
NoTableMissing == userRoles # Missing \/ {"createRoles", "initUserRoles"} \cap stops = {}

\* Why a start may fail: the identifier or the name of the dummy, or those of the super
\* user, were given to somebody else.
Refusable ==
    \/ \E n \in registered : <<StartValue, n>> \in accounts
    \/ \E a \in accounts : a[1] = SuId /\ a[2] # SU
    \/ {SU, Dummy} \cap registered # {}

\* A process that is not stopped again and again ends its start, whatever it found,
\* and only fails for one of these reasons.
StartEnds ==
    \/ <>[](at("ready") \/ (at("failed") /\ Refusable))
    \/ []<>at("down")
    \/ <>(~NoTableMissing)
=============================================================================
