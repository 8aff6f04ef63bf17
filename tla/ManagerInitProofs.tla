-------------------------- MODULE ManagerInitProofs --------------------------
(***************************************************************************)
(* Proofs about ManagerInit, for any accounts of the database that is      *)
(* found, any users who register, any start value and any stops.           *)
(***************************************************************************)
EXTENDS ManagerInit, FiniteSetTheorems, TLAPS

(***************************************************************************)
(* The inductive invariant.                                                *)
(***************************************************************************)

\* The roles that the first insertions make.
Made(k) == {InitialRoles[i] : i \in 1 .. k}

\* The places where the table Users is there, where it bears its name, and where no
\* account has a role of the old version.
Filled == {"findDummy", "insertDummy", "dropDummy", "findSU", "insertSU", "grantSU", "ready"}
Named == Filled \cup {"initUsers"}
Tabled == Named \cup {"renameUsers", "renameTemp"}
Renamed == Tabled \cup {"initUserRoles"}

\* What dbInitialize has found or created where it is.
PlaceOK ==
    /\ roles = Missing => pc \in {"initRoles", "down"} /\ userRoles = Missing
    /\ pc = "createRoles" =>
          userRoles = Missing /\ hidden # Missing /\ \E k \in 0 .. 4 : roles = Made(k)
    /\ pc = "renameUserEditors" => userRoles # Missing /\ \A ur \in userRoles : ur[2] # "Createur"
    /\ pc \in Tabled => userRoles # Missing
    /\ pc \in Renamed => userRoles = Missing \/ \A ur \in userRoles : ~isOld(ur[2])
    /\ pc \in Filled => tables["Users"] # Nil

\* The rows are those of accounts, but the dummy, which alone has its identifier when
\* it is dropped and is gone then; none has a key of another.
RowsOK ==
    /\ \A n \in registered : \E a \in accounts : a[2] = n
    /\ \A a \in accounts : a[2] = Dummy => Dummy \in registered
    /\ \A t \in TableNames :
          tables[t] # Nil =>
              /\ \A row \in tables[t].rows : row[1] <= tables[t].seq
              /\ tables[t].rows \subseteq accounts \cup {<<StartValue, Dummy>>}
              /\ \A a, b \in tables[t].rows : a[1] = b[1] \/ a[2] = b[2] => a = b
    /\ pc = "dropDummy" =>
          /\ StartValue <= tables["Users"].seq
          /\ \A row \in tables["Users"].rows : row[1] = StartValue => row[2] = Dummy
    /\ pc \in {"findSU", "insertSU", "grantSU", "ready"} =>
          \A row \in tables["Users"].rows : row[2] = Dummy => Dummy \in registered

\* Every account that lasts is in the table that bears this name, the only one.
Home(t) ==
    /\ tables[t] # Nil
    /\ Lasting \subseteq tables[t].rows
    /\ \A u \in TableNames \ {t} : tables[u] = Nil

NoHome == accounts = {} /\ \A t \in TableNames : tables[t] = Nil

\* Where the accounts are as long as no stop left them under a temporary name; there
\* no role goes to somebody who registered, and the super user is not one of them.
HomeOK ==
    NoTempLost =>
        /\ pc = "renameTemp" => Home(tempName(old))
        /\ pc # "renameTemp" => NoHome \/ Home("x") \/ Home("users") \/ Home("Users")
        /\ pc = "renameUsers" /\ old = "users" => ~Home("x")
        /\ pc \in Named => NoHome \/ Home("Users")
        /\ pc = "grantSU" => SU \notin registered
        /\ userRoles = Missing
           \/ \A ur \in userRoles : \E a \in Lasting : a[1] = ur[1] /\ a[2] \notin registered

\* The accounts of the database that was found keep a role.
RightsOK ==
    \A a \in accounts :
        a[2] \in OldUsers => userRoles # Missing /\ \E ur \in userRoles : ur[1] = a[1]

\* Who bears the name of the super user has its role, unless it is about to be given or
\* that name was taken by somebody who registered.
SuperOK ==
    /\ pc \in {"grantSU", "ready"} => named(SU) # {}
    /\ {"grantSU", "renameTemp"} \cap stops = {} /\ SU \notin registered =>
          \A t \in TableNames :
              tables[t] # Nil =>
                  \A row \in tables[t].rows :
                      row[2] = SU /\ pc # "grantSU" =>
                          userRoles # Missing /\ <<row[1], "SuperAdmin">> \in userRoles

IInv == TypeOK /\ PlaceOK /\ RowsOK /\ HomeOK /\ RightsOK /\ SuperOK

(***************************************************************************)
(* Data.                                                                   *)
(***************************************************************************)

\* initialRoles, in whatever order, and no Missing among what exists.
LEMMA RoleNames ==
    /\ NewRoles = {"SuperAdmin", "Admin", "Moniteur", "Editeur", "Lecteur"}
    /\ \A S \in SUBSET (OldRoles \cup NewRoles) : S # Missing
    /\ \A S \in SUBSET (Nat \X (OldRoles \cup NewRoles)) : S # Missing
    /\ \A t \in Table : t # Nil
<1>1. 1 .. 5 = {1, 2, 3, 4, 5}
  OBVIOUS
<1>2. NewRoles = {InitialRoles[1], InitialRoles[2], InitialRoles[3], InitialRoles[4], InitialRoles[5]}
  BY <1>1 DEF NewRoles
<1>3. NewRoles = {"SuperAdmin", "Admin", "Moniteur", "Editeur", "Lecteur"}
  BY <1>2 DEF InitialRoles
<1> QED
  BY <1>3, NilAssumption DEF Missing

\* The insertions make the roles one after the other.
LEMMA Making ==
    ASSUME NEW k \in 0 .. 4
    PROVE  /\ Cardinality(Made(k)) = k
           /\ Made(k) \subseteq NewRoles
           /\ InitialRoles[k + 1] \in NewRoles
           /\ Made(k + 1) = Made(k) \cup {InitialRoles[k + 1]}
<1>1. \A i \in 1 .. 5 : InitialRoles[i] \in NewRoles
  BY DEF NewRoles
<1>2. \A i, j \in 1 .. 5 : i # j => InitialRoles[i] # InitialRoles[j]
  BY DEF InitialRoles
<1>3. \A n \in 0 .. 4 : Made(n + 1) = Made(n) \cup {InitialRoles[n + 1]}
  <2> SUFFICES ASSUME NEW n \in 0 .. 4 PROVE Made(n + 1) = Made(n) \cup {InitialRoles[n + 1]}
    OBVIOUS
  <2>1. 1 .. (n + 1) = 1 .. n \cup {n + 1}
    OBVIOUS
  <2> QED
    BY <2>1 DEF Made
<1>4. ASSUME NEW n \in 0 .. 4, IsFiniteSet(Made(n)), Cardinality(Made(n)) = n
      PROVE  IsFiniteSet(Made(n + 1)) /\ Cardinality(Made(n + 1)) = n + 1
  <2>1. InitialRoles[n + 1] \notin Made(n)
    BY <1>2 DEF Made
  <2>2. /\ IsFiniteSet(Made(n) \cup {InitialRoles[n + 1]})
        /\ Cardinality(Made(n) \cup {InitialRoles[n + 1]}) = Cardinality(Made(n)) + 1
    BY <1>4, <2>1, FS_AddElement
  <2>3. Made(n + 1) = Made(n) \cup {InitialRoles[n + 1]}
    BY <1>3
  <2> QED
    BY <1>4, <2>2, <2>3
<1>5. IsFiniteSet(Made(0)) /\ Cardinality(Made(0)) = 0
  <2>1. Made(0) = {}
    BY DEF Made
  <2> QED
    BY <2>1, FS_EmptySet
<1>6. IsFiniteSet(Made(1)) /\ Cardinality(Made(1)) = 1
  BY <1>4, <1>5
<1>7. IsFiniteSet(Made(2)) /\ Cardinality(Made(2)) = 2
  BY <1>4, <1>6
<1>8. IsFiniteSet(Made(3)) /\ Cardinality(Made(3)) = 3
  BY <1>4, <1>7
<1>9. IsFiniteSet(Made(4)) /\ Cardinality(Made(4)) = 4
  BY <1>4, <1>8
<1>10. Made(k) \subseteq NewRoles
  BY <1>1 DEF Made
<1> QED
  BY <1>1, <1>3, <1>5, <1>6, <1>7, <1>8, <1>9, <1>10

\* What the renamings do to a role.
LEMMA Renaming ==
    ASSUME NEW r \in OldRoles \cup NewRoles
    PROVE  /\ Readers(r) \in OldRoles \cup NewRoles /\ Readers(r) # "Createur"
           /\ Editors(r) \in OldRoles \cup NewRoles
           /\ r # "Createur" => ~isOld(Editors(r))
           /\ r \in NewRoles => ~isOld(r)
           /\ r = "SuperAdmin" => Readers(r) = r /\ Editors(r) = r
BY RoleNames DEF OldRoles, Readers, Editors, isOld

\* An insertion takes an identifier of its own.
LEMMA Inserting ==
    ASSUME NEW t \in Table, NEW id \in Nat, NEW n \in Names
    PROVE  /\ Inserted(t, id, n) \in Table
           /\ Inserted(t, id, n).rows = t.rows \cup {<<id, n>>}
           /\ id <= Inserted(t, id, n).seq /\ t.seq <= Inserted(t, id, n).seq
BY DEF Inserted, Table, Rows

(***************************************************************************)
(* Types.                                                                  *)
(***************************************************************************)

\* The database that is found, if any: its accounts are in one table, each with a role.
FoundOne ==
    /\ roles # Missing /\ userRoles # Missing
    /\ \E name \in {"x", "users", "Users"} :
          /\ tables[name] # Nil /\ tables[name].rows = accounts
          /\ \A row \in accounts : row[1] <= tables[name].seq
          /\ \A t \in TableNames \ {name} : tables[t] = Nil
    /\ \A a \in accounts : a[2] \in OldUsers \cup {SU}
    /\ \A a, b \in accounts : a[1] = b[1] \/ a[2] = b[2] => a = b
    /\ \A a \in accounts : \E ur \in userRoles : ur[1] = a[1]
    /\ \A a \in accounts : a[2] = SU => <<a[1], "SuperAdmin">> \in userRoles
    /\ \A ur \in userRoles : \E a \in accounts : a[1] = ur[1]

\* The types of the initial states, and what they hold.
LEMMA Initial ==
    ASSUME Init
    PROVE  /\ TypeOK /\ pc = "initRoles" /\ old = "x" /\ stops = {} /\ registered = {}
           /\ (roles = Missing /\ userRoles = Missing /\ NoHome) \/ FoundOne
<1>1. Cardinality(OldUsers) \in Nat /\ SuId \in Nat
  BY ConstantsAssumption, FS_CardinalityType
<1>2. HiddenRoles \subseteq OldRoles \cap NewRoles
  BY RoleNames DEF HiddenRoles, OldRoles
<1>3. /\ pc \in PC /\ old \in {"x", "users"} /\ stops \in SUBSET Breaks /\ registered \in SUBSET NewUsers
      /\ pc = "initRoles" /\ old = "x" /\ stops = {} /\ registered = {}
  BY DEF Init, PC
<1>4. CASE /\ roles = Missing /\ hidden = Missing /\ userRoles = Missing
           /\ tables = [t \in TableNames |-> Nil] /\ accounts = {}
  <2>1. accounts \in Rows /\ \A t \in TableNames : tables[t] = Nil
    BY <1>4 DEF Rows
  <2> QED
    BY <1>3, <1>4, <2>1 DEF TypeOK, NoHome
<1>5. ASSUME \/ roles = OldRoles /\ hidden \in {Missing, HiddenRoles}
             \/ roles = NewRoles /\ hidden = HiddenRoles,
             NEW ids \in [OldUsers -> 1 .. Cardinality(OldUsers)], NEW found \in BOOLEAN,
             \A m, n \in OldUsers : ids[m] = ids[n] => m = n,
             found => \A n \in OldUsers : ids[n] # SuId,
             accounts = {<<ids[n], n>> : n \in OldUsers}
                          \cup (IF found THEN {<<SuId, SU>>} ELSE {}),
             NEW role \in [OldUsers -> roles \ HiddenRoles],
             userRoles = {<<ids[n], role[n]>> : n \in OldUsers}
                           \cup (IF found THEN {<<SuId, "SuperAdmin">>} ELSE {}),
             NEW name \in {"x", "users", "Users"}, NEW last \in {Cardinality(OldUsers), SuId},
             \A row \in accounts : row[1] <= last,
             tables = [t \in TableNames |->
                         IF t = name THEN [seq |-> last, rows |-> accounts] ELSE Nil]
      PROVE  TypeOK /\ FoundOne
  <2>1. \A x, y : <<x, y>>[1] = x /\ <<x, y>>[2] = y
    OBVIOUS
  <2>2. \A n \in OldUsers : ids[n] \in Nat /\ role[n] \in roles
    BY <1>1
  <2>3. /\ roles \in SUBSET (OldRoles \cup NewRoles) /\ hidden \in (SUBSET HiddenRoles) \cup {Missing}
        /\ "SuperAdmin" \in OldRoles
    BY <1>5 DEF OldRoles
  <2>4. accounts \in Rows
    BY <1>1, <1>5, <2>2 DEF Rows, Names
  <2>5. userRoles \in SUBSET (Nat \X (OldRoles \cup NewRoles))
    BY <1>1, <1>5, <2>2, <2>3
  <2>6. last \in Nat /\ [seq |-> last, rows |-> accounts] \in Table
    BY <1>1, <2>4 DEF Table
  <2>7. tables \in [TableNames -> Table \cup {Nil}]
    BY <1>5, <2>6
  <2>8. TypeOK
    BY <1>3, <2>3, <2>4, <2>5, <2>7 DEF TypeOK
  <2>9. roles # Missing /\ userRoles # Missing
    BY <2>3, <2>5, RoleNames
  <2>10. /\ tables[name] # Nil /\ tables[name].rows = accounts
         /\ \A row \in accounts : row[1] <= tables[name].seq
         /\ \A t \in TableNames \ {name} : tables[t] = Nil
    <3>1. /\ tables[name] = [seq |-> last, rows |-> accounts]
          /\ \A t \in TableNames \ {name} : tables[t] = Nil
      BY <1>5 DEF TableNames
    <3>2. tables[name].seq = last /\ tables[name].rows = accounts
      BY <3>1
    <3>3. tables[name] # Nil
      BY <2>6, <3>1, RoleNames
    <3> QED
      BY <1>5, <3>1, <3>2, <3>3
  <2>11. \A a \in accounts :
           \/ \E n \in OldUsers : a = <<ids[n], n>>
           \/ found /\ a = <<SuId, SU>>
    BY <1>5
  <2>12. /\ \A n \in OldUsers : <<ids[n], n>> \in accounts /\ <<ids[n], role[n]>> \in userRoles
         /\ found => <<SuId, SU>> \in accounts /\ <<SuId, "SuperAdmin">> \in userRoles
    BY <1>5
  <2>13. \A ur \in userRoles :
           \/ \E n \in OldUsers : ur = <<ids[n], role[n]>>
           \/ found /\ ur = <<SuId, "SuperAdmin">>
    BY <1>5
  <2>14. \A a \in accounts : a[2] \in OldUsers \cup {SU}
    BY <2>1, <2>11
  <2>15. ASSUME NEW a \in accounts, NEW b \in accounts, a[1] = b[1] \/ a[2] = b[2] PROVE a = b
    <3>1. SU \notin OldUsers
      BY ConstantsAssumption
    <3> QED
      BY <1>5, <2>1, <2>11, <2>15, <3>1
  <2>16. ASSUME NEW a \in accounts PROVE \E ur \in userRoles : ur[1] = a[1]
    <3>1. CASE \E n \in OldUsers : a = <<ids[n], n>>
      <4>1. PICK n \in OldUsers : a = <<ids[n], n>>
        BY <3>1
      <4> DEFINE ur == <<ids[n], role[n]>>
      <4>2. ur \in userRoles /\ ur[1] = a[1]
        BY <2>12, <4>1
      <4> QED
        BY <4>2
    <3>2. CASE found /\ a = <<SuId, SU>>
      <4> DEFINE ur == <<SuId, "SuperAdmin">>
      <4>1. ur \in userRoles /\ ur[1] = a[1]
        BY <2>12, <3>2
      <4> QED
        BY <4>1
    <3> QED
      BY <2>11, <3>1, <3>2
  <2>17. ASSUME NEW a \in accounts, a[2] = SU PROVE <<a[1], "SuperAdmin">> \in userRoles
    <3>1. SU \notin OldUsers
      BY ConstantsAssumption
    <3> QED
      BY <2>1, <2>11, <2>12, <2>17, <3>1
  <2>18. ASSUME NEW ur \in userRoles PROVE \E a \in accounts : a[1] = ur[1]
    <3>1. CASE \E n \in OldUsers : ur = <<ids[n], role[n]>>
      <4>1. PICK n \in OldUsers : ur = <<ids[n], role[n]>>
        BY <3>1
      <4> DEFINE a == <<ids[n], n>>
      <4>2. a \in accounts /\ a[1] = ur[1]
        BY <2>12, <4>1
      <4> QED
        BY <4>2
    <3>2. CASE found /\ ur = <<SuId, "SuperAdmin">>
      <4> DEFINE a == <<SuId, SU>>
      <4>1. a \in accounts /\ a[1] = ur[1]
        BY <2>12, <3>2
      <4> QED
        BY <4>1
    <3> QED
      BY <2>13, <3>1, <3>2
  <2> QED
    BY <2>8, <2>9, <2>10, <2>14, <2>15, <2>16, <2>17, <2>18 DEF FoundOne
<1> QED
  BY <1>3, <1>4, <1>5 DEF Init

(***************************************************************************)
(* What the steps do to the tables of users.                               *)
(***************************************************************************)

\* A row is added with keys that no other has, and is known from then on.
Enrols(t, id, n) ==
    /\ t \in TableNames /\ tables[t] \in Table /\ tables'[t] \in Table
    /\ id \in Nat /\ \A row \in tables[t].rows : row[1] # id /\ row[2] # n
    /\ tables'[t].rows = tables[t].rows \cup {<<id, n>>}
    /\ id <= tables'[t].seq /\ tables[t].seq <= tables'[t].seq
    /\ \A u \in TableNames \ {t} : tables'[u] = tables[u]
    /\ accounts' = accounts \cup {<<id, n>>}

\* A table takes another name.
Moves(t, u) ==
    /\ t \in TableNames /\ u \in TableNames /\ t # u
    /\ tables'[t] = Nil /\ tables'[u] = tables[t]
    /\ \A v \in TableNames \ {t, u} : tables'[v] = tables[v]

\* The rows of the table Users change.
Keeps(rows, seq) ==
    /\ tables["Users"] \in Table /\ tables'["Users"] \in Table
    /\ tables'["Users"].rows = rows
    /\ seq <= tables'["Users"].seq /\ tables["Users"].seq <= tables'["Users"].seq
    /\ \A t \in TableNames \ {"Users"} : tables'[t] = tables[t]

\* The elements of a row.
LEMMA RowParts ==
    ASSUME TypeOK
    PROVE  /\ \A row \in accounts : row = <<row[1], row[2]>> /\ row[1] \in Nat /\ row[2] \in Names
           /\ \A t \in TableNames : tables[t] # Nil =>
                 /\ tables[t] \in Table /\ tables[t].seq \in Nat
                 /\ \A row \in tables[t].rows :
                       row = <<row[1], row[2]>> /\ row[1] \in Nat /\ row[2] \in Names
<1>1. \A t \in TableNames : tables[t] # Nil => tables[t] \in Table
  BY DEF TypeOK
<1>2. \A t \in TableNames : tables[t] # Nil =>
          tables[t].seq \in Nat /\ tables[t].rows \in SUBSET (Nat \X Names)
  BY <1>1 DEF Table, Rows
<1>3. accounts \in SUBSET (Nat \X Names)
  BY DEF TypeOK, Rows
<1> QED
  BY <1>1, <1>2, <1>3

\* Whoever registers is enrolled in the table, under either name, with the next identifier.
LEMMA Registering ==
    ASSUME TypeOK, RowsOK, NEW n \in NewUsers, Register(n)
    PROVE  /\ \E t \in {"users", "Users"}, id \in Nat :
                tables[t] # Nil /\ tables[t].seq < id /\ Enrols(t, id, n)
           /\ n \in Names /\ registered' = registered \cup {n} /\ pc' = pc
           /\ UNCHANGED <<userRoles, roles, old, stops>>
<1>1. PICK t \in {"users", "Users"} :
        /\ tables[t] # Nil
        /\ \A row \in tables[t].rows : row[2] # n
        /\ tables' = [tables EXCEPT ![t] = Inserted(@, tables[t].seq + 1, n)]
        /\ accounts' = accounts \cup {<<tables[t].seq + 1, n>>}
  BY DEF Register
<1>2. tables[t] \in Table /\ t \in TableNames /\ tables \in [TableNames -> Table \cup {Nil}]
  BY <1>1 DEF TypeOK, TableNames
<1>3. tables[t].seq \in Nat /\ tables[t].seq + 1 \in Nat /\ n \in Names
  BY <1>2 DEF Table, Names
<1>4. /\ Inserted(tables[t], tables[t].seq + 1, n) \in Table
      /\ Inserted(tables[t], tables[t].seq + 1, n).rows
           = tables[t].rows \cup {<<tables[t].seq + 1, n>>}
      /\ tables[t].seq + 1 <= Inserted(tables[t], tables[t].seq + 1, n).seq
      /\ tables[t].seq <= Inserted(tables[t], tables[t].seq + 1, n).seq
  BY <1>2, <1>3, Inserting
<1>5. \A row \in tables[t].rows : row[1] \in Nat /\ row[1] <= tables[t].seq
  BY <1>1, <1>2, RowParts DEF RowsOK
<1>6. \A row \in tables[t].rows : row[1] # tables[t].seq + 1
  BY <1>3, <1>5
<1>7. Enrols(t, tables[t].seq + 1, n) /\ tables[t].seq < tables[t].seq + 1
  BY <1>1, <1>2, <1>3, <1>4, <1>6 DEF Enrols
<1> QED
  BY <1>1, <1>3, <1>7 DEF Register

\* So is the super user, under the identifier of the configuration.
LEMMA Enrolling ==
    ASSUME TypeOK, PlaceOK, insertSU
    PROVE  /\ pc' = "failed" => UNCHANGED <<tables, accounts>>
           /\ pc' # "failed" => Enrols("Users", SuId, SU) /\ pc' = "grantSU"
           /\ pc = "insertSU" /\ tables["Users"] # Nil /\ SU \in Names
           /\ UNCHANGED <<userRoles, roles, old, registered, stops>>
<1> DEFINE t == tables["Users"]
<1>1. tables["Users"] \in Table /\ "Users" \in TableNames /\ tables \in [TableNames -> Table \cup {Nil}]
  BY DEF TypeOK, TableNames, insertSU, PlaceOK, Filled, at
<1>2. SuId \in Nat /\ SU \in Names
  BY ConstantsAssumption DEF Names
<1>3. /\ Inserted(t, SuId, SU) \in Table
      /\ Inserted(t, SuId, SU).rows = t.rows \cup {<<SuId, SU>>}
      /\ SuId <= Inserted(t, SuId, SU).seq /\ t.seq <= Inserted(t, SuId, SU).seq
  BY <1>1, <1>2, Inserting
<1>4. ASSUME pc' # "failed" PROVE Enrols("Users", SuId, SU) /\ pc' = "grantSU"
  <2>1. /\ tables' = [tables EXCEPT !["Users"] = Inserted(t, SuId, SU)]
        /\ accounts' = accounts \cup {<<SuId, SU>>} /\ pc' = "grantSU"
        /\ ~isTaken(t, SuId, SU)
    BY <1>4 DEF insertSU, goto
  <2> QED
    BY <1>1, <1>2, <1>3, <2>1 DEF Enrols, isTaken
<1> QED
  BY <1>1, <1>2, <1>4, RoleNames DEF insertSU, goto, at

\* A renaming moves the table whole.
LEMMA Moving ==
    ASSUME TypeOK
    PROVE  /\ renameUsers /\ tables[old] # Nil =>
                Moves(old, tempName(old)) /\ pc' = "renameTemp" /\ old' = old
           /\ renameUsers /\ tables[old] = Nil => tables' = tables
           /\ renameTemp => Moves(tempName(old), "Users")
<1>1. /\ old \in TableNames /\ tempName(old) \in TableNames /\ old # tempName(old)
      /\ "Users" \in TableNames /\ tempName(old) # "Users"
      /\ tables \in [TableNames -> Table \cup {Nil}]
  BY DEF TypeOK, TableNames, tempName
<1> QED
  BY <1>1 DEF renameUsers, renameTemp, Moves, goto

\* The dummy is inserted where its identifier is free, and dropped alone.
LEMMA Dummies ==
    ASSUME TypeOK, PlaceOK
    PROVE  /\ insertDummy /\ pc' # "failed" =>
                /\ Keeps(tables["Users"].rows \cup {<<StartValue, Dummy>>}, StartValue)
                /\ \A row \in tables["Users"].rows : row[1] # StartValue /\ row[2] # Dummy
                /\ pc' = "dropDummy"
           /\ insertDummy /\ pc' = "failed" => tables' = tables
           /\ dropDummy =>
                Keeps({row \in tables["Users"].rows : row[1] # StartValue}, 0)
<1> DEFINE t == tables["Users"]
           gone == [t EXCEPT !.rows = {row \in @ : row[1] # StartValue}]
<1>1. "Users" \in TableNames /\ tables \in [TableNames -> Table \cup {Nil}]
  BY DEF TypeOK, TableNames
<1>2. insertDummy \/ dropDummy => t \in Table
  BY <1>1 DEF insertDummy, dropDummy, PlaceOK, Filled, at
<1>3. t \in Table =>
        /\ Inserted(t, StartValue, Dummy) \in Table
        /\ Inserted(t, StartValue, Dummy).rows = t.rows \cup {<<StartValue, Dummy>>}
        /\ StartValue <= Inserted(t, StartValue, Dummy).seq /\ t.seq <= Inserted(t, StartValue, Dummy).seq
  BY Inserting, ConstantsAssumption DEF Names
<1>4. t \in Table =>
        /\ gone \in Table /\ gone.rows = {row \in t.rows : row[1] # StartValue}
        /\ gone.seq = t.seq /\ 0 <= gone.seq /\ t.seq <= gone.seq
  BY DEF Table, Rows
<1>5. ASSUME insertDummy, pc' # "failed"
      PROVE  /\ tables' = [tables EXCEPT !["Users"] = Inserted(t, StartValue, Dummy)]
             /\ \A row \in t.rows : row[1] # StartValue /\ row[2] # Dummy
             /\ pc' = "dropDummy"
  BY <1>5 DEF insertDummy, isTaken, goto
<1>6. insertDummy /\ pc' = "failed" => tables' = tables
  BY DEF insertDummy, goto
<1>7. dropDummy => tables' = [tables EXCEPT !["Users"] = gone]
  BY DEF dropDummy
<1>8. ASSUME insertDummy, pc' # "failed"
      PROVE  Keeps(t.rows \cup {<<StartValue, Dummy>>}, StartValue)
  BY <1>1, <1>2, <1>3, <1>5, <1>8 DEF Keeps
<1>9. ASSUME dropDummy
      PROVE  Keeps({row \in t.rows : row[1] # StartValue}, 0)
  BY <1>1, <1>2, <1>4, <1>7, <1>9 DEF Keeps
<1> QED
  BY <1>5, <1>6, <1>8, <1>9

(***************************************************************************)
(* Each part of the invariant is kept by every step.                       *)
(***************************************************************************)

\* A step keeps the types: dbInitialize goes on only where what it reads exists.
LEMMA TypeStep == TypeOK /\ PlaceOK /\ [Next]_vars => TypeOK'
<1> SUFFICES ASSUME TypeOK, PlaceOK, [Next]_vars PROVE TypeOK'
  OBVIOUS
<1> USE DEF at, goto
<1>1. CASE initRoles
  BY <1>1 DEF initRoles, TypeOK, PC, Breaks
<1>2. CASE insertRole
  <2>1. PICK k \in 0 .. 4 : roles = Made(k)
    BY <1>2 DEF insertRole, PlaceOK
  <2>2. Cardinality(roles) = k /\ InitialRoles[k + 1] \in NewRoles
    BY <2>1, Making
  <2>3. roles \subseteq NewRoles
    BY <2>1, Making
  <2>4. roles' = roles \cup {InitialRoles[k + 1]} /\ roles' \in SUBSET (OldRoles \cup NewRoles)
    BY <1>2, <2>2, <2>3 DEF insertRole
  <2>5. hidden \in SUBSET HiddenRoles
    BY <1>2 DEF insertRole, PlaceOK, TypeOK
  <2>6. hidden' \in SUBSET HiddenRoles
    BY <1>2, <2>2, <2>5 DEF insertRole
  <2> QED
    BY <1>2, <2>4, <2>6 DEF insertRole, TypeOK, PC
<1>3. CASE addHide
  BY <1>3 DEF addHide, TypeOK, PC, Breaks
<1>4. CASE setHide
  BY <1>4 DEF setHide, TypeOK, PC, Breaks
<1>5. CASE renameRoles
  <2>1. roles \in SUBSET (OldRoles \cup NewRoles)
    BY <1>5 DEF renameRoles, PlaceOK, TypeOK
  <2>2. {Readers(r) : r \in roles} \in SUBSET (OldRoles \cup NewRoles)
    BY <2>1, Renaming
  <2>3. roles' \in SUBSET (OldRoles \cup NewRoles)
    BY <1>5, <2>1, <2>2 DEF renameRoles
  <2> QED
    BY <1>5, <2>3 DEF renameRoles, TypeOK, PC
<1>6. CASE renameEditors
  <2>1. roles \in SUBSET (OldRoles \cup NewRoles)
    BY <1>6 DEF renameEditors, PlaceOK, TypeOK
  <2>2. {Editors(r) : r \in roles} \in SUBSET (OldRoles \cup NewRoles)
    BY <2>1, Renaming
  <2>3. roles' \in SUBSET (OldRoles \cup NewRoles)
    BY <1>6, <2>1, <2>2 DEF renameEditors
  <2> QED
    BY <1>6, <2>3 DEF renameEditors, TypeOK, PC
<1>7. CASE renameUserRoles
  <2>1. ASSUME userRoles # Missing
        PROVE  {<<ur[1], Readers(ur[2])>> : ur \in userRoles} \in SUBSET (Nat \X (OldRoles \cup NewRoles))
    <3>1. \A ur \in userRoles : ur[1] \in Nat /\ ur[2] \in OldRoles \cup NewRoles
      BY <2>1 DEF TypeOK
    <3> QED
      BY <3>1, Renaming
  <2>2. userRoles' \in (SUBSET (Nat \X (OldRoles \cup NewRoles))) \cup {Missing}
    BY <1>7, <2>1 DEF renameUserRoles, PlaceOK, TypeOK
  <2> QED
    BY <1>7, <2>2 DEF renameUserRoles, TypeOK, PC
<1>8. CASE renameUserEditors
  <2>1. ASSUME userRoles # Missing
        PROVE  {<<ur[1], Editors(ur[2])>> : ur \in userRoles} \in SUBSET (Nat \X (OldRoles \cup NewRoles))
    <3>1. \A ur \in userRoles : ur[1] \in Nat /\ ur[2] \in OldRoles \cup NewRoles
      BY <2>1 DEF TypeOK
    <3> QED
      BY <3>1, Renaming
  <2>2. userRoles' \in (SUBSET (Nat \X (OldRoles \cup NewRoles))) \cup {Missing}
    BY <1>8, <2>1 DEF renameUserEditors, PlaceOK, TypeOK
  <2> QED
    BY <1>8, <2>2 DEF renameUserEditors, TypeOK, PC
<1>9. CASE initUserRoles
  BY <1>9 DEF initUserRoles, TypeOK, PC, Breaks
<1>10. CASE renameUsers
  <2>1. tables \in [TableNames -> Table \cup {Nil}] /\ "Users" \in TableNames
    BY DEF TypeOK, TableNames
  <2>2. old \in TableNames /\ tempName(old) \in TableNames
    BY DEF TypeOK, TableNames, tempName
  <2>3. tables' \in [TableNames -> Table \cup {Nil}]
    BY <1>10, <2>1, <2>2 DEF renameUsers
  <2> QED
    BY <1>10, <2>3 DEF renameUsers, nextTable, TypeOK, PC
<1>11. CASE renameTemp
  <2>1. tables \in [TableNames -> Table \cup {Nil}] /\ "Users" \in TableNames
    BY DEF TypeOK, TableNames
  <2>2. tempName(old) \in TableNames
    BY DEF TypeOK, TableNames, tempName
  <2>3. tables' \in [TableNames -> Table \cup {Nil}]
    BY <1>11, <2>1, <2>2 DEF renameTemp
  <2> QED
    BY <1>11, <2>3 DEF renameTemp, nextTable, TypeOK, PC
<1>12. CASE initUsers
  <2>1. tables \in [TableNames -> Table \cup {Nil}] /\ "Users" \in TableNames
    BY DEF TypeOK, TableNames
  <2>2. EmptyTable \in Table
    BY DEF EmptyTable, Table, Rows
  <2>3. tables' \in [TableNames -> Table \cup {Nil}]
    BY <1>12, <2>1, <2>2 DEF initUsers
  <2> QED
    BY <1>12, <2>3 DEF initUsers, TypeOK, PC
<1>13. CASE findDummy \/ findSU
  BY <1>13 DEF findDummy, findSU, TypeOK, PC, Breaks
<1>14. CASE insertDummy
  <2>1. tables \in [TableNames -> Table \cup {Nil}] /\ "Users" \in TableNames
    BY DEF TypeOK, TableNames
  <2>2. tables["Users"] \in Table
    BY <1>14, <2>1 DEF insertDummy, PlaceOK, Filled
  <2>3. Inserted(tables["Users"], StartValue, Dummy) \in Table
    BY <2>2, Inserting, ConstantsAssumption DEF Names
  <2>4. tables' \in [TableNames -> Table \cup {Nil}]
    BY <1>14, <2>1, <2>3 DEF insertDummy
  <2> QED
    BY <1>14, <2>4 DEF insertDummy, TypeOK, PC
<1>15. CASE dropDummy
  <2>1. tables \in [TableNames -> Table \cup {Nil}] /\ "Users" \in TableNames
    BY DEF TypeOK, TableNames
  <2>2. tables["Users"] \in Table
    BY <1>15, <2>1 DEF dropDummy, PlaceOK, Filled
  <2>3. [tables["Users"] EXCEPT !.rows = {row \in @ : row[1] # StartValue}] \in Table
    BY <2>2 DEF Table, Rows
  <2>4. tables' \in [TableNames -> Table \cup {Nil}]
    BY <1>15, <2>1, <2>3 DEF dropDummy
  <2> QED
    BY <1>15, <2>4 DEF dropDummy, TypeOK, PC
<1>16. CASE insertSU
  <2>1. tables \in [TableNames -> Table \cup {Nil}] /\ "Users" \in TableNames
    BY DEF TypeOK, TableNames
  <2>2. tables["Users"] \in Table /\ SuId \in Nat /\ SU \in Names
    BY <1>16, <2>1, ConstantsAssumption DEF insertSU, PlaceOK, Filled, Table, Names
  <2>3. Inserted(tables["Users"], SuId, SU) \in Table
    BY <2>2, Inserting
  <2>4. tables' \in [TableNames -> Table \cup {Nil}] /\ accounts' \in Rows
    BY <1>16, <2>1, <2>2, <2>3 DEF insertSU, TypeOK, Rows
  <2> QED
    BY <1>16, <2>4 DEF insertSU, TypeOK, PC
<1>17. CASE grantSU
  <2>1. tables \in [TableNames -> Table \cup {Nil}] /\ "Users" \in TableNames
    BY DEF TypeOK, TableNames
  <2>2. tables["Users"] \in Table
    BY <1>17, <2>1 DEF grantSU, PlaceOK, Filled
  <2>3. \A row \in named(SU) : row[1] \in Nat
    BY <2>2 DEF named, Table, Rows
  <2>4. userRoles \in SUBSET (Nat \X (OldRoles \cup NewRoles)) /\ "SuperAdmin" \in OldRoles
    BY <1>17 DEF grantSU, PlaceOK, TypeOK, Tabled, Named, Filled, OldRoles
  <2>5. userRoles' \in SUBSET (Nat \X (OldRoles \cup NewRoles))
    BY <1>17, <2>3, <2>4 DEF grantSU
  <2> QED
    BY <1>17, <2>5 DEF grantSU, TypeOK, PC
<1>18. ASSUME NEW n \in NewUsers, Register(n) PROVE TypeOK'
  <2>1. PICK t \in {"users", "Users"} :
          /\ tables[t] # Nil
          /\ tables' = [tables EXCEPT ![t] = Inserted(@, tables[t].seq + 1, n)]
          /\ accounts' = accounts \cup {<<tables[t].seq + 1, n>>}
    BY <1>18 DEF Register
  <2>2. tables[t] \in Table /\ t \in TableNames
    BY <2>1 DEF TypeOK, TableNames
  <2>3. tables[t].seq + 1 \in Nat /\ n \in Names
    BY <2>2 DEF Table, Names
  <2>4. Inserted(tables[t], tables[t].seq + 1, n) \in Table
    BY <2>2, <2>3, Inserting
  <2>5. tables' \in [TableNames -> Table \cup {Nil}] /\ accounts' \in Rows
    BY <2>1, <2>2, <2>3, <2>4 DEF TypeOK, Rows
  <2> QED
    BY <1>18, <2>5 DEF Register, TypeOK
<1>19. CASE Stop
  BY <1>19 DEF Stop, TypeOK, PC, Breaks
<1>20. CASE Start
  BY <1>20 DEF Start, TypeOK, PC, Breaks
<1>21. CASE UNCHANGED vars
  BY <1>21 DEF vars, TypeOK, PC, Breaks
<1> QED
  BY <1>1, <1>2, <1>3, <1>4, <1>5, <1>6, <1>7, <1>8, <1>9, <1>10,
     <1>11, <1>12, <1>13, <1>14, <1>15, <1>16, <1>17, <1>18, <1>19, <1>20, <1>21
     DEF Next, dbInitialize

\* A step leads where what the next one reads was found or created.
LEMMA PlaceStep == TypeOK /\ TypeOK' /\ PlaceOK /\ RowsOK /\ [Next]_vars => PlaceOK'
<1> SUFFICES ASSUME TypeOK, TypeOK', PlaceOK, RowsOK, [Next]_vars PROVE PlaceOK'
  OBVIOUS
<1> USE DEF at, goto
<1>1. CASE initRoles
  <2>1. {} # Missing /\ Made(0) = {}
    BY DEF Missing, Made
  <2>2. 0 \in 0 .. 4
    OBVIOUS
  <2> QED
    BY <1>1, <2>1, <2>2 DEF initRoles, Filled, Named, Tabled, Renamed, PlaceOK
<1>2. CASE insertRole
  <2>1. PICK k \in 0 .. 4 : roles = Made(k)
    BY <1>2 DEF insertRole, PlaceOK
  <2>2. /\ Cardinality(roles) = k /\ InitialRoles[k + 1] \in NewRoles
        /\ roles \subseteq NewRoles /\ Made(k + 1) = roles \cup {InitialRoles[k + 1]}
    BY <2>1, Making
  <2>3. roles' = Made(k + 1) /\ roles' # Missing
    BY <1>2, <2>2, RoleNames DEF insertRole
  <2>4. hidden # Missing /\ userRoles' = Missing
    BY <1>2 DEF insertRole, PlaceOK
  <2>5. hidden' # Missing
    BY <1>2, <2>2, <2>4, NilAssumption DEF insertRole, Missing
  <2>6. pc' = IF k = 4 THEN "initUserRoles" ELSE "createRoles"
    BY <1>2, <2>2 DEF insertRole
  <2>7. k # 4 => k + 1 \in 0 .. 4
    OBVIOUS
  <2> QED
    BY <2>3, <2>4, <2>5, <2>6, <2>7 DEF Filled, Named, Tabled, Renamed, PlaceOK
<1>3. CASE addHide
  BY <1>3 DEF addHide, Filled, Named, Tabled, Renamed, PlaceOK
<1>4. CASE setHide
  BY <1>4 DEF setHide, Filled, Named, Tabled, Renamed, PlaceOK
<1>5. CASE renameRoles
  <2>1. roles \in SUBSET (OldRoles \cup NewRoles)
    BY <1>5 DEF renameRoles, PlaceOK, TypeOK
  <2>2. {Readers(r) : r \in roles} \in SUBSET (OldRoles \cup NewRoles)
    BY <2>1, Renaming
  <2>3. roles' # Missing
    BY <1>5, <2>1, <2>2, RoleNames DEF renameRoles
  <2> QED
    BY <1>5, <2>3 DEF renameRoles, Filled, Named, Tabled, Renamed, PlaceOK
<1>6. CASE renameEditors
  <2>1. roles \in SUBSET (OldRoles \cup NewRoles)
    BY <1>6 DEF renameEditors, PlaceOK, TypeOK
  <2>2. {Editors(r) : r \in roles} \in SUBSET (OldRoles \cup NewRoles)
    BY <2>1, Renaming
  <2>3. roles' # Missing
    BY <1>6, <2>1, <2>2, RoleNames DEF renameEditors
  <2> QED
    BY <1>6, <2>3 DEF renameEditors, Filled, Named, Tabled, Renamed, PlaceOK
<1>7. CASE renameUserRoles
  <2>1. roles' # Missing /\ pc' # "createRoles" /\ pc' \notin Tabled
    BY <1>7 DEF renameUserRoles, PlaceOK, Filled, Named, Tabled
  <2>2. CASE userRoles = Missing \/ \A ur \in userRoles : ~isOld(ur[2])
    BY <1>7, <2>1, <2>2 DEF renameUserRoles, Filled, Named, Tabled, Renamed, PlaceOK
  <2>3. ASSUME userRoles # Missing, userRoles' = {<<ur[1], Readers(ur[2])>> : ur \in userRoles},
               pc' = "renameUserEditors"
        PROVE  PlaceOK'
    <3>1. \A ur \in userRoles : ur[1] \in Nat /\ ur[2] \in OldRoles \cup NewRoles
      BY <2>3 DEF TypeOK
    <3>2. userRoles' # Missing
      BY <2>3, <3>1, Renaming, RoleNames
    <3>3. \A ur \in userRoles' : ur[2] # "Createur"
      BY <2>3, <3>1, Renaming
    <3> QED
      BY <1>7, <2>1, <2>3, <3>2, <3>3 DEF renameUserRoles, Filled, Named, Tabled, Renamed, PlaceOK
  <2> QED
    BY <1>7, <2>2, <2>3 DEF renameUserRoles
<1>8. CASE renameUserEditors
  <2>1. roles' # Missing /\ pc' # "createRoles" /\ pc' \notin Tabled
    BY <1>8 DEF renameUserEditors, PlaceOK, Filled, Named, Tabled
  <2>3. ASSUME userRoles # Missing, userRoles' = {<<ur[1], Editors(ur[2])>> : ur \in userRoles}
        PROVE  PlaceOK'
    <3>1. \A ur \in userRoles : ur[1] \in Nat /\ ur[2] \in OldRoles \cup NewRoles
      BY <2>3 DEF TypeOK
    <3>2. \A ur \in userRoles : ur[2] # "Createur"
      BY <1>8 DEF renameUserEditors, PlaceOK
    <3>3. \A ur \in userRoles' : ~isOld(ur[2])
      BY <2>3, <3>1, <3>2, Renaming
    <3> QED
      BY <1>8, <2>1, <2>3, <3>3 DEF renameUserEditors, Filled, Named, Tabled, Renamed, PlaceOK
  <2> QED
    BY <1>8, <2>3 DEF renameUserEditors, PlaceOK
<1>9. CASE initUserRoles
  <2>1. {} # Missing
    BY DEF Missing
  <2> QED
    BY <1>9, <2>1 DEF initUserRoles, Filled, Named, Tabled, Renamed, PlaceOK
<1>10. CASE renameUsers
  BY <1>10 DEF renameUsers, nextTable, Filled, Named, Tabled, Renamed, PlaceOK
<1>11. CASE renameTemp
  BY <1>11 DEF renameTemp, nextTable, Filled, Named, Tabled, Renamed, PlaceOK
<1>12. CASE initUsers
  <2>1. EmptyTable # Nil
    BY RoleNames DEF EmptyTable, Table, Rows
  <2>2. tables'["Users"] # Nil
    BY <1>12, <2>1 DEF initUsers, TypeOK, TableNames
  <2> QED
    BY <1>12, <2>2 DEF initUsers, Filled, Named, Tabled, Renamed, PlaceOK
<1>13. CASE findDummy \/ findSU
  BY <1>13 DEF findDummy, findSU, Filled, Named, Tabled, Renamed, PlaceOK
<1>14. CASE insertDummy
  <2>1. tables["Users"] # Nil
    BY <1>14 DEF insertDummy, PlaceOK, Filled
  <2>2. tables'["Users"] # Nil
    BY <1>14, <2>1, Dummies, RoleNames DEF Keeps
  <2> QED
    BY <1>14, <2>2 DEF insertDummy, Filled, Named, Tabled, Renamed, PlaceOK
<1>15. CASE dropDummy
  <2>1. tables'["Users"] # Nil
    BY <1>15, Dummies, RoleNames DEF Keeps
  <2> QED
    BY <1>15, <2>1 DEF dropDummy, Filled, Named, Tabled, Renamed, PlaceOK
<1>16. CASE insertSU
  <2>1. tables'["Users"] # Nil /\ pc' \in {"failed", "grantSU"}
    BY <1>16, Enrolling, RoleNames DEF Enrols
  <2> QED
    BY <1>16, <2>1 DEF insertSU, Filled, Named, Tabled, Renamed, PlaceOK
<1>17. CASE grantSU
  <2>1. userRoles # Missing /\ \A ur \in userRoles : ~isOld(ur[2])
    BY <1>17 DEF grantSU, Filled, Named, Tabled, Renamed, PlaceOK
  <2>2. userRoles' = userRoles \cup {<<row[1], "SuperAdmin">> : row \in named(SU)}
    BY <1>17 DEF grantSU
  <2>3. \A ur \in userRoles' : ~isOld(ur[2])
    BY <2>1, <2>2 DEF isOld
  <2>4. userRoles' # Missing
    <3>1. \A row \in named(SU) : row[1] \in Nat
      BY <1>17, RowParts DEF grantSU, named, TableNames, PlaceOK, Filled
    <3>2. userRoles \in SUBSET (Nat \X (OldRoles \cup NewRoles)) /\ "SuperAdmin" \in OldRoles
      BY <2>1 DEF TypeOK, OldRoles
    <3>3. userRoles' \in SUBSET (Nat \X (OldRoles \cup NewRoles))
      BY <2>2, <3>1, <3>2
    <3> QED
      BY <3>3, RoleNames
  <2> QED
    BY <1>17, <2>3, <2>4 DEF grantSU, Filled, Named, Tabled, Renamed, PlaceOK
<1>18. ASSUME NEW n \in NewUsers, Register(n) PROVE PlaceOK'
  <2>1. tables["Users"] # Nil => tables'["Users"] # Nil
    BY <1>18, Registering, RoleNames DEF Enrols, TableNames
  <2> QED
    BY <1>18, <2>1 DEF Register, Filled, Named, Tabled, Renamed, PlaceOK
<1>19. CASE Stop
  BY <1>19 DEF Stop, Filled, Named, Tabled, Renamed, PlaceOK
<1>20. CASE Start
  BY <1>20 DEF Start, Filled, Named, Tabled, Renamed, PlaceOK
<1>21. CASE UNCHANGED vars
  BY <1>21 DEF vars, Filled, Named, Tabled, Renamed, PlaceOK
<1> QED
  BY <1>1, <1>2, <1>3, <1>4, <1>5, <1>6, <1>7, <1>8, <1>9, <1>10,
     <1>11, <1>12, <1>13, <1>14, <1>15, <1>16, <1>17, <1>18, <1>19, <1>20, <1>21
     DEF Next, dbInitialize

\* A row with keys of its own leaves the others as they are.
LEMMA EnrolsRows ==
    ASSUME TypeOK, RowsOK, NEW t \in TableNames, tables[t] # Nil, NEW id \in Nat, NEW n \in Names,
           Enrols(t, id, n), n = Dummy => Dummy \in registered'
    PROVE  /\ \A u \in TableNames : tables'[u] # Nil =>
                 /\ \A row \in tables'[u].rows : row[1] <= tables'[u].seq
                 /\ tables'[u].rows \subseteq accounts' \cup {<<StartValue, Dummy>>}
                 /\ \A a, b \in tables'[u].rows : a[1] = b[1] \/ a[2] = b[2] => a = b
           /\ \A u \in TableNames : tables[u] # Nil =>
                 /\ tables'[u] # Nil /\ tables[u].seq <= tables'[u].seq
                 /\ \A row \in tables'[u].rows :
                       row \in tables[u].rows \/ (row = <<id, n>> /\ row[1] = id /\ row[2] = n)
           /\ \A a \in accounts' : a \in accounts \/ (a = <<id, n>> /\ a[1] = id /\ a[2] = n)
           /\ accounts \subseteq accounts' /\ <<id, n>> \in accounts' /\ <<id, n>>[2] = n
<1>1. /\ tables[t].seq \in Nat /\ tables'[t].seq \in Nat /\ tables'[t] # Nil
      /\ \A row \in tables[t].rows : row[1] # id /\ row[2] # n
      /\ tables'[t].rows = tables[t].rows \cup {<<id, n>>}
      /\ id <= tables'[t].seq /\ tables[t].seq <= tables'[t].seq
      /\ \A u \in TableNames \ {t} : tables'[u] = tables[u]
      /\ accounts' = accounts \cup {<<id, n>>}
  BY RoleNames DEF Enrols, Table
<1>2. <<id, n>>[1] = id /\ <<id, n>>[2] = n
  OBVIOUS
<1>3. \A row \in tables[t].rows : row[1] \in Nat /\ row[1] <= tables[t].seq
  BY RowParts DEF RowsOK
<1>4. \A row \in tables'[t].rows : row[1] <= tables'[t].seq
  BY <1>1, <1>2, <1>3
<1>5. tables'[t].rows \subseteq accounts' \cup {<<StartValue, Dummy>>}
  BY <1>1 DEF RowsOK
<1>6. \A a, b \in tables[t].rows : a[1] = b[1] \/ a[2] = b[2] => a = b
  BY DEF RowsOK
<1>7. \A a, b \in tables'[t].rows : a[1] = b[1] \/ a[2] = b[2] => a = b
  BY <1>1, <1>2, <1>6
<1>8. ASSUME NEW u \in TableNames, u # t, tables'[u] # Nil
      PROVE  /\ \A row \in tables'[u].rows : row[1] <= tables'[u].seq
             /\ tables'[u].rows \subseteq accounts' \cup {<<StartValue, Dummy>>}
             /\ \A a, b \in tables'[u].rows : a[1] = b[1] \/ a[2] = b[2] => a = b
  BY <1>1, <1>8 DEF RowsOK
<1>9. ASSUME NEW u \in TableNames, tables[u] # Nil
      PROVE  /\ tables'[u] # Nil /\ tables[u].seq <= tables'[u].seq
             /\ \A row \in tables'[u].rows : row \in tables[u].rows \/ row = <<id, n>>
  <2>1. tables[u].seq \in Nat
    BY <1>9, RowParts
  <2> QED
    BY <1>1, <1>9, <2>1
<1> QED
  BY <1>1, <1>2, <1>4, <1>5, <1>7, <1>8, <1>9

\* A step keeps the rows: what is inserted is known, with an identifier that seq covers.
LEMMA RowsStep == TypeOK /\ TypeOK' /\ PlaceOK /\ RowsOK /\ [Next]_vars => RowsOK'
<1> SUFFICES ASSUME TypeOK, TypeOK', PlaceOK, RowsOK, [Next]_vars PROVE RowsOK'
  OBVIOUS
<1> USE DEF at, goto
<1>1. CASE initRoles
  BY <1>1 DEF initRoles, RowsOK
<1>2. CASE insertRole
  BY <1>2 DEF insertRole, RowsOK
<1>3. CASE addHide
  BY <1>3 DEF addHide, RowsOK
<1>4. CASE setHide
  BY <1>4 DEF setHide, RowsOK
<1>5. CASE renameRoles
  BY <1>5 DEF renameRoles, RowsOK
<1>6. CASE renameEditors
  BY <1>6 DEF renameEditors, RowsOK
<1>7. CASE renameUserRoles
  BY <1>7 DEF renameUserRoles, RowsOK
<1>8. CASE renameUserEditors
  BY <1>8 DEF renameUserEditors, RowsOK
<1>9. CASE initUserRoles
  BY <1>9 DEF initUserRoles, RowsOK
<1>10. CASE renameUsers
  <2>1. CASE tables[old] = Nil
    BY <1>10, <2>1 DEF renameUsers, nextTable, RowsOK
  <2>2. ASSUME Moves(old, tempName(old)), accounts' = accounts, registered' = registered,
               pc' \notin {"dropDummy", "findSU", "insertSU", "grantSU", "ready"}
        PROVE  RowsOK'
    BY <2>2 DEF Moves, RowsOK
  <2> QED
    BY <1>10, <2>1, <2>2, Moving DEF renameUsers
<1>11. CASE renameTemp
  <2>2. ASSUME Moves(tempName(old), "Users"), accounts' = accounts, registered' = registered,
               pc' \notin {"dropDummy", "findSU", "insertSU", "grantSU", "ready"}
        PROVE  RowsOK'
    BY <2>2 DEF Moves, RowsOK
  <2> QED
    BY <1>11, <2>2, Moving DEF renameTemp, nextTable
<1>12. CASE initUsers
  <2>1. "Users" \in TableNames /\ tables \in [TableNames -> Table \cup {Nil}]
    BY DEF TypeOK, TableNames
  <2>2. /\ \A t \in TableNames : tables'[t] = tables[t] \/ tables'[t] = EmptyTable
        /\ accounts' = accounts /\ registered' = registered /\ pc' = "findDummy"
    BY <1>12, <2>1 DEF initUsers
  <2>3. EmptyTable.rows = {}
    BY DEF EmptyTable
  <2> QED
    BY <2>2, <2>3 DEF RowsOK
<1>13. CASE findDummy
  <2>1. "Users" \in TableNames /\ tables["Users"] # Nil
    BY <1>13 DEF findDummy, PlaceOK, Filled, TableNames
  <2>2. ASSUME pc' = "dropDummy"
        PROVE  /\ StartValue <= tables["Users"].seq
               /\ \A row \in tables["Users"].rows : row[1] = StartValue => row[2] = Dummy
    <3>1. {row \in tables["Users"].rows : row[1] = StartValue} = {<<StartValue, Dummy>>}
      BY <1>13, <2>2 DEF findDummy
    <3>2. <<StartValue, Dummy>> \in tables["Users"].rows
      BY <3>1
    <3>3. StartValue <= tables["Users"].seq
      BY <2>1, <3>2 DEF RowsOK
    <3>4. ASSUME NEW row \in tables["Users"].rows, row[1] = StartValue PROVE row[2] = Dummy
      BY <3>1, <3>4
    <3> QED
      BY <3>3, <3>4
  <2>3. ASSUME pc' = "findSU", NEW row \in tables["Users"].rows, row[2] = Dummy
        PROVE  Dummy \in registered
    <3>1. row = <<StartValue, Dummy>> \/ row \in accounts
      BY <2>1 DEF RowsOK
    <3>2. ASSUME row = <<StartValue, Dummy>> PROVE FALSE
      <4>1. row[1] = StartValue /\ \A r \in tables["Users"].rows : r[1] = row[1] => r = row
        BY <2>1, <3>2 DEF RowsOK
      <4>2. {r \in tables["Users"].rows : r[1] = StartValue} = {<<StartValue, Dummy>>}
        BY <3>2, <4>1
      <4> QED
        BY <1>13, <2>3, <4>2 DEF findDummy
    <3> QED
      BY <2>3, <3>1, <3>2 DEF RowsOK
  <2>4. /\ tables' = tables /\ accounts' = accounts /\ registered' = registered
        /\ pc' \in {"insertDummy", "dropDummy", "findSU"}
    BY <1>13 DEF findDummy
  <2> QED
    BY <2>2, <2>3, <2>4 DEF RowsOK
<1>14. CASE insertDummy
  <2>1. "Users" \in TableNames /\ tables["Users"] # Nil /\ accounts' = accounts
        /\ registered' = registered
    BY <1>14 DEF insertDummy, PlaceOK, Filled, TableNames
  <2>2. CASE pc' = "failed"
    BY <1>14, <2>1, <2>2, Dummies DEF RowsOK
  <2>3. CASE pc' # "failed"
    <3>1. /\ Keeps(tables["Users"].rows \cup {<<StartValue, Dummy>>}, StartValue)
          /\ \A row \in tables["Users"].rows : row[1] # StartValue /\ row[2] # Dummy
          /\ pc' = "dropDummy"
      BY <1>14, <2>3, Dummies
    <3>2. /\ StartValue <= tables'["Users"].seq /\ tables["Users"].seq <= tables'["Users"].seq
          /\ tables'["Users"].rows = tables["Users"].rows \cup {<<StartValue, Dummy>>}
          /\ \A t \in TableNames \ {"Users"} : tables'[t] = tables[t]
      BY <3>1 DEF Keeps
    <3>3. tables["Users"].seq \in Nat /\ tables'["Users"].seq \in Nat
      BY <2>1, <3>1 DEF Keeps, Table
    <3>4. \A row \in tables'["Users"].rows : row[1] <= tables'["Users"].seq
      <4>1. \A row \in tables["Users"].rows : row[1] \in Nat /\ row[1] <= tables["Users"].seq
        BY <2>1, RowParts DEF RowsOK
      <4> QED
        BY <3>2, <3>3, <4>1
    <3>5. \A row \in tables'["Users"].rows : row[1] = StartValue => row[2] = Dummy
      BY <3>1, <3>2
    <3>6. \A a, b \in tables["Users"].rows : a[1] = b[1] \/ a[2] = b[2] => a = b
      BY <2>1 DEF RowsOK
    <3>7. \A a, b \in tables'["Users"].rows : a[1] = b[1] \/ a[2] = b[2] => a = b
      BY <3>1, <3>2, <3>6
    <3> QED
      BY <2>1, <3>1, <3>2, <3>4, <3>5, <3>7 DEF RowsOK
  <2> QED
    BY <2>2, <2>3
<1>15. CASE dropDummy
  <2>1. /\ "Users" \in TableNames /\ tables["Users"] # Nil /\ accounts' = accounts
        /\ registered' = registered /\ pc' = "findSU"
    BY <1>15 DEF dropDummy, PlaceOK, Filled, TableNames
  <2>2. /\ tables["Users"].seq <= tables'["Users"].seq
        /\ tables'["Users"].rows = {row \in tables["Users"].rows : row[1] # StartValue}
        /\ \A t \in TableNames \ {"Users"} : tables'[t] = tables[t]
        /\ tables["Users"].seq \in Nat /\ tables'["Users"].seq \in Nat
    BY <1>15, Dummies DEF Keeps, Table
  <2>3. \A row \in tables["Users"].rows : row[1] \in Nat /\ row[1] <= tables["Users"].seq
    BY <2>1, RowParts DEF RowsOK
  <2>4. \A row \in tables'["Users"].rows : row[1] <= tables'["Users"].seq
    BY <2>2, <2>3
  <2>5. ASSUME NEW row \in tables'["Users"].rows, row[2] = Dummy PROVE Dummy \in registered
    <3>1. row \in tables["Users"].rows /\ row[1] # StartValue
      BY <2>2
    <3>2. row \in accounts
      BY <2>1, <3>1 DEF RowsOK
    <3> QED
      BY <2>5, <3>2 DEF RowsOK
  <2> QED
    BY <2>1, <2>2, <2>4, <2>5 DEF RowsOK
<1>16. CASE insertSU
  <2>1. CASE pc' = "failed"
    BY <1>16, <2>1, Enrolling DEF RowsOK
  <2>2. CASE pc' # "failed"
    <3>1. /\ Enrols("Users", SuId, SU) /\ pc' = "grantSU" /\ pc = "insertSU" /\ tables["Users"] # Nil
          /\ "Users" \in TableNames /\ SuId \in Nat /\ SU \in Names /\ SU # Dummy
          /\ registered' = registered
      BY <1>16, <2>2, Enrolling, ConstantsAssumption DEF TableNames
    <3>2. /\ \A u \in TableNames : tables'[u] # Nil =>
                /\ \A row \in tables'[u].rows : row[1] <= tables'[u].seq
                /\ tables'[u].rows \subseteq accounts' \cup {<<StartValue, Dummy>>}
                /\ \A a, b \in tables'[u].rows : a[1] = b[1] \/ a[2] = b[2] => a = b
          /\ \A u \in TableNames : tables[u] # Nil =>
                /\ tables'[u] # Nil /\ tables[u].seq <= tables'[u].seq
                /\ \A row \in tables'[u].rows :
                      row \in tables[u].rows \/ (row = <<SuId, SU>> /\ row[1] = SuId /\ row[2] = SU)
          /\ \A a \in accounts' :
                a \in accounts \/ (a = <<SuId, SU>> /\ a[1] = SuId /\ a[2] = SU)
          /\ accounts \subseteq accounts' /\ <<SuId, SU>> \in accounts' /\ <<SuId, SU>>[2] = SU
      BY <3>1, EnrolsRows
    <3>3. \A row \in tables'["Users"].rows : row[2] = Dummy => Dummy \in registered
      BY <3>1, <3>2 DEF RowsOK
    <3>4. /\ \A m \in registered : \E a \in accounts' : a[2] = m
          /\ \A a \in accounts' : a[2] = Dummy => Dummy \in registered
      BY <3>1, <3>2 DEF RowsOK
    <3> QED
      BY <3>1, <3>2, <3>3, <3>4 DEF RowsOK
  <2> QED
    BY <2>1, <2>2
<1>17. CASE findSU \/ grantSU
  BY <1>17 DEF findSU, grantSU, RowsOK
<1>18. ASSUME NEW n \in NewUsers, Register(n) PROVE RowsOK'
  <2>1. PICK t \in {"users", "Users"}, id \in Nat :
          tables[t] # Nil /\ tables[t].seq < id /\ Enrols(t, id, n)
    BY <1>18, Registering
  <2>2. t \in TableNames /\ n \in Names /\ registered' = registered \cup {n} /\ pc' = pc
    BY <1>18, Registering DEF TableNames
  <2>3. /\ \A u \in TableNames : tables'[u] # Nil =>
              /\ \A row \in tables'[u].rows : row[1] <= tables'[u].seq
              /\ tables'[u].rows \subseteq accounts' \cup {<<StartValue, Dummy>>}
              /\ \A a, b \in tables'[u].rows : a[1] = b[1] \/ a[2] = b[2] => a = b
        /\ \A u \in TableNames : tables[u] # Nil =>
              /\ tables'[u] # Nil /\ tables[u].seq <= tables'[u].seq
              /\ \A row \in tables'[u].rows :
                    row \in tables[u].rows \/ (row = <<id, n>> /\ row[1] = id /\ row[2] = n)
        /\ \A a \in accounts' : a \in accounts \/ (a = <<id, n>> /\ a[1] = id /\ a[2] = n)
        /\ accounts \subseteq accounts' /\ <<id, n>> \in accounts' /\ <<id, n>>[2] = n
    BY <2>1, <2>2, EnrolsRows
  <2>4. \A m \in registered' : \E a \in accounts' : a[2] = m
    BY <2>2, <2>3 DEF RowsOK
  <2>5. \A a \in accounts' : a[2] = Dummy => Dummy \in registered'
    BY <2>2, <2>3 DEF RowsOK
  <2>6. ASSUME pc = "dropDummy"
        PROVE  /\ StartValue <= tables'["Users"].seq
               /\ \A row \in tables'["Users"].rows : row[1] = StartValue => row[2] = Dummy
    <3>1. "Users" \in TableNames /\ tables["Users"] # Nil /\ StartValue \in Nat
      BY <2>6, ConstantsAssumption DEF PlaceOK, Filled, TableNames
    <3>2. /\ StartValue <= tables["Users"].seq /\ tables["Users"].seq \in Nat
          /\ \A row \in tables["Users"].rows : row[1] = StartValue => row[2] = Dummy
      BY <2>6, <3>1, RowParts DEF RowsOK
    <3>3. tables'["Users"].seq \in Nat /\ tables["Users"].seq <= tables'["Users"].seq
      BY <2>3, <3>1 DEF TypeOK, Table
    <3>4. CASE t = "Users"
      BY <2>1, <2>3, <3>1, <3>2, <3>3, <3>4
    <3>5. CASE t # "Users"
      BY <2>1, <3>1, <3>2, <3>5 DEF Enrols
    <3> QED
      BY <3>4, <3>5
  <2>7. ASSUME pc \in {"findSU", "insertSU", "grantSU", "ready"}, NEW row \in tables'["Users"].rows,
               row[2] = Dummy
        PROVE  Dummy \in registered'
    <3>1. "Users" \in TableNames /\ tables["Users"] # Nil
      BY <2>7 DEF PlaceOK, Filled, TableNames
    <3>2. row \in tables["Users"].rows \/ row[2] = n
      BY <2>3, <3>1
    <3> QED
      BY <2>2, <2>7, <3>2 DEF RowsOK
  <2> QED
    BY <2>2, <2>3, <2>4, <2>5, <2>6, <2>7 DEF RowsOK
<1>19. CASE Stop
  BY <1>19 DEF Stop, RowsOK
<1>20. CASE Start
  BY <1>20 DEF Start, RowsOK
<1>21. CASE UNCHANGED vars
  BY <1>21 DEF vars, RowsOK
<1> QED
  BY <1>1, <1>2, <1>3, <1>4, <1>5, <1>6, <1>7, <1>8, <1>9, <1>10,
     <1>11, <1>12, <1>13, <1>14, <1>15, <1>16, <1>17, <1>18, <1>19, <1>20, <1>21
     DEF Next, dbInitialize

\* A step keeps the accounts together: a table is renamed whole, and a name is given once.
LEMMA HomeStep ==
    TypeOK /\ TypeOK' /\ PlaceOK /\ RowsOK /\ HomeOK /\ SuperOK /\ [Next]_vars => HomeOK'
<1> SUFFICES ASSUME TypeOK, TypeOK', PlaceOK, RowsOK, HomeOK, SuperOK, [Next]_vars PROVE HomeOK'
  OBVIOUS
<1> USE DEF at, goto
<1>1. CASE initRoles
  BY <1>1 DEF initRoles, HomeOK, Home, NoHome, Lasting, NoTempLost, Named, Filled
<1>2. CASE insertRole
  BY <1>2 DEF insertRole, HomeOK, Home, NoHome, Lasting, NoTempLost, Named, Filled
<1>3. CASE addHide
  BY <1>3 DEF addHide, HomeOK, Home, NoHome, Lasting, NoTempLost, Named, Filled
<1>4. CASE setHide
  BY <1>4 DEF setHide, HomeOK, Home, NoHome, Lasting, NoTempLost, Named, Filled
<1>5. CASE renameRoles
  BY <1>5 DEF renameRoles, HomeOK, Home, NoHome, Lasting, NoTempLost, Named, Filled
<1>6. CASE renameEditors
  BY <1>6 DEF renameEditors, HomeOK, Home, NoHome, Lasting, NoTempLost, Named, Filled
<1>7. CASE renameUserRoles
  BY <1>7 DEF renameUserRoles, HomeOK, Home, NoHome, Lasting, NoTempLost, Named, Filled
<1>8. CASE renameUserEditors
  <2>1. userRoles # Missing /\ userRoles' = {<<ur[1], Editors(ur[2])>> : ur \in userRoles}
    BY <1>8 DEF renameUserEditors, PlaceOK
  <2>2. \A ur \in userRoles' : \E vr \in userRoles : vr[1] = ur[1]
    BY <2>1
  <2> QED
    BY <1>8, <2>1, <2>2 DEF renameUserEditors, HomeOK, Home, NoHome, Lasting, NoTempLost, Named, Filled
<1>9. CASE initUserRoles
  BY <1>9 DEF initUserRoles, HomeOK, Home, NoHome, Lasting, NoTempLost, Named, Filled
<1>10. CASE renameUsers
  <2>1. /\ old \in {"x", "users"} /\ {"x", "users", "Users", "xxx", "xusersx"} = TableNames
        /\ accounts' = accounts /\ userRoles' = userRoles /\ stops' = stops
        /\ registered' = registered /\ Lasting' = Lasting
    BY <1>10 DEF TypeOK, TableNames, renameUsers, Lasting
  <2>2. SUFFICES ASSUME NoTempLost PROVE HomeOK'
    BY <2>1 DEF HomeOK, NoTempLost
  <2>3. /\ NoHome \/ Home("x") \/ Home("users") \/ Home("Users")
        /\ old = "users" => ~Home("x")
    BY <1>10, <2>2 DEF renameUsers, HomeOK
  <2>4. CASE tables[old] = Nil
    <3>1. tables' = tables /\ ~Home(old)
      BY <1>10, <2>4, Moving DEF Home
    <3>2. (pc' = "renameUsers" /\ old = "x") \/ (pc' = "initUsers" /\ old = "users")
      BY <1>10, <2>1, <2>4 DEF renameUsers, nextTable
    <3> QED
      BY <2>1, <2>2, <2>3, <3>1, <3>2 DEF HomeOK, Home, NoHome, Lasting, NoTempLost, Named, Filled
  <2>5. CASE tables[old] # Nil
    <3>1. Home(old)
      BY <2>1, <2>3, <2>5 DEF Home, NoHome
    <3>2. Moves(old, tempName(old)) /\ pc' = "renameTemp" /\ old' = old
      BY <1>10, <2>5, Moving
    <3>3. Home(tempName(old))'
      BY <2>1, <3>1, <3>2 DEF Home, Moves
    <3> QED
      BY <2>1, <2>2, <3>2, <3>3 DEF HomeOK, NoTempLost, Named, Filled
  <2> QED
    BY <2>4, <2>5
<1>11. CASE renameTemp
  <2>1. /\ "x" \in TableNames /\ "Users" \in TableNames
        /\ accounts' = accounts /\ userRoles' = userRoles /\ stops' = stops
        /\ registered' = registered /\ Lasting' = Lasting
        /\ pc' \in {"renameUsers", "initUsers"}
    BY <1>11 DEF TableNames, renameTemp, nextTable, Lasting
  <2>2. SUFFICES ASSUME NoTempLost PROVE HomeOK'
    BY <2>1 DEF HomeOK, NoTempLost
  <2>3. Home(tempName(old)) /\ Moves(tempName(old), "Users")
    BY <1>11, <2>2, Moving DEF renameTemp, HomeOK
  <2>4. Home("Users")' /\ ~Home("x")'
    BY <2>1, <2>3 DEF Home, Moves
  <2> QED
    BY <2>1, <2>2, <2>4 DEF HomeOK, NoTempLost, Named, Filled
<1>12. CASE initUsers
  BY <1>12 DEF initUsers, HomeOK, Home, NoHome, Lasting, NoTempLost, Named, Filled
<1>13. CASE findDummy \/ findSU
  BY <1>13 DEF findDummy, findSU, HomeOK, Home, NoHome, Lasting, NoTempLost, Named, Filled
<1>14. CASE insertDummy
  <2>1. /\ "x" \in TableNames /\ "users" \in TableNames /\ "Users" \in TableNames
        /\ tables["Users"] # Nil /\ stops' = stops /\ pc \in Named /\ pc # "renameTemp"
    BY <1>14 DEF insertDummy, TableNames, PlaceOK, Filled, Named
  <2>2. SUFFICES ASSUME NoTempLost PROVE HomeOK'
    BY <2>1 DEF HomeOK, NoTempLost
  <2>3. Home("Users")
    BY <2>1, <2>2 DEF HomeOK, NoHome
  <2>4. /\ Home("Users")' /\ Lasting' = Lasting /\ userRoles' = userRoles
        /\ registered' = registered
    <3>1. Lasting' = Lasting /\ userRoles' = userRoles /\ registered' = registered
      BY <1>14 DEF insertDummy, Lasting
    <3>2. CASE pc' = "failed"
      BY <1>14, <2>3, <3>1, <3>2, Dummies DEF Home
    <3>3. CASE pc' # "failed"
      BY <1>14, <2>3, <3>1, <3>3, Dummies, RoleNames DEF Home, Keeps
    <3> QED
      BY <3>1, <3>2, <3>3
  <2>5. pc' \in {"failed", "dropDummy"}
    BY <1>14 DEF insertDummy
  <2> QED
    BY <2>1, <2>2, <2>4, <2>5 DEF HomeOK, NoTempLost, Named, Filled
<1>15. CASE dropDummy
  <2>1. /\ "x" \in TableNames /\ "users" \in TableNames /\ "Users" \in TableNames
        /\ tables["Users"] # Nil /\ stops' = stops /\ pc \in Named /\ pc # "renameTemp"
    BY <1>15 DEF dropDummy, TableNames, PlaceOK, Filled, Named
  <2>2. SUFFICES ASSUME NoTempLost PROVE HomeOK'
    BY <2>1 DEF HomeOK, NoTempLost
  <2>3. Home("Users")
    BY <2>1, <2>2 DEF HomeOK, NoHome
  <2>4. /\ Lasting' = Lasting /\ userRoles' = userRoles /\ registered' = registered
        /\ pc' = "findSU"
    BY <1>15 DEF dropDummy, Lasting
  <2>5. ASSUME NEW row \in Lasting, row[1] = StartValue PROVE FALSE
    <3>1. row[2] = Dummy
      BY <1>15, <2>3, <2>5 DEF dropDummy, RowsOK, Home
    <3>2. row = <<StartValue, Dummy>>
      BY <2>5, <3>1, RowParts DEF Lasting
    <3> QED
      BY <3>2 DEF Lasting
  <2>6. Home("Users")'
    BY <1>15, <2>3, <2>4, <2>5, Dummies, RoleNames DEF Home, Keeps
  <2> QED
    BY <2>1, <2>2, <2>4, <2>6 DEF HomeOK, NoTempLost, Named, Filled
<1>16. CASE insertSU
  <2>1. /\ "Users" \in TableNames /\ tables["Users"] # Nil /\ stops' = stops /\ pc = "insertSU"
        /\ pc \in Named /\ userRoles' = userRoles /\ registered' = registered
    BY <1>16, Enrolling DEF TableNames, Filled, Named
  <2>2. SUFFICES ASSUME NoTempLost PROVE HomeOK'
    BY <2>1 DEF HomeOK, NoTempLost
  <2>3. Home("Users")
    BY <2>1, <2>2 DEF HomeOK, NoHome
  <2>5. CASE pc' = "failed"
    BY <1>16, <2>1, <2>2, <2>3, <2>5, Enrolling DEF HomeOK, Home, Lasting, NoTempLost, Named, Filled
  <2>6. CASE pc' # "failed"
    <3>1. /\ tables'["Users"] # Nil /\ pc' = "grantSU" /\ SU # Dummy
          /\ \A row \in tables["Users"].rows : row[2] # SU
          /\ tables'["Users"].rows = tables["Users"].rows \cup {<<SuId, SU>>}
          /\ \A u \in TableNames \ {"Users"} : tables'[u] = tables[u]
          /\ accounts' = accounts \cup {<<SuId, SU>>}
      BY <1>16, <2>6, Enrolling, RoleNames, ConstantsAssumption DEF Enrols
    <3>2. Home("Users")' /\ Lasting \subseteq Lasting'
      BY <2>3, <3>1 DEF Home, Lasting
    <3>3. SU \notin registered
      <4> SUFFICES ASSUME SU \in registered PROVE FALSE
        OBVIOUS
      <4>1. PICK a \in accounts : a[2] = SU
        BY DEF RowsOK
      <4>2. a \in Lasting
        BY <3>1, <4>1 DEF Lasting
      <4> QED
        BY <2>3, <3>1, <4>1, <4>2 DEF Home
    <3>4. userRoles = Missing
          \/ \A ur \in userRoles : \E a \in Lasting : a[1] = ur[1] /\ a[2] \notin registered
      BY <2>2 DEF HomeOK
    <3> QED
      BY <2>1, <3>1, <3>2, <3>3, <3>4 DEF HomeOK, Named, Filled
  <2> QED
    BY <2>5, <2>6
<1>17. CASE grantSU
  <2>1. /\ "x" \in TableNames /\ "users" \in TableNames /\ "Users" \in TableNames
        /\ tables["Users"] # Nil /\ stops' = stops /\ pc \in Named /\ pc # "renameTemp"
    BY <1>17 DEF grantSU, TableNames, PlaceOK, Filled, Named
  <2>2. SUFFICES ASSUME NoTempLost PROVE HomeOK'
    BY <2>1 DEF HomeOK, NoTempLost
  <2>3. Home("Users")
    BY <2>1, <2>2 DEF HomeOK, NoHome
  <2>4. /\ tables' = tables /\ Lasting' = Lasting /\ pc' = "ready" /\ registered' = registered
        /\ userRoles' = userRoles \cup {<<row[1], "SuperAdmin">> : row \in named(SU)}
        /\ userRoles # Missing
    BY <1>17 DEF grantSU, PlaceOK, Tabled, Named, Filled, Lasting
  <2>5. Home("Users")'
    BY <2>3, <2>4 DEF Home
  <2>6. ASSUME NEW row \in named(SU) PROVE row \in Lasting /\ row[2] \notin registered
    <3>1. row \in tables["Users"].rows /\ row[2] = SU /\ SU # Dummy /\ SU \notin registered
      BY <1>17, <2>2, ConstantsAssumption DEF named, grantSU, HomeOK
    <3>2. row \in accounts \cup {<<StartValue, Dummy>>}
      BY <2>1, <3>1 DEF RowsOK
    <3> QED
      BY <3>1, <3>2 DEF Lasting
  <2>7. \A ur \in userRoles' : \E a \in Lasting : a[1] = ur[1] /\ a[2] \notin registered
    BY <2>2, <2>4, <2>6 DEF HomeOK
  <2> QED
    BY <2>4, <2>5, <2>7 DEF HomeOK
<1>18. ASSUME NEW n \in NewUsers, Register(n) PROVE HomeOK'
  <2>1. /\ "x" \in TableNames /\ "users" \in TableNames /\ "Users" \in TableNames
        /\ tempName(old) \in TableNames /\ tempName(old) \notin {"users", "Users"}
        /\ stops' = stops /\ pc' = pc /\ old' = old /\ userRoles' = userRoles
        /\ registered' = registered \cup {n}
    BY <1>18, Registering DEF TableNames, tempName
  <2>2. SUFFICES ASSUME NoTempLost PROVE HomeOK'
    BY <2>1 DEF HomeOK, NoTempLost
  <2>3. PICK t \in {"users", "Users"}, id \in Nat :
          Enrols(t, id, n) /\ Home(t) /\ pc # "renameTemp"
    <3>1. PICK t \in {"users", "Users"}, id \in Nat : Enrols(t, id, n) /\ tables[t] # Nil
      BY <1>18, Registering
    <3>2. pc # "renameTemp"
      BY <2>1, <2>2, <3>1 DEF HomeOK, Home
    <3>3. NoHome \/ Home("x") \/ Home("users") \/ Home("Users")
      BY <2>2, <3>2 DEF HomeOK
    <3> QED
      BY <2>1, <3>1, <3>2, <3>3 DEF Home, NoHome
  <2>4. /\ t \in TableNames /\ tables[t] # Nil /\ tables'[t] # Nil
        /\ \A row \in tables[t].rows : row[2] # n
        /\ tables'[t].rows = tables[t].rows \cup {<<id, n>>}
        /\ \A u \in TableNames \ {t} : tables'[u] = tables[u]
        /\ accounts' = accounts \cup {<<id, n>>}
    BY <2>3, RoleNames DEF Enrols
  <2>5. Home(t)' /\ Lasting \subseteq Lasting'
    BY <2>3, <2>4 DEF Home, Lasting
  <2>6. userRoles = Missing
        \/ \A ur \in userRoles : \E a \in Lasting : a[1] = ur[1] /\ a[2] \notin registered
    BY <2>2 DEF HomeOK
  <2>7. \A a \in Lasting : a[2] # n
    BY <2>3, <2>4 DEF Home
  <2>8. userRoles' = Missing
        \/ \A ur \in userRoles' : \E a \in Lasting' : a[1] = ur[1] /\ a[2] \notin registered'
    BY <2>1, <2>5, <2>6, <2>7
  <2>9. pc \in Named => t = "Users"
    BY <2>1, <2>2, <2>3 DEF HomeOK, Home, NoHome
  <2>10. ~Home("x")'
    BY <2>1, <2>3, <2>4 DEF Home
  <2>11. pc = "grantSU" => SU \notin registered'
    <3> SUFFICES ASSUME pc = "grantSU" PROVE SU \notin registered'
      OBVIOUS
    <3>1. t = "Users" /\ SU \notin registered /\ named(SU) # {}
      BY <2>2, <2>9 DEF HomeOK, SuperOK, Named, Filled
    <3> QED
      BY <2>1, <2>4, <3>1 DEF named
  <2> QED
    BY <2>1, <2>3, <2>5, <2>8, <2>9, <2>10, <2>11 DEF HomeOK
<1>19. CASE Stop
  BY <1>19 DEF Stop, Breaks, HomeOK, Home, NoHome, Lasting, NoTempLost, Named, Filled
<1>20. CASE Start
  BY <1>20 DEF Start, HomeOK, Home, NoHome, Lasting, NoTempLost, Named, Filled
<1>21. CASE UNCHANGED vars
  BY <1>21 DEF vars, HomeOK, Home, NoHome, Lasting, NoTempLost, Named, Filled
<1> QED
  BY <1>1, <1>2, <1>3, <1>4, <1>5, <1>6, <1>7, <1>8, <1>9, <1>10,
     <1>11, <1>12, <1>13, <1>14, <1>15, <1>16, <1>17, <1>18, <1>19, <1>20, <1>21
     DEF Next, dbInitialize

\* A step keeps the roles of the old accounts: renaming a role keeps its user.
LEMMA RightsStep == TypeOK /\ TypeOK' /\ PlaceOK /\ PlaceOK' /\ RowsOK /\ RightsOK /\ [Next]_vars
                      => RightsOK'
<1> SUFFICES ASSUME TypeOK, TypeOK', PlaceOK, PlaceOK', RowsOK, RightsOK, [Next]_vars PROVE RightsOK'
  OBVIOUS
<1> USE DEF at, goto
<1>1. CASE initRoles
  BY <1>1 DEF initRoles, RightsOK
<1>2. CASE insertRole
  BY <1>2 DEF insertRole, RightsOK
<1>3. CASE addHide
  BY <1>3 DEF addHide, RightsOK
<1>4. CASE setHide
  BY <1>4 DEF setHide, RightsOK
<1>5. CASE renameRoles
  BY <1>5 DEF renameRoles, RightsOK
<1>6. CASE renameEditors
  BY <1>6 DEF renameEditors, RightsOK
<1>7. CASE renameUserRoles
  <2>1. CASE userRoles' = userRoles
    BY <1>7, <2>1 DEF renameUserRoles, RightsOK
  <2>2. ASSUME userRoles # Missing, userRoles' # Missing,
               userRoles' = {<<ur[1], Readers(ur[2])>> : ur \in userRoles}
        PROVE  RightsOK'
    <3>1. \A ur \in userRoles : \E vr \in userRoles' : vr[1] = ur[1]
      <4>1. \A ur \in userRoles : <<ur[1], Readers(ur[2])>> \in userRoles'
        BY <2>2
      <4>2. \A x, y : <<x, y>>[1] = x
        OBVIOUS
      <4> QED
        BY <4>1, <4>2
    <3>2. accounts' = accounts
      BY <1>7 DEF renameUserRoles
    <3>3. ASSUME NEW a \in accounts, a[2] \in OldUsers PROVE \E vr \in userRoles' : vr[1] = a[1]
      <4>1. PICK ur \in userRoles : ur[1] = a[1]
        BY <3>3 DEF RightsOK
      <4> QED
        BY <3>1, <4>1
    <3> QED
      BY <2>2, <3>2, <3>3 DEF RightsOK
  <2> QED
    BY <1>7, <2>1, <2>2 DEF renameUserRoles, PlaceOK
<1>8. CASE renameUserEditors
  <2>1. /\ userRoles # Missing /\ userRoles' # Missing
        /\ userRoles' = {<<ur[1], Editors(ur[2])>> : ur \in userRoles}
    <3>1. /\ userRoles # Missing
          /\ userRoles' = {<<ur[1], Editors(ur[2])>> : ur \in userRoles}
      BY <1>8 DEF renameUserEditors, PlaceOK
    <3>2. \A ur \in userRoles : ur[1] \in Nat /\ ur[2] \in OldRoles \cup NewRoles
      BY <3>1 DEF TypeOK
    <3> QED
      BY <3>1, <3>2, Renaming, RoleNames
  <2>2. \A ur \in userRoles : \E vr \in userRoles' : vr[1] = ur[1]
    <3>1. \A ur \in userRoles : <<ur[1], Editors(ur[2])>> \in userRoles'
      BY <2>1
    <3>2. \A x, y : <<x, y>>[1] = x
      OBVIOUS
    <3> QED
      BY <3>1, <3>2
  <2>3. accounts' = accounts
    BY <1>8 DEF renameUserEditors
  <2>4. ASSUME NEW a \in accounts, a[2] \in OldUsers PROVE \E vr \in userRoles' : vr[1] = a[1]
    <3>1. PICK ur \in userRoles : ur[1] = a[1]
      BY <2>4 DEF RightsOK
    <3> QED
      BY <2>2, <3>1
  <2> QED
    BY <2>1, <2>3, <2>4 DEF RightsOK
<1>9. CASE initUserRoles
  BY <1>9 DEF initUserRoles, RightsOK
<1>10. CASE renameUsers
  BY <1>10 DEF renameUsers, RightsOK
<1>11. CASE renameTemp
  BY <1>11 DEF renameTemp, RightsOK
<1>12. CASE initUsers
  BY <1>12 DEF initUsers, RightsOK
<1>13. CASE findDummy \/ findSU
  BY <1>13 DEF findDummy, findSU, RightsOK
<1>14. CASE insertDummy
  BY <1>14 DEF insertDummy, RightsOK
<1>15. CASE dropDummy
  BY <1>15 DEF dropDummy, RightsOK
<1>16. CASE insertSU
  <2>1. CASE pc' = "failed"
    BY <1>16, <2>1, Enrolling DEF RightsOK
  <2>2. CASE pc' # "failed"
    BY <1>16, <2>2, Enrolling, ConstantsAssumption DEF Enrols, RightsOK
  <2> QED
    BY <2>1, <2>2
<1>17. CASE grantSU
  <2>1. userRoles' # Missing /\ userRoles \subseteq userRoles' /\ accounts' = accounts
    BY <1>17 DEF grantSU, PlaceOK, Tabled, Named, Filled
  <2> QED
    BY <2>1 DEF RightsOK
<1>18. ASSUME NEW n \in NewUsers, Register(n) PROVE RightsOK'
  <2>1. PICK id \in Nat : accounts' = accounts \cup {<<id, n>>}
    BY <1>18, Registering DEF Enrols
  <2>2. userRoles' = userRoles
    BY <1>18, Registering
  <2> QED
    BY <2>1, <2>2, ConstantsAssumption DEF RightsOK
<1>19. CASE Stop
  BY <1>19 DEF Stop, RightsOK
<1>20. CASE Start
  BY <1>20 DEF Start, RightsOK
<1>21. CASE UNCHANGED vars
  BY <1>21 DEF vars, RightsOK
<1> QED
  BY <1>1, <1>2, <1>3, <1>4, <1>5, <1>6, <1>7, <1>8, <1>9, <1>10,
     <1>11, <1>12, <1>13, <1>14, <1>15, <1>16, <1>17, <1>18, <1>19, <1>20, <1>21
     DEF Next, dbInitialize

\* A step keeps the role of the super user, or is the one before it is given.
LEMMA SuperStep ==
    TypeOK /\ TypeOK' /\ PlaceOK /\ PlaceOK' /\ RowsOK /\ HomeOK /\ SuperOK /\ [Next]_vars => SuperOK'
<1> SUFFICES ASSUME TypeOK, TypeOK', PlaceOK, PlaceOK', RowsOK, HomeOK, SuperOK, [Next]_vars
             PROVE  SuperOK'
  OBVIOUS
<1> USE DEF at, goto
<1>1. CASE initRoles
  BY <1>1 DEF initRoles, SuperOK, named
<1>2. CASE insertRole
  BY <1>2 DEF insertRole, SuperOK, named
<1>3. CASE addHide
  BY <1>3 DEF addHide, SuperOK, named
<1>4. CASE setHide
  BY <1>4 DEF setHide, SuperOK, named
<1>5. CASE renameRoles
  BY <1>5 DEF renameRoles, SuperOK, named
<1>6. CASE renameEditors
  BY <1>6 DEF renameEditors, SuperOK, named
<1>7. CASE renameUserRoles
  <2>1. CASE userRoles' = userRoles
    BY <1>7, <2>1 DEF renameUserRoles, SuperOK, named
  <2>2. ASSUME userRoles # Missing, userRoles' # Missing,
               userRoles' = {<<ur[1], Readers(ur[2])>> : ur \in userRoles}
        PROVE  SuperOK'
    <3>1. \A ur \in userRoles : ur[2] = "SuperAdmin" => <<ur[1], "SuperAdmin">> \in userRoles'
      BY <2>2 DEF Readers
    <3>2. \A i : <<i, "SuperAdmin">> \in userRoles => <<i, "SuperAdmin">> \in userRoles'
      BY <3>1
    <3> QED
      BY <1>7, <2>2, <3>2 DEF renameUserRoles, SuperOK, named
  <2> QED
    BY <1>7, <2>1, <2>2 DEF renameUserRoles, PlaceOK
<1>8. CASE renameUserEditors
  <2>1. /\ userRoles # Missing /\ userRoles' # Missing
        /\ userRoles' = {<<ur[1], Editors(ur[2])>> : ur \in userRoles}
    <3>1. /\ userRoles # Missing
          /\ userRoles' = {<<ur[1], Editors(ur[2])>> : ur \in userRoles}
      BY <1>8 DEF renameUserEditors, PlaceOK
    <3>2. \A ur \in userRoles : ur[1] \in Nat /\ ur[2] \in OldRoles \cup NewRoles
      BY <3>1 DEF TypeOK
    <3> QED
      BY <3>1, <3>2, Renaming, RoleNames
  <2>2. ASSUME userRoles # Missing, userRoles' # Missing,
               userRoles' = {<<ur[1], Editors(ur[2])>> : ur \in userRoles}
        PROVE  SuperOK'
    <3>1. \A ur \in userRoles : ur[2] = "SuperAdmin" => <<ur[1], "SuperAdmin">> \in userRoles'
      BY <2>2 DEF Editors
    <3>2. \A i : <<i, "SuperAdmin">> \in userRoles => <<i, "SuperAdmin">> \in userRoles'
      BY <3>1
    <3> QED
      BY <1>8, <2>2, <3>2 DEF renameUserEditors, SuperOK, named
  <2> QED
    BY <2>1, <2>2
<1>9. CASE initUserRoles
  BY <1>9 DEF initUserRoles, SuperOK, named
<1>10. CASE renameUsers
  <2>1. CASE tables[old] = Nil
    BY <1>10, <2>1 DEF renameUsers, nextTable, SuperOK
  <2>2. ASSUME Moves(old, tempName(old)), userRoles' = userRoles, stops' = stops, registered' = registered,
               pc \notin {"grantSU", "ready"}, pc' \notin {"grantSU", "ready"}
        PROVE  SuperOK'
    BY <2>2 DEF Moves, SuperOK
  <2> QED
    BY <1>10, <2>1, <2>2, Moving DEF renameUsers
<1>11. CASE renameTemp
  <2>2. ASSUME Moves(tempName(old), "Users"), userRoles' = userRoles, stops' = stops, registered' = registered,
               pc \notin {"grantSU", "ready"}, pc' \notin {"grantSU", "ready"}
        PROVE  SuperOK'
    BY <2>2 DEF Moves, SuperOK
  <2> QED
    BY <1>11, <2>2, Moving DEF renameTemp, nextTable
<1>12. CASE initUsers
  <2>1. "Users" \in TableNames /\ tables \in [TableNames -> Table \cup {Nil}]
    BY DEF TypeOK, TableNames
  <2>2. /\ \A t \in TableNames : tables'[t] = tables[t] \/ tables'[t] = EmptyTable
        /\ userRoles' = userRoles /\ stops' = stops /\ registered' = registered /\ pc' = "findDummy" /\ pc = "initUsers"
    BY <1>12, <2>1 DEF initUsers
  <2>3. EmptyTable.rows = {}
    BY DEF EmptyTable
  <2> QED
    BY <2>2, <2>3 DEF SuperOK
<1>13. CASE findDummy \/ findSU
  BY <1>13 DEF findDummy, findSU, SuperOK, named
<1>14. CASE insertDummy
  <2>1. /\ userRoles' = userRoles /\ stops' = stops /\ registered' = registered /\ pc = "insertDummy"
        /\ pc' \in {"dropDummy", "failed"} /\ "Users" \in TableNames /\ tables["Users"] # Nil
    BY <1>14 DEF insertDummy, TableNames, PlaceOK, Filled
  <2>2. CASE pc' = "failed"
    BY <1>14, <2>1, <2>2, Dummies DEF SuperOK
  <2>3. CASE pc' # "failed"
    <3>1. /\ tables'["Users"].rows = tables["Users"].rows \cup {<<StartValue, Dummy>>}
          /\ \A t \in TableNames \ {"Users"} : tables'[t] = tables[t]
      BY <1>14, <2>3, Dummies DEF Keeps
    <3> QED
      BY <2>1, <3>1, ConstantsAssumption DEF SuperOK
  <2> QED
    BY <2>2, <2>3
<1>15. CASE dropDummy
  <2>1. /\ userRoles' = userRoles /\ stops' = stops /\ registered' = registered /\ pc = "dropDummy" /\ pc' = "findSU"
        /\ "Users" \in TableNames /\ tables["Users"] # Nil
    BY <1>15 DEF dropDummy, TableNames, PlaceOK, Filled
  <2>2. /\ tables'["Users"].rows \subseteq tables["Users"].rows
        /\ \A t \in TableNames \ {"Users"} : tables'[t] = tables[t]
    BY <1>15, Dummies DEF Keeps
  <2> QED
    BY <2>1, <2>2 DEF SuperOK
<1>16. CASE insertSU
  <2>1. pc = "insertSU" /\ UNCHANGED <<userRoles, stops, registered>>
    BY <1>16, Enrolling
  <2>2. CASE pc' = "failed"
    BY <1>16, <2>1, <2>2, Enrolling DEF SuperOK
  <2>3. CASE pc' # "failed"
    <3>1. pc' = "grantSU" /\ <<SuId, SU>> \in tables'["Users"].rows
      BY <1>16, <2>3, Enrolling DEF Enrols
    <3>2. named(SU)' # {}
      <4>1. <<SuId, SU>>[2] = SU
        OBVIOUS
      <4> QED
        BY <3>1, <4>1 DEF named
    <3> QED
      BY <3>1, <3>2 DEF SuperOK
  <2> QED
    BY <2>2, <2>3
<1>17. CASE grantSU
  <2>1. /\ tables' = tables /\ stops' = stops /\ registered' = registered /\ pc = "grantSU" /\ pc' = "ready"
        /\ userRoles' = userRoles \cup {<<row[1], "SuperAdmin">> : row \in named(SU)}
        /\ userRoles' # Missing /\ tables["Users"] # Nil /\ "Users" \in TableNames
    BY <1>17 DEF grantSU, PlaceOK, Tabled, Named, Filled, TableNames
  <2>2. named(SU)' = named(SU) /\ named(SU) # {}
    BY <2>1 DEF named, SuperOK
  <2>3. NoTempLost => \A t \in TableNames \ {"Users"} : tables[t] = Nil
    BY <2>1 DEF HomeOK, Home, NoHome, Named, Filled
  <2>4. \A row \in tables["Users"].rows :
          row[2] = SU => <<row[1], "SuperAdmin">> \in userRoles'
    BY <2>1 DEF named
  <2> QED
    BY <2>1, <2>2, <2>3, <2>4 DEF SuperOK, NoTempLost
<1>18. ASSUME NEW n \in NewUsers, Register(n) PROVE SuperOK'
  <2>1. PICK t \in {"users", "Users"}, id \in Nat : Enrols(t, id, n) /\ tables[t] # Nil
    BY <1>18, Registering
  <2>2. /\ userRoles' = userRoles /\ stops' = stops /\ pc' = pc
        /\ registered' = registered \cup {n}
    BY <1>18, Registering
  <2>3. /\ t \in TableNames /\ "Users" \in TableNames
        /\ tables'[t].rows = tables[t].rows \cup {<<id, n>>}
        /\ \A u \in TableNames \ {t} : tables'[u] = tables[u]
    BY <2>1 DEF Enrols, TableNames
  <2>4. pc \in {"grantSU", "ready"} => named(SU)' # {}
    BY <2>3 DEF SuperOK, named
  <2>5. CASE n = SU
    BY <2>2, <2>4, <2>5 DEF SuperOK
  <2>6. CASE n # SU
    BY <2>1, <2>2, <2>3, <2>4, <2>6 DEF SuperOK
  <2> QED
    BY <2>5, <2>6
<1>19. CASE Stop
  BY <1>19 DEF Stop, Breaks, SuperOK
<1>20. CASE Start
  BY <1>20 DEF Start, SuperOK, named
<1>21. CASE UNCHANGED vars
  BY <1>21 DEF vars, SuperOK, named
<1> QED
  BY <1>1, <1>2, <1>3, <1>4, <1>5, <1>6, <1>7, <1>8, <1>9, <1>10,
     <1>11, <1>12, <1>13, <1>14, <1>15, <1>16, <1>17, <1>18, <1>19, <1>20, <1>21
     DEF Next, dbInitialize

(***************************************************************************)
(* The initial states, and the theorems.                                   *)
(***************************************************************************)

\* The invariant holds in the initial states.
LEMMA InvInit == Init => IInv
<1> SUFFICES ASSUME Init PROVE IInv
  OBVIOUS
<1>1. TypeOK /\ pc = "initRoles" /\ old = "x" /\ stops = {} /\ registered = {}
  BY Initial
<1>2. CASE roles = Missing /\ userRoles = Missing /\ NoHome
  <2>1. PlaceOK /\ RightsOK
    BY <1>1, <1>2 DEF PlaceOK, RightsOK, NoHome, Filled, Named, Tabled, Renamed
  <2>2. RowsOK /\ SuperOK
    BY <1>1, <1>2 DEF RowsOK, SuperOK, NoHome
  <2>3. HomeOK
    BY <1>1, <1>2 DEF HomeOK, Named, Filled
  <2> QED
    BY <1>1, <2>1, <2>2, <2>3 DEF IInv
<1>3. CASE FoundOne
  <2>1. PICK name \in {"x", "users", "Users"} :
          /\ tables[name] # Nil /\ tables[name].rows = accounts
          /\ \A row \in accounts : row[1] <= tables[name].seq
          /\ \A t \in TableNames \ {name} : tables[t] = Nil
    BY <1>3 DEF FoundOne
  <2>2. name \in TableNames /\ \A a \in accounts : a[2] # Dummy
    BY <1>3, ConstantsAssumption DEF FoundOne, TableNames
  <2>3. PlaceOK /\ RightsOK
    BY <1>1, <1>3 DEF PlaceOK, RightsOK, FoundOne, Filled, Named, Tabled, Renamed
  <2>4. RowsOK
    BY <1>1, <1>3, <2>1, <2>2 DEF RowsOK, FoundOne
  <2>5. SuperOK
    BY <1>1, <1>3, <2>1 DEF SuperOK, FoundOne
  <2>6. HomeOK
    <3>1. Lasting = accounts
      <4>1. <<StartValue, Dummy>>[2] = Dummy
        OBVIOUS
      <4> QED
        BY <2>2, <4>1 DEF Lasting
    <3>2. Home(name)
      BY <2>1, <3>1 DEF Home
    <3> QED
      BY <1>1, <1>3, <3>1, <3>2 DEF HomeOK, FoundOne, Named, Filled
  <2> QED
    BY <1>1, <2>3, <2>4, <2>5, <2>6 DEF IInv
<1> QED
  BY <1>2, <1>3, Initial

\* The inductive invariant of the start.
THEOREM Invariance == Spec => []IInv
<1>1. Init => IInv
  BY InvInit
<1>2. IInv /\ [Next]_vars => IInv'
  BY TypeStep, PlaceStep, RowsStep, HomeStep, RightsStep, SuperStep DEF IInv
<1> QED
  BY <1>1, <1>2, PTL DEF Spec

\* Every table and every place of the start keeps its type.
THEOREM TypeCorrect == Spec => []TypeOK
<1>1. IInv => TypeOK
  BY DEF IInv
<1> QED
  BY <1>1, Invariance, PTL

\* Whatever the version of the database, the stops and those who register meanwhile, a
\* start that ends has lost no account and changed no identifier, unless it was stopped
\* between the two renames of the table of users; only who registered as the dummy, and
\* was given its identifier, is dropped.
THEOREM NoAccountLost == Spec => []AccountsKept
<1>1. IInv => AccountsKept
  <2> SUFFICES ASSUME IInv, pc = "ready", NoTempLost PROVE Lasting \subseteq tables["Users"].rows
    BY DEF AccountsKept, at
  <2>1. tables["Users"] # Nil /\ "Users" \in TableNames
    BY DEF IInv, PlaceOK, Filled, TableNames
  <2> QED
    BY <2>1 DEF IInv, HomeOK, Home, NoHome, Named, Filled
<1> QED
  BY <1>1, Invariance, PTL

\* The accounts of the database that was found keep a role, of the new names, and nobody
\* who registered gets one, through an identifier used again or the name of the super user.
THEOREM RolesSurvive == Spec => []RightsKept
<1>1. IInv => RightsKept
  <2> SUFFICES ASSUME IInv, pc = "ready", NoTempLost
               PROVE  /\ \A n \in OldUsers : \A row \in named(n) : \E ur \in userRoles : ur[1] = row[1]
                      /\ \A ur \in userRoles : ~isOld(ur[2])
                      /\ \A n \in registered : \A row \in named(n) : \A ur \in userRoles : ur[1] # row[1]
    BY DEF RightsKept, at
  <2>1. tables["Users"] # Nil /\ "Users" \in TableNames /\ userRoles # Missing
    BY DEF IInv, PlaceOK, Filled, TableNames, Tabled, Named
  <2>2. \A ur \in userRoles : ~isOld(ur[2])
    BY <2>1 DEF IInv, PlaceOK, Renamed, Tabled, Named, Filled
  <2>3. ASSUME NEW n \in OldUsers, NEW row \in named(n) PROVE \E ur \in userRoles : ur[1] = row[1]
    <3>1. row \in tables["Users"].rows /\ row[2] = n /\ n # Dummy
      BY ConstantsAssumption DEF named
    <3>2. row \in accounts \cup {<<StartValue, Dummy>>}
      BY <2>1, <3>1 DEF IInv, RowsOK
    <3> QED
      BY <3>1, <3>2 DEF IInv, RightsOK
  <2>4. /\ Lasting \subseteq tables["Users"].rows
        /\ \A ur \in userRoles : \E a \in Lasting : a[1] = ur[1] /\ a[2] \notin registered
        /\ \A a, b \in tables["Users"].rows : a[1] = b[1] => a = b
    BY <2>1 DEF IInv, HomeOK, Home, NoHome, Named, Filled, RowsOK
  <2>5. ASSUME NEW n \in registered, NEW row \in named(n), NEW ur \in userRoles PROVE ur[1] # row[1]
    <3>1. row \in tables["Users"].rows /\ row[2] = n
      BY DEF named
    <3>2. PICK a \in Lasting : a[1] = ur[1] /\ a[2] \notin registered
      BY <2>4
    <3>3. a \in tables["Users"].rows /\ a[2] # row[2]
      BY <2>4, <3>1, <3>2
    <3> QED
      BY <2>4, <3>1, <3>2, <3>3
  <2> QED
    BY <2>2, <2>3, <2>5
<1> QED
  BY <1>1, Invariance, PTL

\* When the start has ended the super user is there with its role, whatever identifier is
\* configured, unless the process was stopped between its insertion and that of its role,
\* or between the two renames, or somebody registered under its name.
THEOREM SuperUserReady == Spec => []SuperUserCan
<1>1. IInv => SuperUserCan
  <2> SUFFICES ASSUME IInv, pc = "ready", {"grantSU", "renameTemp"} \cap stops = {},
                      SU \notin registered
               PROVE  \E row \in named(SU) : <<row[1], "SuperAdmin">> \in userRoles
    BY DEF SuperUserCan, at
  <2>1. tables["Users"] # Nil /\ "Users" \in TableNames
    BY DEF IInv, PlaceOK, Filled, TableNames
  <2>2. PICK row \in named(SU) : TRUE
    BY DEF IInv, SuperOK
  <2>3. row \in tables["Users"].rows /\ row[2] = SU
    BY <2>2 DEF named
  <2>4. <<row[1], "SuperAdmin">> \in userRoles
    BY <2>1, <2>3 DEF IInv, SuperOK
  <2> QED
    BY <2>2, <2>4
<1> QED
  BY <1>1, Invariance, PTL

(***************************************************************************)
(* What the start hands over to the handlers of the accounts.              *)
(***************************************************************************)

\* What UserAccounts starts from: one table of users, an identifier and a name for each
\* row, no identifier beyond the last one given, no dummy but one who registered, and
\* roles of users that are there.
HandedOver ==
    at("ready") /\ NoTempLost =>
        LET rows == tables["Users"].rows
        IN  /\ \A t \in TableNames : tables[t] # Nil <=> t = "Users"
            /\ \A row \in rows :
                  row[1] \in 0 .. tables["Users"].seq /\ (row[2] = Dummy => Dummy \in registered)
            /\ \A a, b \in rows : a[1] = b[1] \/ a[2] = b[2] => a = b
            /\ \A ur \in userRoles : \E row \in rows : row[1] = ur[1]

\* A start that ends hands over what the handlers of the accounts rely on, whatever the
\* version of the database, the stops and those who register meanwhile, unless it was
\* stopped between the two renames of the table of users (dbInitialize,
\* dbCreateUserCheckExists).
THEOREM UsersHandedOver == Spec => []HandedOver
<1>1. IInv => HandedOver
  <2> SUFFICES ASSUME IInv, pc = "ready", NoTempLost PROVE HandedOver
    BY DEF HandedOver, at
  <2> DEFINE rows == tables["Users"].rows
  <2>1. /\ tables["Users"] # Nil /\ "Users" \in TableNames /\ userRoles # Missing
        /\ TypeOK /\ RowsOK /\ HomeOK
    BY DEF IInv, PlaceOK, Filled, TableNames, Tabled, Named
  <2>2. Home("Users")
    BY <2>1 DEF HomeOK, NoHome, Named, Filled
  <2>3. \A t \in TableNames : tables[t] # Nil <=> t = "Users"
    BY <2>1, <2>2 DEF Home
  <2>4. \A row \in rows :
          row[1] \in 0 .. tables["Users"].seq /\ (row[2] = Dummy => Dummy \in registered)
    BY <2>1, RowParts DEF RowsOK
  <2>5. \A a, b \in rows : a[1] = b[1] \/ a[2] = b[2] => a = b
    BY <2>1 DEF RowsOK
  <2>6. \A ur \in userRoles : \E row \in rows : row[1] = ur[1]
    BY <2>1, <2>2 DEF HomeOK, Home
  <2> QED
    BY <2>3, <2>4, <2>5, <2>6 DEF HandedOver
<1> QED
  BY <1>1, Invariance, PTL

(***************************************************************************)
(* Liveness.  That an action may be taken is the one fact about it which   *)
(* no prover here establishes: the theorem takes it as its hypothesis.     *)
(***************************************************************************)

\* A start that is neither stopped, nor over, nor lost has a request to make.
StartGoesOn ==
    pc \notin {"down", "ready", "failed", "stuck"} => ENABLED <<dbInitialize>>_vars

\* Why a start is lost: it found Roles without User_Roles, which a stop between their
\* creations left, or a key that it wants was given to somebody else.
LostOK ==
    /\ userRoles = Missing =>
          \/ roles = Missing \/ pc \in {"createRoles", "initUserRoles"}
          \/ {"createRoles", "initUserRoles"} \cap stops # {}
    /\ pc = "insertDummy" =>
          \A row \in tables["Users"].rows : row[1] = StartValue => Refusable
    /\ pc = "insertSU" /\ named(SU) # {} => SU \in registered
    /\ pc = "stuck" => ~NoTableMissing
    /\ pc = "failed" => Refusable

\* What was given stays given.
LEMMA TakenStep == TypeOK /\ RowsOK /\ PlaceOK /\ [Next]_vars => (Refusable => Refusable')
<1> SUFFICES ASSUME TypeOK, RowsOK, PlaceOK, [Next]_vars
             PROVE  accounts \subseteq accounts' /\ registered \subseteq registered'
  BY DEF Refusable
<1>1. ASSUME NEW n \in NewUsers, Register(n)
      PROVE  accounts \subseteq accounts' /\ registered \subseteq registered'
  BY <1>1 DEF Register
<1>2. ASSUME insertSU PROVE accounts \subseteq accounts' /\ registered \subseteq registered'
  BY <1>2 DEF insertSU
<1>3. ASSUME dbInitialize PROVE accounts \subseteq accounts' /\ registered \subseteq registered'
  BY <1>2, <1>3
     DEF dbInitialize, initRoles, insertRole, addHide, setHide, renameRoles, renameEditors,
         renameUserRoles, renameUserEditors, initUserRoles, renameUsers, renameTemp, initUsers,
         findDummy, insertDummy, dropDummy, findSU, grantSU
<1> QED
  BY <1>1, <1>3 DEF Next, Stop, Start, vars

LEMMA LostStep == TypeOK /\ TypeOK' /\ PlaceOK /\ RowsOK /\ LostOK /\ [Next]_vars => LostOK'
<1> SUFFICES ASSUME TypeOK, TypeOK', PlaceOK, RowsOK, LostOK, [Next]_vars PROVE LostOK'
  OBVIOUS
<1> USE DEF at, goto
<1>0. Refusable => Refusable'
  BY TakenStep
<1>1. CASE initRoles
  BY <1>0, <1>1 DEF initRoles, LostOK
<1>2. CASE insertRole
  BY <1>0, <1>2 DEF insertRole, LostOK
<1>3. CASE addHide \/ setHide
  BY <1>0, <1>3 DEF addHide, setHide, LostOK
<1>4. CASE renameRoles \/ renameEditors
  BY <1>0, <1>4 DEF renameRoles, renameEditors, LostOK, PlaceOK
<1>5. CASE renameUserRoles
  <2>1. userRoles = Missing => ~NoTableMissing
    BY <1>5 DEF renameUserRoles, LostOK, PlaceOK, NoTableMissing
  <2>2. userRoles = Missing => pc' = "stuck" /\ UNCHANGED <<userRoles, roles, stops>>
    BY <1>5 DEF renameUserRoles
  <2>3. userRoles # Missing => pc' # "stuck" /\ userRoles' # Missing
    <3>1. userRoles # Missing =>
            userRoles' = userRoles \/ userRoles' = {<<ur[1], Readers(ur[2])>> : ur \in userRoles}
      BY <1>5 DEF renameUserRoles
    <3>2. userRoles # Missing => {<<ur[1], Readers(ur[2])>> : ur \in userRoles}
                                   \in SUBSET (Nat \X (OldRoles \cup NewRoles))
      BY Renaming DEF TypeOK
    <3> QED
      BY <1>5, <3>1, <3>2, RoleNames DEF renameUserRoles
  <2> QED
    BY <1>5, <2>1, <2>2, <2>3 DEF renameUserRoles, LostOK, NoTableMissing
<1>6. CASE renameUserEditors
  <2>1. userRoles # Missing
    BY <1>6 DEF renameUserEditors, PlaceOK
  <2>2. userRoles' = {<<ur[1], Editors(ur[2])>> : ur \in userRoles} /\ pc' = "initUserRoles"
    BY <1>6 DEF renameUserEditors
  <2> QED
    BY <2>2 DEF LostOK
<1>7. CASE initUserRoles
  <2>1. userRoles' # Missing /\ pc' = "renameUsers"
    BY <1>7 DEF initUserRoles, Missing
  <2> QED
    BY <2>1 DEF LostOK
<1>8. CASE renameUsers \/ renameTemp
  BY <1>0, <1>8 DEF renameUsers, renameTemp, nextTable, LostOK
<1>9. CASE initUsers
  BY <1>0, <1>9 DEF initUsers, LostOK
<1>10. CASE findDummy
  <2>1. pc' = "insertDummy" => \A row \in tables["Users"].rows : row[1] # StartValue
    BY <1>10 DEF findDummy
  <2> QED
    BY <1>10, <2>1 DEF findDummy, LostOK
<1>11. CASE insertDummy
  <2>1. "Users" \in TableNames /\ tables["Users"] # Nil
    BY <1>11 DEF insertDummy, PlaceOK, Filled, TableNames
  <2>2. ASSUME isTaken(tables["Users"], StartValue, Dummy) PROVE Refusable
    <3>1. PICK row \in tables["Users"].rows : row[1] = StartValue \/ row[2] = Dummy
      BY <2>2 DEF isTaken
    <3>2. CASE row[1] = StartValue
      BY <1>11, <3>2 DEF insertDummy, LostOK
    <3>3. CASE row[1] # StartValue
      <4>1. row \in accounts /\ row[2] = Dummy
        BY <2>1, <3>1, <3>3 DEF RowsOK
      <4> QED
        BY <4>1 DEF RowsOK, Refusable
    <3> QED
      BY <3>2, <3>3
  <2> QED
    BY <1>0, <1>11, <2>2 DEF insertDummy, LostOK
<1>12. CASE dropDummy \/ findSU
  BY <1>0, <1>12 DEF dropDummy, findSU, named, LostOK
<1>18. CASE insertSU
  <2>1. "Users" \in TableNames /\ tables["Users"] # Nil /\ pc = "insertSU"
    BY <1>18, Enrolling DEF TableNames
  <2>2. ASSUME isTaken(tables["Users"], SuId, SU) PROVE Refusable
    <3>1. PICK row \in tables["Users"].rows : row[1] = SuId \/ row[2] = SU
      BY <2>2 DEF isTaken
    <3>2. CASE row[2] = SU
      BY <2>1, <3>2 DEF LostOK, named, Refusable
    <3>3. CASE row[2] = Dummy
      BY <2>1, <3>3 DEF RowsOK, Refusable
    <3>4. CASE row[2] # SU /\ row[2] # Dummy
      <4>1. row \in accounts /\ row[1] = SuId
        BY <2>1, <3>1, <3>4 DEF RowsOK
      <4> QED
        BY <3>4, <4>1 DEF Refusable
    <3> QED
      BY <3>2, <3>3, <3>4
  <2>3. pc' = "grantSU" \/ (pc' = "failed" /\ isTaken(tables["Users"], SuId, SU))
    BY <1>18 DEF insertSU
  <2> QED
    BY <1>0, <1>18, <2>2, <2>3 DEF insertSU, LostOK
<1>13. CASE grantSU
  <2>1. pc' = "ready" /\ PlaceOK'
    BY <1>13, PlaceStep DEF grantSU
  <2>2. userRoles' # Missing
    BY <2>1 DEF PlaceOK, Tabled, Named, Filled
  <2> QED
    BY <2>1, <2>2 DEF LostOK
<1>14. ASSUME NEW n \in NewUsers, Register(n) PROVE LostOK'
  <2>1. PICK t \in {"users", "Users"}, id \in Nat : tables[t] # Nil /\ Enrols(t, id, n)
    BY <1>14, Registering
  <2>2. /\ t \in TableNames /\ n \in Names /\ registered' = registered \cup {n} /\ pc' = pc
        /\ UNCHANGED <<userRoles, roles, stops>>
    BY <1>14, Registering DEF TableNames
  <2>3. /\ \A u \in TableNames : tables[u] # Nil =>
              \A row \in tables'[u].rows :
                 row \in tables[u].rows \/ (row = <<id, n>> /\ row[1] = id /\ row[2] = n)
        /\ <<id, n>> \in accounts'
    BY <2>1, <2>2, EnrolsRows
  <2>4. pc \in {"insertDummy", "insertSU"} => "Users" \in TableNames /\ tables["Users"] # Nil
    BY DEF PlaceOK, Filled, TableNames
  <2>5. ASSUME pc = "insertDummy", NEW row \in tables'["Users"].rows, row[1] = StartValue
        PROVE  Refusable'
    <3>1. CASE row \in tables["Users"].rows
      BY <1>0, <2>5, <3>1 DEF LostOK
    <3>2. CASE row = <<id, n>> /\ row[1] = id
      BY <2>2, <2>3, <2>5, <3>2 DEF Refusable
    <3> QED
      BY <2>3, <2>4, <2>5, <3>1, <3>2
  <2>6. ASSUME pc = "insertSU", NEW row \in tables'["Users"].rows, row[2] = SU
        PROVE  SU \in registered'
    BY <2>2, <2>3, <2>4, <2>6 DEF LostOK, named
  <2> QED
    BY <1>0, <2>2, <2>5, <2>6 DEF LostOK, NoTableMissing, named
<1>15. CASE Stop
  BY <1>15 DEF Stop, LostOK, Breaks
<1>16. CASE Start
  BY <1>16 DEF Start, LostOK
<1>17. CASE UNCHANGED vars
  BY <1>17 DEF vars, LostOK, NoTableMissing, Refusable, named
<1> QED
  BY <1>1, <1>2, <1>3, <1>4, <1>5, <1>6, <1>7, <1>8, <1>9, <1>10, <1>11, <1>12, <1>13, <1>14,
     <1>15, <1>16, <1>17, <1>18 DEF Next, dbInitialize

\* Where dbInitialize is, in the order of its requests.
stage ==
    CASE pc = "initRoles"         -> 0
      [] pc = "createRoles"       -> 1 + Cardinality(roles)
      [] pc = "addHide"           -> 6
      [] pc = "setHide"           -> 7
      [] pc = "renameRoles"       -> 8
      [] pc = "renameEditors"     -> 9
      [] pc = "renameUserRoles"   -> 10
      [] pc = "renameUserEditors" -> 11
      [] pc = "initUserRoles"     -> 12
      [] pc = "renameUsers"       -> IF old = "x" THEN 13 ELSE 15
      [] pc = "renameTemp"        -> IF old = "x" THEN 14 ELSE 16
      [] pc = "initUsers"         -> 17
      [] pc = "findDummy"         -> 18
      [] pc = "insertDummy"       -> 19
      [] pc = "dropDummy"         -> 20
      [] pc = "findSU"            -> 21
      [] pc = "insertSU"          -> 22
      [] pc = "grantSU"           -> 23
      [] OTHER                    -> 24

\* Nothing ends a start before it is over.
Fine == ~at("down") /\ NoTableMissing

\* Every request of dbInitialize leads to a later one: no place is met twice.
LEMMA StageStep ==
    ASSUME TypeOK, PlaceOK, LostOK, LostOK', Fine, Fine', [Next]_vars
    PROVE  /\ stage \in 0 .. 24 /\ stage' \in 0 .. 24
           /\ stage = 24 <=> pc \in {"ready", "failed"}
           /\ stage' >= stage
           /\ dbInitialize => stage' > stage
<1> USE DEF at, goto
<1>1. pc \notin {"down", "stuck"} /\ pc' \notin {"down", "stuck"}
  BY DEF Fine, LostOK
<1>2. pc = "createRoles" => \E k \in 0 .. 4 : roles = Made(k) /\ stage = 1 + k
  BY Making DEF PlaceOK, stage
<1>3. stage \in 0 .. 24 /\ (stage = 24 <=> pc \in {"ready", "failed"})
  BY <1>1, <1>2 DEF stage, TypeOK, PC
<1>4. CASE insertRole
  <2>1. PICK k \in 0 .. 4 : roles = Made(k) /\ stage = 1 + k
    BY <1>2, <1>4 DEF insertRole
  <2>2. Cardinality(roles) = k /\ roles' = Made(k + 1)
    BY <1>4, <2>1, Making DEF insertRole
  <2>3. CASE k = 4
    <3>1. pc' = "initUserRoles"
      BY <1>4, <2>2, <2>3 DEF insertRole
    <3>2. stage' = 12
      BY <3>1 DEF stage
    <3> QED
      BY <1>3, <2>1, <3>1, <3>2
  <2>4. CASE k # 4
    <3>1. pc' = "createRoles" /\ k + 1 \in 0 .. 4
      BY <1>4, <2>2, <2>4 DEF insertRole
    <3>2. Cardinality(roles') = k + 1
      BY <2>2, <3>1, Making
    <3>3. stage' = k + 2
      BY <3>1, <3>2 DEF stage
    <3> QED
      BY <1>3, <2>1, <3>1, <3>3
  <2> QED
    BY <2>3, <2>4
<1>5. CASE initRoles
  <2>1. stage = 0
    BY <1>5 DEF initRoles, stage
  <2>2. CASE pc' = "createRoles" /\ roles' = {}
    <3>1. Cardinality(roles') = 0
      BY <2>2, FS_EmptySet
    <3>2. stage' = 1
      BY <2>2, <3>1 DEF stage
    <3> QED
      BY <1>3, <2>1, <2>2, <3>2
  <2>3. CASE pc' = "addHide"
    BY <1>3, <2>1, <2>3 DEF stage
  <2> QED
    BY <1>5, <2>2, <2>3 DEF initRoles
<1>6. CASE addHide \/ setHide \/ renameRoles \/ renameEditors
  BY <1>3, <1>6 DEF addHide, setHide, renameRoles, renameEditors, stage
<1>7. CASE renameUserRoles \/ renameUserEditors \/ initUserRoles
  BY <1>1, <1>3, <1>7 DEF renameUserRoles, renameUserEditors, initUserRoles, stage
<1>8. CASE renameUsers \/ renameTemp
  BY <1>3, <1>8 DEF renameUsers, renameTemp, nextTable, stage, TypeOK
<1>9. CASE initUsers \/ findDummy \/ insertDummy
  BY <1>1, <1>3, <1>9 DEF initUsers, findDummy, insertDummy, stage
<1>10. CASE dropDummy \/ findSU \/ insertSU \/ grantSU
  BY <1>3, <1>10 DEF dropDummy, findSU, insertSU, grantSU, stage
<1>11. ASSUME UNCHANGED <<pc, roles, old>>, ~dbInitialize
       PROVE  stage' = stage /\ pc' = pc
  BY <1>11 DEF stage
<1>12. dbInitialize \/ (UNCHANGED <<pc, roles, old>> /\ ~dbInitialize)
  BY <1>1 DEF Next, Register, Stop, Start, vars
<1> QED
  BY <1>3, <1>4, <1>5, <1>6, <1>7, <1>8, <1>9, <1>10, <1>11, <1>12 DEF dbInitialize

\* A start that is neither stopped for ever again nor lost comes to its end, whatever it
\* found and whoever registers meanwhile (dbInitialize): each of its requests leads to a
\* later one, and it only fails where somebody has a key of the dummy or of the super user.
THEOREM StartsEnd == FairSpec /\ []StartGoesOn => StartEnds
<1> DEFINE Inv == IInv /\ LostOK
           From(k) == stage \in Nat /\ stage >= k
           Comes(k) == <>[](Fine /\ From(k))
           Fair == Spec /\ WF_vars(dbInitialize) /\ []StartGoesOn
<1>1. Spec => []Inv
  <2>1. Init => LostOK
    <3> SUFFICES ASSUME Init PROVE LostOK
      OBVIOUS
    <3>1. pc = "initRoles" /\ (roles = Missing \/ userRoles # Missing)
      BY Initial DEF FoundOne
    <3> QED
      BY <3>1 DEF LostOK
  <2>2. IInv /\ IInv' /\ LostOK /\ [Next]_vars => LostOK'
    BY LostStep DEF IInv
  <2> QED
    BY <2>1, <2>2, Invariance, PTL DEF Spec
<1>2. ASSUME NEW k \in 0 .. 23 PROVE Fair => (Comes(k) => Comes(k + 1))
  <2> DEFINE Now == Fine /\ From(k)
             Then == From(k + 1)
  <2>1. Inv /\ Now /\ Fine' /\ Then /\ Inv' /\ [Next]_vars => Then'
    BY StageStep DEF IInv
  <2>2. Inv /\ Now /\ Fine' /\ Inv' /\ <<dbInitialize>>_vars => Then'
    <3> SUFFICES ASSUME Inv, Now, Fine', Inv', dbInitialize PROVE Then'
      OBVIOUS
    <3>1. [Next]_vars
      BY DEF Next
    <3> QED
      BY <3>1, StageStep DEF IInv
  <2>3. Inv /\ Now /\ StartGoesOn /\ ~Then => ENABLED <<dbInitialize>>_vars
    <3> SUFFICES ASSUME Inv, Now, StartGoesOn, ~Then
                 PROVE  pc \notin {"down", "ready", "failed", "stuck"}
      BY DEF StartGoesOn
    <3>1. stage = k /\ k # 24
      OBVIOUS
    <3> QED
      BY <3>1 DEF stage, Fine, at, LostOK
  <2> HIDE DEF Inv, From
  <2> QED
    BY <1>1, <2>1, <2>2, <2>3, PTL DEF Spec
<1>3. FairSpec /\ []StartGoesOn => Fair
  BY PTL DEF FairSpec
<1>4. Fair /\ <>[]Fine => Comes(0)
  <2>1. Inv /\ Inv' /\ Fine /\ Fine' /\ [Next]_vars => From(0)
    BY StageStep DEF IInv
  <2> HIDE DEF Inv, From
  <2> QED
    BY <1>1, <2>1, PTL DEF Spec
<1>5. Fair /\ Comes(24) => <>[](at("ready") \/ (at("failed") /\ Refusable))
  <2>1. Inv /\ Inv' /\ Fine /\ Fine' /\ [Next]_vars /\ From(24)
          => at("ready") \/ (at("failed") /\ Refusable)
    <3> SUFFICES ASSUME Inv, Inv', Fine, Fine', [Next]_vars, From(24)
                 PROVE  at("ready") \/ (at("failed") /\ Refusable)
      OBVIOUS
    <3>1. stage = 24
      BY StageStep DEF IInv
    <3>2. pc \in {"ready", "failed"}
      BY <3>1, StageStep DEF IInv
    <3> QED
      BY <3>2 DEF LostOK, at
  <2> HIDE DEF Inv, From
  <2> QED
    BY <1>1, <2>1, PTL DEF Spec
<1>6. Fair => (Comes(0) => Comes(24))
  <2> HIDE DEF Fair, Comes
  <2>1. Fair => \A k \in 0 .. 23 : Comes(k) => Comes(k + 1)
    BY <1>2
  <2>2. Fair => (Comes(0) => Comes(8))
    BY <2>1
  <2>3. Fair => (Comes(8) => Comes(16))
    BY <2>1
  <2>4. Fair => (Comes(16) => Comes(24))
    BY <2>1
  <2> QED
    BY <2>2, <2>3, <2>4
<1>7. <>[]Fine \/ []<>at("down") \/ <>(~NoTableMissing)
  BY PTL DEF Fine
<1> QED
  BY <1>3, <1>4, <1>5, <1>6, <1>7, PTL DEF StartEnds
=============================================================================
