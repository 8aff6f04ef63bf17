------------------------- MODULE UserAccountsProofs -------------------------
(***************************************************************************)
(* Proofs about UserAccounts, for any sets of requests, names, e-mails and *)
(* roles.                                                                  *)
(***************************************************************************)
EXTENDS UserAccounts, WellFoundedInduction, FiniteSetTheorems, TLAPS

(***************************************************************************)
(* The inductive invariant.                                                *)
(***************************************************************************)

kind(r) == req[r].kind
sets(r) == kind(r) \in {"create", "edit"}

\* A place in a handler belongs to requests of a kind, and tells what it found.
PlaceOK(r) ==
    /\ pc[r] = "idle" <=> req[r] = Nil
    /\ pc[r] = "perm" => kind(r) \in {"create", "edit", "delete"}
    /\ pc[r] = "self" => kind(r) = "edit"
    /\ pc[r] = "byId" => kind(r) \in {"edit", "delete"}
    /\ pc[r] \in {"name", "select"} => kind(r) \in {"register", "create", "edit"}
    /\ pc[r] = "email" => sets(r)
    /\ pc[r] = "insert" => kind(r) \in {"register", "create"}
    /\ pc[r] = "update" => kind(r) = "edit"
    /\ pc[r] = "delete" => kind(r) = "delete"
    /\ pc[r] \in {"find", "read", "adding", "removing"} => sets(r)
    /\ pc[r] \in {"hash", "check", "again"} => kind(r) = "login"
    /\ pc[r] \in {"idle", "perm", "self", "byId"} => uid[r] = Nil
    /\ pc[r] \in {"name", "email", "insert", "select"} /\ kind(r) # "edit" => uid[r] = Nil
    /\ pc[r] # "idle" /\ kind(r) = "edit" => uid[r] \in {Nil, req[r].id}

\* The roles that are queued, or were read.
QueueOK(r) ==
    /\ adds[r] # {} => pc[r] \in {"adding", "error"} /\ sets(r)
    /\ dels[r] # {} => pc[r] = "removing"
    /\ pc[r] # "idle" => dels[r] \cap req[r].target = {}
    /\ pc[r] = "removing" => adds[r] = {}
    /\ orig[r] # {} => /\ pc[r] \in {"adding", "removing", "ok", "error", "lost"}
                       /\ uid[r] \in Nat /\ uid[r] <= seq

PlacesOK == \A r \in Requests : PlaceOK(r) /\ QueueOK(r)

\* A request that ended before another was received does nothing any more.
BeforeOK ==
    \A r, s \in Requests :
        s \in before[r] => pc[s] \in Ended /\ adds[s] = {}

RowsOK ==
    /\ \A u \in users : u.id <= seq
    /\ RowsRefer

\* A handler that goes on with a name found it, and finds it again unless its user lost
\* it; a login that found roles finds some again unless they, or the name, were lost.
NamesOK ==
    \A r \in Requests :
        /\ pc[r] = "select" /\ kind(r) # "edit" =>
              "name" \in losses[r] \/ byName(req[r].name) # {}
        /\ pc[r] = "again" =>
              "name" \in losses[r] \/ "role" \in losses[r] \/ rolesOfName(req[r].name) # {}
        /\ pc[r] = "threw" =>
              "name" \in losses[r] \/ (kind(r) = "login" /\ "role" \in losses[r])

\* The edits whose user has no other setter under way.
isAlone(r) ==
    /\ req[r] # Nil /\ kind(r) = "edit"
    /\ uid[r] # Nil /\ byId(uid[r]) # {}
    /\ orig[r] # {} /\ req[r].target # {}
    /\ \A t \in Setters(uid[r]) \ {r} : t \in before[r]

\* They remove nothing before they have added what they should.
Kept(r) ==
    LET now == rolesOf(uid[r])
    IN  /\ pc[r] = "adding" => orig[r] \subseteq now /\ req[r].target \ adds[r] \subseteq now
        /\ pc[r] \in {"removing", "ok"} => req[r].target \subseteq now
        /\ pc[r] \in {"error", "lost"} =>
              \/ orig[r] \subseteq now
              \/ req[r].target \subseteq now /\ adds[r] = {}

KeptOK == \A r \in Requests : isAlone(r) => Kept(r)

\* Why two users may share an e-mail.
excuses(e, r, s) ==
    /\ req[r] # Nil /\ req[r].email = e
    /\ req[s] # Nil /\ req[s].email = e
    /\ \/ kind(r) = "register"
       \/ overlap(r, s) /\ sets(r) /\ sets(s)

Excused(e) == \E r, s \in Requests : excuses(e, r, s)

EmailsOK ==
    /\ \A u, v \in users : u # v /\ u.email = v.email => Excused(u.email)
    /\ \A r \in Requests, u \in users :
          /\ pc[r] \in {"insert", "update"} /\ sets(r)
          /\ u.email = req[r].email /\ u.id # uid[r]
          => Excused(u.email)

IInv == TypeOK /\ PlacesOK /\ BeforeOK /\ RowsOK /\ NamesOK /\ KeptOK /\ EmailsOK

(***************************************************************************)
(* Requests.                                                               *)
(***************************************************************************)

LEMMA RequestFields ==
    ASSUME NEW q \in Request
    PROVE  /\ q # Nil
           /\ q.kind \in Kinds /\ q.target \subseteq RoleArgs
           /\ q.kind \in {"edit", "delete"} => q.id \in Nat /\ q.id # Nil
           /\ q.kind # "delete" => q.name \in Names
           /\ q.kind \in {"register", "create", "edit"} => q.email \in Emails
<1>1. q \in [kind : Kinds, id : Ids \cup {Nil}, name : Names \cup {Nil},
             email : Emails \cup {Nil}, target : SUBSET RoleArgs]
  BY DEF Request
<1>2. /\ q.id = Nil    <=> q.kind \notin {"edit", "delete"}
      /\ q.name = Nil  <=> q.kind = "delete"
      /\ q.email = Nil <=> q.kind \in {"delete", "login"}
  BY DEF Request
<1>3. Ids \subseteq Nat
  BY ConstantsAssumption DEF Ids
<1> QED
  BY <1>1, <1>2, <1>3, NilAssumption

LEMMA RenamedRequest ==
    ASSUME NEW q \in Request, q.kind = "edit", NEW n \in Names
    PROVE  LET p == [q EXCEPT !.name = n]
           IN  /\ p \in Request
               /\ p.kind = q.kind /\ p.id = q.id /\ p.email = q.email /\ p.target = q.target
<1> DEFINE p == [q EXCEPT !.name = n]
           All == [kind : Kinds, id : Ids \cup {Nil}, name : Names \cup {Nil},
                   email : Emails \cup {Nil}, target : SUBSET RoleArgs]
<1>1. q \in All /\ p \in All
  BY DEF Request
<1>2. p.kind = q.kind /\ p.id = q.id /\ p.email = q.email /\ p.target = q.target /\ p.name = n
  BY <1>1
<1>3. n # Nil
  BY NilAssumption
<1> HIDE DEF p
<1>4. p \in Request
  BY <1>1, <1>2, <1>3 DEF Request
<1> QED
  BY <1>2, <1>4 DEF p

\* ReadSelf changes at most the name of the request.
LEMMA SelfRenamed ==
    ASSUME TypeOK, PlacesOK, NEW r \in Requests, ReadSelf(r)
    PROVE  /\ req'[r] \in Request
           /\ req' = [req EXCEPT ![r] = req'[r]]
           /\ req'[r].kind = req[r].kind /\ req'[r].id = req[r].id
           /\ req'[r].email = req[r].email /\ req'[r].target = req[r].target
<1>1. req[r] \in Request /\ req[r].kind = "edit"
  BY DEF ReadSelf, at, PlacesOK, PlaceOK, kind, TypeOK
<1>2. req[r] \in [kind : Kinds, id : Ids \cup {Nil}, name : Names \cup {Nil},
                 email : Emails \cup {Nil}, target : SUBSET RoleArgs]
  BY <1>1 DEF Request
<1>3. [req[r] EXCEPT !.name = req[r].name] = req[r]
  BY <1>2
<1>4. PICK n \in {Boss, req[r].name} : req' = [req EXCEPT ![r] = [req[r] EXCEPT !.name = n]]
  BY DEF ReadSelf, TypeOK
<1>5. n \in Names
  BY <1>1, <1>4, RequestFields, ConstantsAssumption
<1>6. req'[r] = [req[r] EXCEPT !.name = n]
  BY <1>4 DEF TypeOK
<1>7. req' = [req EXCEPT ![r] = req'[r]]
  BY <1>4, <1>6
<1> QED
  BY <1>1, <1>5, <1>6, <1>7, RenamedRequest

(***************************************************************************)
(* What a step of a request leaves to the others.                          *)
(***************************************************************************)

Untouched(s) ==
    /\ req'[s] = req[s] /\ uid'[s] = uid[s] /\ orig'[s] = orig[s] /\ before'[s] = before[s]
    /\ \/ pc'[s] = pc[s] /\ adds'[s] = adds[s] /\ dels'[s] = dels[s]
       \/ /\ pc'[s] = IF isRunning(s) THEN "lost" ELSE pc[s]
          /\ adds'[s] = {} /\ dels'[s] = {}

\* What AddRole does of a role.
Added(r, role) ==
    /\ adds' = [adds EXCEPT ![r] = adds[r] \ {role}]
    /\ isInsertable(r, role) =>
          /\ userRoles' = userRoles \cup {<<uid[r], role>>}
          /\ pc[r] = "adding" => goto(r, afterAdds(adds[r] \ {role}, orig[r] \ req[r].target))
          /\ pc[r] # "adding" => UNCHANGED pc
          /\ dels' = [dels EXCEPT ![r] = IF adds[r] \ {role} = {} /\ pc[r] = "adding"
                                           THEN orig[r] \ req[r].target ELSE {}]
    /\ ~isInsertable(r, role) => goto(r, "error") /\ UNCHANGED <<userRoles, dels>>
    /\ UNCHANGED <<users, seq, losses, local>>

LEMMA AddsRole ==
    ASSUME NEW r \in Requests, AddRole(r)
    PROVE  \E role \in adds[r] : Added(r, role)
BY DEF AddRole, Added

LEMMA OthersUntouched ==
    ASSUME TypeOK, NEW r \in Requests, NEW s \in Requests, s # r, Receive(r) \/ Handle(r)
    PROVE  Untouched(s) /\ seq' \in {seq, seq + 1}
<1> USE DEF Untouched, TypeOK, reads, goto, local
<1>1. CASE Receive(r)
  <2>1. PICK q \in Request : req' = [req EXCEPT ![r] = q]
    BY <1>1 DEF Receive
  <2> QED
    BY <1>1, <2>1 DEF Receive
<1>2. CASE CheckPerm(r)
  BY <1>2 DEF CheckPerm
<1>3. CASE ReadSelf(r)
  BY <1>3 DEF ReadSelf
<1>4. CASE ReadById(r)
  BY <1>4 DEF ReadById
<1>5. CASE CheckName(r) \/ CheckEmail(r)
  BY <1>5 DEF CheckName, CheckEmail
<1>6. CASE Insert(r)
  BY <1>6 DEF Insert
<1>7. CASE Update(r)
  BY <1>7 DEF Update
<1>8. CASE Select(r)
  <2>1. CASE byName(req[r].name) = {} /\ kind(r) # "edit"
    BY <1>8, <2>1 DEF Select, throws, kind
  <2>2. CASE byName(req[r].name) # {} \/ kind(r) = "edit"
    BY <1>8, <2>2 DEF Select, kind
  <2> QED
    BY <2>1, <2>2
<1>9. CASE Delete(r)
  BY <1>9 DEF Delete
<1>10. CASE FindUser(r) \/ GetHash(r) \/ CheckRoles(r)
  BY <1>10 DEF FindUser, GetHash, CheckRoles
<1>11. CASE ReadRoles(r)
  BY <1>11 DEF ReadRoles
<1>12. CASE AddRole(r)
  <2>1. PICK role \in adds[r] : Added(r, role)
    BY <1>12, AddsRole
  <2> QED
    BY <2>1 DEF Added
<1>13. CASE RemoveRole(r)
  BY <1>13 DEF RemoveRole
<1>14. CASE ReadAgain(r)
  BY <1>14 DEF ReadAgain, throws
<1> QED
  BY <1>1, <1>2, <1>3, <1>4, <1>5, <1>6, <1>7, <1>8, <1>9, <1>10, <1>11, <1>12, <1>13, <1>14
     DEF Handle

(***************************************************************************)
(* Types.                                                                  *)
(***************************************************************************)

LEMMA TypeInit == Init => TypeOK
<1> SUFFICES ASSUME Init PROVE TypeOK
  OBVIOUS
<1>1. PICK n \in Names, e \in Emails, f \in Emails :
         users = {[id |-> 1, name |-> Boss, email |-> e], [id |-> 2, name |-> n, email |-> f]}
  BY DEF Init
<1>2. users \in SUBSET User
  BY <1>1, ConstantsAssumption DEF User
<1>3. userRoles \in SUBSET (Nat \X Roles)
  BY ConstantsAssumption DEF Init
<1> QED
  BY <1>2, <1>3 DEF Init, TypeOK, PC

\* The roles that are read are rows of the table Roles.
LEMMA RolesOfRows ==
    ASSUME TypeOK, NEW i, NEW role
    PROVE  role \in rolesOf(i) <=> <<i, role>> \in userRoles
<1>1. ASSUME role \in rolesOf(i) PROVE <<i, role>> \in userRoles
  <2>1. PICK g \in userRoles : g[1] = i /\ g[2] = role
    BY <1>1 DEF rolesOf
  <2>2. g = <<g[1], g[2]>>
    BY <2>1 DEF TypeOK
  <2> QED
    BY <2>1, <2>2
<1>2. ASSUME <<i, role>> \in userRoles PROVE role \in rolesOf(i)
  BY <1>2 DEF rolesOf
<1> QED
  BY <1>1, <1>2

LEMMA RolesOfType ==
    ASSUME TypeOK, NEW i
    PROVE  rolesOf(i) \subseteq Roles
<1>1. ASSUME NEW role \in rolesOf(i) PROVE role \in Roles
  <2>1. <<i, role>> \in userRoles
    BY RolesOfRows
  <2>2. <<i, role>> \in Nat \X Roles
    BY <2>1 DEF TypeOK
  <2> QED
    BY <2>2
<1> QED
  BY <1>1

LEMMA LossesType ==
    ASSUME TypeOK, NEW ids, NEW what \in {"name", "role"}, loses(ids, what)
    PROVE  losses' \in [Requests -> SUBSET {"name", "role"}]
<1>1. ASSUME NEW r \in Requests PROVE losses[r] \in SUBSET {"name", "role"}
  BY DEF TypeOK
<1> QED
  BY <1>1 DEF loses

LEMMA TypeStep == TypeOK /\ PlacesOK /\ [Next]_vars => TypeOK'
<1> SUFFICES ASSUME TypeOK, PlacesOK, [Next]_vars PROVE TypeOK'
  OBVIOUS
<1>1. CASE UNCHANGED vars
  BY <1>1 DEF vars, local, TypeOK
<1>2. ASSUME NEW r \in Requests, Receive(r) \/ Handle(r) PROVE TypeOK'
  <2> USE <1>2
  <2>0. pc[r] # "idle" => /\ req[r] \in Request
                          /\ kind(r) # "delete" => req[r].name \in Names
                          /\ kind(r) \in {"edit", "delete"} => req[r].id \in Nat
                          /\ kind(r) \in {"register", "create", "edit"} => req[r].email \in Emails
                          /\ req[r].target \subseteq RoleArgs
    BY RequestFields DEF PlacesOK, PlaceOK, TypeOK, kind
  <2>00. PlaceOK(r)
    BY DEF PlacesOK
  <2>1. CASE Receive(r)
    <3>1. PICK q \in Request :
            /\ req' = [req EXCEPT ![r] = q]
            /\ goto(r, CASE q.kind = "register" -> "name"
                         [] q.kind = "login"    -> "hash"
                         [] OTHER               -> "perm")
      BY <2>1 DEF Receive
    <3>2. pc' \in [Requests -> PC]
      BY <3>1 DEF goto, PC, TypeOK
    <3>3. req' \in [Requests -> Request \cup {Nil}]
      BY <3>1 DEF TypeOK
    <3>4. before' \in [Requests -> SUBSET Requests]
      BY <2>1 DEF Receive, TypeOK
    <3> QED
      BY <2>1, <3>2, <3>3, <3>4 DEF Receive, TypeOK
  <2>2. CASE CheckPerm(r)
    BY <2>2 DEF CheckPerm, TypeOK, reads, goto, local, PC, Answers
  <2>3. CASE ReadSelf(r)
    <3>2. req' \in [Requests -> Request \cup {Nil}]
      BY <2>3, SelfRenamed DEF TypeOK
    <3> QED
      BY <2>3, <3>2 DEF ReadSelf, TypeOK, reads, goto, PC, Answers
  <2>4. CASE ReadById(r)
    <3>1. req[r].id \in Nat
      BY <2>0, <2>00, <2>4 DEF ReadById, at, PlaceOK, kind
    <3> QED
      BY <2>4, <3>1 DEF ReadById, TypeOK, reads, goto, PC, Answers
  <2>5. CASE CheckName(r) \/ CheckEmail(r)
    BY <2>5 DEF CheckName, CheckEmail, refusal, TypeOK, reads, goto, local, PC, Answers
  <2>6. CASE Insert(r)
    <3>1. [id |-> seq + 1, name |-> req[r].name, email |-> req[r].email] \in User
      BY <2>0, <2>00, <2>6 DEF Insert, at, PlaceOK, kind, User, TypeOK
    <3>2. users' \in SUBSET User /\ seq' \in Nat
      BY <2>6, <3>1 DEF Insert, reads, TypeOK
    <3> QED
      BY <2>6, <3>2 DEF Insert, TypeOK, reads, goto, local, PC, Answers
  <2>7. CASE Update(r)
    <3>1. users' \in SUBSET User
      <4>1. CASE UNCHANGED users
        BY <4>1 DEF TypeOK
      <4>2. CASE users' = {IF u.id = req[r].id THEN [u EXCEPT !.name = req[r].name, !.email = req[r].email]
                           ELSE u : u \in users}
        <5>1. req[r].name \in Names /\ req[r].email \in Emails
          BY <2>0, <2>00, <2>7 DEF Update, at, PlaceOK, kind
        <5>2. ASSUME NEW u \in users
              PROVE  [u EXCEPT !.name = req[r].name, !.email = req[r].email] \in User
          BY <5>1 DEF User, TypeOK
        <5> QED
          BY <4>2, <5>2 DEF TypeOK
      <4> QED
        BY <2>7, <4>1, <4>2 DEF Update, reads
    <3>2. losses' \in [Requests -> SUBSET {"name", "role"}]
      BY <2>7, LossesType DEF Update, reads, TypeOK
    <3> QED
      BY <2>7, <3>1, <3>2 DEF Update, TypeOK, reads, goto, local, PC, Answers
  <2>8. CASE Select(r)
    <3>1. CASE byName(req[r].name) = {} /\ req[r].kind = "edit"
      BY <2>8, <3>1 DEF Select, TypeOK, reads, goto, PC, Answers
    <3>2. CASE byName(req[r].name) = {} /\ req[r].kind # "edit"
      BY <2>8, <3>2 DEF Select, TypeOK, throws, PC, Answers
    <3>3. CASE byName(req[r].name) # {}
      <4> DEFINE i == CHOOSE i \in {u.id : u \in byName(req[r].name)} : TRUE
      <4>1. i \in Nat
        BY <3>3 DEF byName, TypeOK, User
      <4>2. req[r].kind = "edit" => req[r].id \in Nat
        BY <2>0, <2>8 DEF Select, at, kind
      <4>3. uid' = [uid EXCEPT ![r] = IF req[r].kind = "edit" THEN req[r].id ELSE i]
        BY <2>8, <3>3 DEF Select
      <4>4. uid' \in [Requests -> Nat \cup {Nil}]
        BY <4>1, <4>2, <4>3 DEF TypeOK
      <4> QED
        BY <2>8, <3>3, <4>4 DEF Select, TypeOK, reads, goto, PC, Answers
    <3> QED
      BY <3>1, <3>2, <3>3
  <2>9. CASE Delete(r)
    BY <2>9 DEF Delete, TypeOK, loses, isRunning, goto, local, PC, Answers
  <2>10. CASE FindUser(r) \/ GetHash(r) \/ CheckRoles(r)
    BY <2>10 DEF FindUser, GetHash, CheckRoles, TypeOK, reads, goto, local, PC, Answers
  <2>11. CASE ReadRoles(r)
    <3>1. rolesOf(uid[r]) \subseteq Roles
      BY RolesOfType
    <3>2. req[r].target \subseteq RoleArgs
      BY <2>0, <2>11 DEF ReadRoles, at
    <3> QED
      BY <2>11, <3>1, <3>2 DEF ReadRoles, afterAdds, TypeOK, goto, PC, Answers
  <2>12. CASE AddRole(r)
    <3>1. PICK role \in adds[r] : Added(r, role)
      BY <2>12, AddsRole
    <3>2. isInsertable(r, role) => uid[r] \in Nat /\ role \in Roles
      BY DEF isInsertable, byId, TypeOK, User
    <3>3. userRoles' \in SUBSET (Nat \X Roles)
      BY <3>1, <3>2 DEF Added, TypeOK
    <3>4. pc' \in [Requests -> PC]
      BY <3>1 DEF Added, TypeOK, goto, afterAdds, PC, Answers
    <3>5. dels' \in [Requests -> SUBSET Roles] /\ adds' \in [Requests -> SUBSET RoleArgs]
      BY <3>1 DEF Added, TypeOK
    <3> QED
      BY <3>1, <3>3, <3>4, <3>5 DEF Added, TypeOK, local
  <2>13. CASE RemoveRole(r)
    <3>1. PICK role \in dels[r] :
            /\ dels' = [dels EXCEPT ![r] = @ \ {role}]
            /\ userRoles' = userRoles \ {<<uid[r], role>>}
            /\ loses({ur[1] : ur \in {<<uid[r], role>>} \cap userRoles}, "role")
            /\ IF dels[r] = {role} THEN goto(r, "ok") ELSE UNCHANGED pc
      BY <2>13 DEF RemoveRole
    <3>2. losses' \in [Requests -> SUBSET {"name", "role"}]
      BY <3>1, LossesType
    <3>3. pc' \in [Requests -> PC] /\ dels' \in [Requests -> SUBSET Roles]
      BY <3>1 DEF TypeOK, goto, PC, Answers
    <3> QED
      BY <2>13, <3>1, <3>2, <3>3 DEF RemoveRole, TypeOK, local
  <2>14. CASE ReadAgain(r)
    BY <2>14 DEF ReadAgain, throws, TypeOK, reads, goto, local, PC, Answers
  <2> QED
    BY <2>1, <2>2, <2>3, <2>4, <2>5, <2>6, <2>7, <2>8, <2>9, <2>10, <2>11, <2>12, <2>13, <2>14
       DEF Handle
<1> QED
  BY <1>1, <1>2 DEF Next

(***************************************************************************)
(* Places and queues.                                                      *)
(***************************************************************************)

LEMMA OthersPlace ==
    ASSUME TypeOK, PlacesOK, NEW r \in Requests, NEW s \in Requests, s # r,
           Receive(r) \/ Handle(r)
    PROVE  PlaceOK(s)' /\ QueueOK(s)'
<1>1. Untouched(s) /\ seq' \in {seq, seq + 1}
  BY OthersUntouched
<1>2. PlaceOK(s) /\ QueueOK(s)
  BY DEF PlacesOK
<1>3. PlaceOK(s)'
  BY <1>1, <1>2 DEF Untouched, PlaceOK, QueueOK, kind, sets, isRunning, Ended, Answers
<1>4. QueueOK(s)'
  BY <1>1, <1>2 DEF Untouched, PlaceOK, QueueOK, kind, sets, isRunning, Ended, Answers, TypeOK
<1> QED
  BY <1>3, <1>4

LEMMA Afterwards ==
    ASSUME NEW toAdd, NEW toDrop
    PROVE  /\ toAdd # {} => afterAdds(toAdd, toDrop) = "adding"
           /\ toAdd = {} => afterAdds(toAdd, toDrop) = IF toDrop # {} THEN "removing" ELSE "ok"
BY DEF afterAdds

LEMMA OwnPlace ==
    ASSUME TypeOK, PlacesOK, RowsOK, NEW r \in Requests, Receive(r) \/ Handle(r)
    PROVE  PlaceOK(r)' /\ QueueOK(r)'
<1>0. PlaceOK(r) /\ QueueOK(r)
  BY DEF PlacesOK
<1>00. pc[r] # "idle" => req[r] # Nil /\ req[r] \in Request
  BY <1>0 DEF PlaceOK, TypeOK
<1> USE <1>0, <1>00 DEF PlaceOK, QueueOK, kind, sets, at
<1>1. CASE Receive(r)
  <2>1. PICK q \in Request :
          /\ req' = [req EXCEPT ![r] = q]
          /\ goto(r, CASE q.kind = "register" -> "name"
                       [] q.kind = "login"    -> "hash"
                       [] OTHER               -> "perm")
    BY <1>1 DEF Receive
  <2>2. q # Nil /\ q.kind \in {"create", "edit", "delete", "register", "login"}
    BY RequestFields, ConstantsAssumption DEF AllKinds
  <2>3. req'[r] = q /\ (q.kind \in {"create", "edit", "delete"} => pc'[r] = "perm")
        /\ (q.kind = "register" => pc'[r] = "name") /\ (q.kind = "login" => pc'[r] = "hash")
    BY <2>1, <2>2 DEF goto, TypeOK
  <2>4. uid'[r] = uid[r] /\ orig'[r] = orig[r] /\ adds'[r] = adds[r] /\ dels'[r] = dels[r]
        /\ pc[r] = "idle"
    BY <1>1 DEF Receive
  <2> QED
    BY <2>2, <2>3, <2>4
<1>2. CASE CheckPerm(r)
  BY <1>2 DEF CheckPerm, reads, goto, local, TypeOK
<1>3. CASE ReadSelf(r)
  <2>1. req'[r] # Nil /\ req'[r].kind = req[r].kind /\ req'[r].id = req[r].id
        /\ req'[r].target = req[r].target
    BY <1>3, SelfRenamed, NilAssumption
  <2> QED
    BY <1>3, <2>1 DEF ReadSelf, reads, goto, TypeOK
<1>4. CASE ReadById(r)
  BY <1>4 DEF ReadById, reads, goto, TypeOK
<1>5. CASE CheckName(r)
  BY <1>5 DEF CheckName, refusal, reads, goto, local, TypeOK
<1>6. CASE CheckEmail(r)
  BY <1>6 DEF CheckEmail, refusal, reads, goto, local, TypeOK
<1>7. CASE Insert(r)
  BY <1>7 DEF Insert, reads, goto, local, TypeOK
<1>8. CASE Update(r)
  BY <1>8 DEF Update, reads, goto, local, TypeOK
<1>9. CASE Select(r)
  <2>1. orig[r] = {} /\ adds[r] = {} /\ dels[r] = {}
    BY <1>9 DEF Select
  <2>2. /\ req' = req /\ orig' = orig
        /\ adds'[r] = {} /\ dels'[r] = {}
        /\ pc'[r] \in {"error", "threw", "ok", "find"}
        /\ pc'[r] = "find" => kind(r) # "register"
        /\ kind(r) = "edit" => uid'[r] \in {uid[r], req[r].id}
    BY <1>9, <2>1 DEF Select, throws, reads, goto, TypeOK
  <2> QED
    BY <1>9, <2>1, <2>2 DEF Select
<1>10. CASE Delete(r)
  BY <1>10 DEF Delete, goto, local, TypeOK
<1>11. CASE FindUser(r)
  BY <1>11 DEF FindUser, reads, goto, local, TypeOK
<1>12. CASE ReadRoles(r)
  <2> DEFINE had == rolesOf(uid[r])
             target == req[r].target
  <2>1. had # {} => uid[r] \in Nat /\ uid[r] <= seq
    <3>1. ASSUME NEW role \in had PROVE uid[r] \in Nat /\ uid[r] <= seq
      <4>1. <<uid[r], role>> \in userRoles
        BY RolesOfRows
      <4>2. byId(<<uid[r], role>>[1]) # {}
        BY <4>1 DEF RowsOK, RowsRefer
      <4> QED
        BY <4>2 DEF byId, RowsOK, TypeOK, User
    <3> QED
      BY <3>1
  <2>2. /\ orig'[r] = had /\ adds'[r] = target \ had
        /\ dels'[r] = IF target \subseteq had THEN had \ target ELSE {}
        /\ pc'[r] = afterAdds(target \ had, had \ target)
        /\ UNCHANGED <<seq, req, uid>>
    BY <1>12 DEF ReadRoles, goto, TypeOK
  <2>3. sets(r) /\ req[r] # Nil
    BY <1>12 DEF ReadRoles
  <2> HIDE DEF had
  <2>4. PlaceOK(r)'
    BY <1>12, <2>2, <2>3 DEF ReadRoles, afterAdds
  <2>5. /\ adds'[r] # {} => pc'[r] = "adding"
        /\ dels'[r] # {} => pc'[r] = "removing" /\ adds'[r] = {}
        /\ dels'[r] \cap target = {}
        /\ pc'[r] \in {"adding", "removing", "ok"}
        /\ pc'[r] = "removing" => adds'[r] = {}
    <3>1. CASE target \ had # {}
      <4>1. pc'[r] = "adding"
        BY <2>2, <3>1, Afterwards
      <4>2. dels'[r] = {}
        BY <2>2, <3>1
      <4> QED
        BY <4>1, <4>2
    <3>2. CASE target \ had = {}
      <4>1. target \subseteq had
        BY <3>2
      <4>2. dels'[r] = had \ target /\ adds'[r] = {}
        BY <2>2, <3>2, <4>1
      <4>3. pc'[r] = IF had \ target # {} THEN "removing" ELSE "ok"
        BY <2>2, <3>2, Afterwards
      <4>4. dels'[r] \cap target = {}
        BY <4>2
      <4> QED
        BY <4>2, <4>3, <4>4
    <3> QED
      BY <3>1, <3>2
  <2>6. QueueOK(r)'
    BY <2>1, <2>2, <2>3, <2>5
  <2> QED
    BY <2>4, <2>6
<1>13. CASE AddRole(r)
  <2>1. PICK role \in adds[r] : Added(r, role)
    BY <1>13, AddsRole
  <2>2. UNCHANGED <<seq, req, uid, orig>> /\ adds'[r] = adds[r] \ {role}
    BY <2>1 DEF Added, local, TypeOK
  <2>3. \/ dels'[r] = dels[r] /\ pc'[r] = "error"
        \/ dels'[r] = {} /\ pc'[r] = "error" /\ pc[r] = "error"
        \/ /\ pc[r] = "adding" /\ pc'[r] = afterAdds(adds[r] \ {role}, orig[r] \ req[r].target)
           /\ dels'[r] = IF adds[r] \ {role} = {} THEN orig[r] \ req[r].target ELSE {}
    BY <2>1 DEF Added, goto, TypeOK
  <2>4. PlaceOK(r)'
    BY <2>1, <2>2, <2>3 DEF afterAdds
  <2>5. /\ adds'[r] # {} => pc'[r] \in {"adding", "error"}
        /\ dels'[r] # {} => pc'[r] = "removing" /\ adds'[r] = {}
        /\ dels'[r] \cap req[r].target = {}
        /\ pc'[r] \in {"adding", "removing", "ok", "error"}
        /\ pc'[r] = "removing" => adds'[r] = {}
    <3>1. pc[r] \in {"adding", "error"} /\ dels[r] = {}
      BY <2>1
    <3>2. CASE dels'[r] = {} /\ pc'[r] = "error"
      BY <3>2
    <3>3. CASE /\ pc'[r] = afterAdds(adds[r] \ {role}, orig[r] \ req[r].target)
               /\ dels'[r] = IF adds[r] \ {role} = {} THEN orig[r] \ req[r].target ELSE {}
      <4>1. CASE adds[r] \ {role} # {}
        <5>1. pc'[r] = "adding"
          BY <3>3, <4>1, Afterwards
        <5>2. dels'[r] = {}
          BY <3>3, <4>1
        <5> QED
          BY <5>1, <5>2
      <4>2. CASE adds[r] \ {role} = {}
        <5>1. dels'[r] = orig[r] \ req[r].target /\ adds'[r] = {}
          BY <2>2, <3>3, <4>2
        <5>2. pc'[r] = IF orig[r] \ req[r].target # {} THEN "removing" ELSE "ok"
          BY <3>3, <4>2, Afterwards
        <5>3. dels'[r] \cap req[r].target = {}
          BY <5>1
        <5> QED
          BY <5>1, <5>2, <5>3
      <4> QED
        BY <4>1, <4>2
    <3> QED
      BY <2>3, <3>1, <3>2, <3>3
  <2>6. QueueOK(r)'
    BY <2>1, <2>2, <2>5
  <2> QED
    BY <2>4, <2>6
<1>14. CASE RemoveRole(r)
  BY <1>14 DEF RemoveRole, goto, local, TypeOK
<1>15. CASE GetHash(r) \/ CheckRoles(r)
  BY <1>15 DEF GetHash, CheckRoles, reads, goto, local, TypeOK
<1>16. CASE ReadAgain(r)
  BY <1>16 DEF ReadAgain, throws, reads, goto, local, TypeOK
<1> QED
  BY <1>1, <1>2, <1>3, <1>4, <1>5, <1>6, <1>7, <1>8, <1>9, <1>10, <1>11, <1>12, <1>13, <1>14,
     <1>15, <1>16 DEF Handle

LEMMA PlacesStep ==
    ASSUME TypeOK, PlacesOK, RowsOK, NEW r \in Requests, Receive(r) \/ Handle(r)
    PROVE  PlacesOK'
BY OthersPlace, OwnPlace DEF PlacesOK

(***************************************************************************)
(* Rows.                                                                   *)
(***************************************************************************)

\* The requests that read change no row.
LEMMA Readers ==
    ASSUME NEW r \in Requests, Receive(r) \/ Handle(r),
           ~Insert(r), ~Update(r), ~Delete(r), ~AddRole(r), ~RemoveRole(r)
    PROVE  UNCHANGED <<users, seq, userRoles, losses>>
<1> USE DEF reads
<1>1. CASE Receive(r) \/ ReadRoles(r)
  BY <1>1 DEF Receive, ReadRoles
<1>2. CASE CheckPerm(r) \/ ReadSelf(r) \/ ReadById(r) \/ CheckName(r) \/ CheckEmail(r)
  BY <1>2 DEF CheckPerm, ReadSelf, ReadById, CheckName, CheckEmail
<1>3. CASE FindUser(r) \/ GetHash(r) \/ CheckRoles(r) \/ ReadAgain(r)
  BY <1>3 DEF FindUser, GetHash, CheckRoles, ReadAgain, throws
<1>4. CASE Select(r)
  BY <1>4 DEF Select, throws
<1> QED
  BY <1>1, <1>2, <1>3, <1>4 DEF Handle

\* An identifier that is given is new.
LEMMA InsertRow ==
    ASSUME TypeOK, NEW r \in Requests, Insert(r)
    PROVE  /\ \/ UNCHANGED <<users, seq>>
              \/ \E u : /\ u.id = seq + 1 /\ u.name = req[r].name /\ u.email = req[r].email
                        /\ users' = users \cup {u} /\ seq' = seq + 1
                        /\ byName(req[r].name) = {} /\ pc'[r] = "select"
           /\ UNCHANGED <<userRoles, losses, local, adds, dels>>
<1> DEFINE u == [id |-> seq + 1, name |-> req[r].name, email |-> req[r].email]
<1>1. UNCHANGED <<userRoles, losses, local, adds, dels>>
  BY DEF Insert, reads
<1>2. CASE byName(req[r].name) # {}
  BY <1>1, <1>2 DEF Insert, reads
<1>3. CASE byName(req[r].name) = {}
  <2>1. users' = users \cup {u} /\ seq' = seq + 1 /\ pc'[r] = "select"
    BY <1>3 DEF Insert, goto, TypeOK
  <2>2. u.id = seq + 1 /\ u.name = req[r].name /\ u.email = req[r].email
    OBVIOUS
  <2> HIDE DEF u
  <2> QED
    BY <1>1, <1>3, <2>1, <2>2
<1> QED
  BY <1>2, <1>3

\* An update changes the name and the e-mail of one user at most.
LEMMA UpdateRow ==
    ASSUME TypeOK, NEW r \in Requests, Update(r)
    PROVE  /\ \/ UNCHANGED <<users, losses>>
              \/ /\ \A u \in byName(req[r].name) : u.id = req[r].id \/ byId(req[r].id) = {}
                 /\ \A v \in users' : \E u \in users :
                       /\ v.id = u.id
                       /\ u.id # req[r].id => v = u
                       /\ u.id = req[r].id => v.name = req[r].name /\ v.email = req[r].email
                 /\ \A u \in users : \E v \in users' :
                       /\ v.id = u.id
                       /\ u.id # req[r].id => v = u
                       /\ u.id = req[r].id => v.name = req[r].name /\ v.email = req[r].email
                 /\ loses({u.id : u \in {v \in byId(req[r].id) : v.name # req[r].name}}, "name")
                 /\ pc'[r] = "select"
           /\ UNCHANGED <<seq, userRoles, adds, dels, local>>
<1> DEFINE q == req[r]
           new(u) == IF u.id = q.id THEN [u EXCEPT !.name = q.name, !.email = q.email] ELSE u
<1>1. UNCHANGED <<seq, userRoles, adds, dels, local>>
  BY DEF Update, reads
<1>2. CASE byId(q.id) # {} /\ \E u \in byName(q.name) : u.id # q.id
  BY <1>1, <1>2 DEF Update, reads
<1>3. CASE ~(byId(q.id) # {} /\ \E u \in byName(q.name) : u.id # q.id)
  <2>1. /\ users' = {new(u) : u \in users}
        /\ loses({u.id : u \in {v \in byId(q.id) : v.name # q.name}}, "name")
        /\ pc'[r] = "select"
    BY <1>3 DEF Update, goto, TypeOK
  <2>2. ASSUME NEW u \in users
        PROVE  /\ new(u).id = u.id
               /\ u.id # q.id => new(u) = u
               /\ u.id = q.id => new(u).name = q.name /\ new(u).email = q.email
    BY DEF TypeOK, User
  <2> HIDE DEF new
  <2> QED
    BY <1>1, <1>3, <2>1, <2>2
<1> QED
  BY <1>2, <1>3

LEMMA RowsStep ==
    ASSUME TypeOK, TypeOK', RowsOK, NEW r \in Requests, Receive(r) \/ Handle(r)
    PROVE  RowsOK'
<1> USE DEF RowsOK, RowsRefer, byId
<1>1. CASE UNCHANGED <<users, seq, userRoles>>
  BY <1>1
<1>2. CASE Insert(r)
  <2>1. PICK u :
          /\ u.id = seq + 1 /\ u.name = req[r].name
          /\ users' = users \cup {u} /\ seq' = seq + 1
          /\ byName(req[r].name) = {}
        \/ UNCHANGED <<users, seq>>
    BY <1>2, InsertRow
  <2>2. UNCHANGED userRoles
    BY <1>2, InsertRow
  <2>3. CASE UNCHANGED <<users, seq>>
    BY <1>1, <2>2, <2>3
  <2>4. CASE /\ u.id = seq + 1 /\ u.name = req[r].name
             /\ users' = users \cup {u} /\ seq' = seq + 1
             /\ byName(req[r].name) = {}
    <3>1. ASSUME NEW v \in users PROVE v.id \in Nat /\ v.id <= seq /\ seq \in Nat /\ v.name # u.name
      BY <2>4 DEF TypeOK, User, byName
    <3>2. \A v \in users' : v.id <= seq'
      BY <2>4, <3>1 DEF TypeOK
    <3>3. ASSUME NEW ur \in userRoles' PROVE \E v \in users' : v.id = ur[1]
      BY <2>2, <2>4
    <3>4. ASSUME NEW v \in users', NEW w \in users', v # w PROVE v.id # w.id /\ v.name # w.name
      <4>1. CASE v \in users /\ w \in users
        BY <3>4, <4>1
      <4>2. CASE v \in users /\ w = u
        BY <2>4, <3>1, <4>2
      <4>3. CASE v = u /\ w \in users
        BY <2>4, <3>1, <4>3
      <4> QED
        BY <2>4, <3>4, <4>1, <4>2, <4>3
    <3> QED
      BY <3>2, <3>3, <3>4
  <2> QED
    BY <2>1, <2>3, <2>4
<1>3. CASE Update(r)
  <2>1. UNCHANGED <<seq, userRoles>>
    BY <1>3, UpdateRow
  <2>2. CASE UNCHANGED users
    BY <1>1, <2>1, <2>2
  <2>3. CASE ~ UNCHANGED users
    <3> DEFINE q == req[r]
               isNew(v, u) == /\ v.id = u.id
                              /\ u.id # q.id => v = u
                              /\ u.id = q.id => v.name = q.name /\ v.email = q.email
    <3>1. /\ \A u \in byName(q.name) : u.id = q.id \/ byId(q.id) = {}
          /\ \A v \in users' : \E u \in users : isNew(v, u)
          /\ \A u \in users : \E v \in users' : isNew(v, u)
      BY <1>3, <2>3, UpdateRow
    <3>2. \A v \in users' : v.id <= seq'
      BY <2>1, <3>1
    <3>3. ASSUME NEW ur \in userRoles' PROVE \E v \in users' : v.id = ur[1]
      BY <2>1, <3>1
    <3>4. ASSUME NEW v \in users', NEW w \in users', v # w PROVE v.id # w.id /\ v.name # w.name
      <4>1. PICK u1 \in users : isNew(v, u1)
        BY <3>1
      <4>2. PICK u2 \in users : isNew(w, u2)
        BY <3>1
      <4>3. v \in User /\ w \in User
        BY DEF TypeOK
      <4>4. u1 # u2
        <5>1. ASSUME u1 = u2 PROVE FALSE
          <6>1. v.id = w.id /\ v.name = w.name /\ v.email = w.email
            BY <4>1, <4>2, <5>1
          <6> QED
            BY <3>4, <4>3, <6>1 DEF User
        <5> QED
          BY <5>1
      <4>5. v.id # w.id
        BY <4>1, <4>2, <4>4
      <4>6. CASE u1.id # q.id /\ u2.id # q.id
        BY <4>1, <4>2, <4>4, <4>6
      <4>7. CASE u1.id = q.id /\ u2.id # q.id
        BY <3>1, <4>1, <4>2, <4>7 DEF byName
      <4>8. CASE u1.id # q.id /\ u2.id = q.id
        BY <3>1, <4>1, <4>2, <4>8 DEF byName
      <4> QED
        BY <4>1, <4>2, <4>5, <4>6, <4>7, <4>8
    <3> QED
      BY <3>2, <3>3, <3>4
  <2> QED
    BY <2>2, <2>3
<1>4. CASE Delete(r)
  <2>1. /\ users' = {u \in users : u.id # req[r].id}
        /\ userRoles' = {ur \in userRoles : ur[1] # req[r].id}
        /\ seq' = seq
    BY <1>4 DEF Delete
  <2> QED
    BY <2>1
<1>5. CASE AddRole(r)
  <2>1. PICK role \in adds[r] : Added(r, role)
    BY <1>5, AddsRole
  <2>2. UNCHANGED <<users, seq>> /\ (userRoles' = userRoles
          \/ (userRoles' = userRoles \cup {<<uid[r], role>>} /\ byId(uid[r]) # {}))
    BY <2>1 DEF Added, isInsertable
  <2> QED
    BY <2>2
<1>6. CASE RemoveRole(r)
  BY <1>6 DEF RemoveRole
<1> QED
  BY <1>1, <1>2, <1>3, <1>4, <1>5, <1>6, Readers

(***************************************************************************)
(* Requests that have ended, names that were lost.                         *)
(***************************************************************************)

LEMMA EndedStops ==
    ASSUME PlacesOK, NEW r \in Requests, pc[r] \in Ended, adds[r] = {}
    PROVE  ~Receive(r) /\ ~Handle(r)
<1>1. dels[r] = {}
  BY DEF PlacesOK, QueueOK, Ended, Answers
<1>2. ~AddRole(r) /\ ~RemoveRole(r) /\ ~Receive(r)
  BY <1>1 DEF AddRole, RemoveRole, Receive, at, Ended, Answers
<1> QED
  BY <1>2 DEF Handle, CheckPerm, ReadSelf, ReadById, CheckName, CheckEmail, Insert, Update, Select,
       Delete, FindUser, ReadRoles, GetHash, CheckRoles, ReadAgain, at, Ended, Answers

LEMMA BeforeUnchanged ==
    ASSUME NEW r \in Requests, Handle(r)
    PROVE  before' = before
<1>1. CASE AddRole(r) \/ RemoveRole(r)
  BY <1>1 DEF AddRole, RemoveRole, local
<1>2. CASE Insert(r) \/ Update(r) \/ Delete(r) \/ ReadRoles(r) \/ Select(r)
  BY <1>2 DEF Insert, Update, Delete, ReadRoles, Select, local
<1> QED
  BY <1>1, <1>2 DEF Handle, CheckPerm, ReadSelf, ReadById, CheckName, CheckEmail,
       FindUser, GetHash, CheckRoles, ReadAgain, local

LEMMA BeforeStep ==
    ASSUME TypeOK, PlacesOK, BeforeOK, NEW r \in Requests, Receive(r) \/ Handle(r)
    PROVE  BeforeOK'
<1>1. ASSUME NEW s \in Requests, pc[s] \in Ended, adds[s] = {}
      PROVE  pc'[s] \in Ended /\ adds'[s] = {}
  <2>1. s # r
    BY <1>1, EndedStops
  <2>2. Untouched(s)
    BY <2>1, OthersUntouched
  <2> QED
    BY <1>1, <2>2 DEF Untouched, Ended
<1>2. ASSUME NEW t \in Requests, NEW s \in Requests, s \in before'[t]
      PROVE  pc[s] \in Ended /\ adds[s] = {}
  <2>1. CASE s \in before[t]
    BY <2>1 DEF BeforeOK
  <2>2. CASE s \notin before[t]
    <3>1. Receive(r)
      BY <1>2, <2>2, BeforeUnchanged
    <3>2. before' = [before EXCEPT ![r] = {x \in Requests : pc[x] \in Ended /\ ~isRunning(x)}]
      BY <3>1 DEF Receive
    <3>3. s \in {x \in Requests : pc[x] \in Ended /\ ~isRunning(x)}
      BY <1>2, <2>2, <3>2 DEF TypeOK
    <3> QED
      BY <3>3 DEF isRunning
  <2> QED
    BY <2>1, <2>2
<1> QED
  BY <1>1, <1>2 DEF BeforeOK

\* A name that is lost while a request runs is noted.
LEMMA NameLost ==
    ASSUME TypeOK, RowsOK, NEW r \in Requests, Receive(r) \/ Handle(r), NEW s \in Requests
    PROVE  /\ losses[s] \subseteq losses'[s]
           /\ \A u \in users : isRunning(s) =>
                 "name" \in losses'[s] \/ \E v \in users' : v.name = u.name /\ v.id = u.id
<1>1. CASE UNCHANGED <<users, losses>>
  BY <1>1
<1>2. CASE Insert(r)
  <2>1. losses' = losses /\ users \subseteq users'
    BY <1>2, InsertRow
  <2> QED
    BY <2>1
<1>3. CASE Update(r) /\ ~UNCHANGED <<users, losses>>
  <2>1. /\ loses({u.id : u \in {v \in byId(req[r].id) : v.name # req[r].name}}, "name")
        /\ \A u \in users : \E v \in users' :
             /\ v.id = u.id
             /\ u.id # req[r].id => v = u
             /\ u.id = req[r].id => v.name = req[r].name /\ v.email = req[r].email
    BY <1>3, UpdateRow
  <2>2. losses[s] \subseteq losses'[s]
    BY <2>1 DEF loses
  <2>3. ASSUME NEW u \in users, isRunning(s)
        PROVE  "name" \in losses'[s] \/ \E v \in users' : v.name = u.name /\ v.id = u.id
    <3>1. CASE u.id = req[r].id /\ u.name # req[r].name
      BY <2>1, <2>3, <3>1 DEF loses, byId
    <3>2. CASE u.id # req[r].id \/ u.name = req[r].name
      BY <2>1, <3>2
    <3> QED
      BY <3>1, <3>2
  <2> QED
    BY <2>2, <2>3
<1>4. CASE Delete(r)
  <2>1. users' = users \ byId(req[r].id) /\ loses({req[r].id}, "name")
    BY <1>4 DEF Delete
  <2> QED
    BY <2>1 DEF loses, byId
<1>5. CASE AddRole(r)
  BY <1>1, <1>5 DEF AddRole
<1>6. CASE RemoveRole(r)
  <2>1. users' = users /\ losses[s] \subseteq losses'[s]
    BY <1>6 DEF RemoveRole, loses, local
  <2> QED
    BY <2>1
<1> QED
  BY <1>1, <1>2, <1>3, <1>4, <1>5, <1>6, Readers

\* So is a role, of which another may be left.
LEMMA RoleLost ==
    ASSUME TypeOK, TypeOK', RowsOK, NEW r \in Requests, Receive(r) \/ Handle(r),
           NEW s \in Requests, isRunning(s), NEW n, rolesOfName(n) # {}
    PROVE  "name" \in losses'[s] \/ "role" \in losses'[s] \/ rolesOfName(n)' # {}
<1>1. PICK u \in users, role \in Roles : u.name = n /\ <<u.id, role>> \in userRoles
  <2>1. PICK u \in byName(n) : \E role \in rolesOf(u.id) : TRUE
    BY DEF rolesOfName
  <2>2. PICK role \in rolesOf(u.id) : TRUE
    BY <2>1
  <2>3. u \in users /\ u.name = n /\ <<u.id, role>> \in userRoles
    BY <2>1, <2>2, RolesOfRows DEF byName
  <2>4. role \in Roles
    BY <2>3 DEF TypeOK
  <2> QED
    BY <2>3, <2>4
<1>2. CASE <<u.id, role>> \in userRoles'
  <2>1. CASE \E v \in users' : v.name = n /\ v.id = u.id
    <3>1. PICK v \in users' : v.name = n /\ v.id = u.id
      BY <2>1
    <3>2. role \in rolesOf(v.id)'
      BY <1>2, <3>1 DEF rolesOf
    <3> QED
      BY <3>1, <3>2 DEF rolesOfName, byName
  <2> QED
    BY <1>1, <2>1, NameLost
<1>3. CASE RemoveRole(r) /\ <<u.id, role>> \notin userRoles'
  <2>1. PICK x : /\ userRoles' = userRoles \ {<<uid[r], x>>}
                 /\ loses({ur[1] : ur \in {<<uid[r], x>>} \cap userRoles}, "role")
    BY <1>3 DEF RemoveRole
  <2>2. u.id = uid[r] /\ <<uid[r], x>> \in userRoles
    BY <1>1, <1>3, <2>1
  <2> DEFINE ids == {ur[1] : ur \in {<<uid[r], x>>} \cap userRoles}
  <2>3. u.id \in ids
    <3>1. <<uid[r], x>>[1] \in ids
      BY <2>2
    <3> QED
      BY <2>2, <3>1
  <2> HIDE DEF ids
  <2>4. losses'[s] = losses[s] \cup {"role"}
    BY <2>1, <2>3 DEF loses, ids
  <2> QED
    BY <2>4
<1>4. CASE Delete(r) /\ <<u.id, role>> \notin userRoles'
  <2>1. /\ userRoles' = {ur \in userRoles : ur[1] # req[r].id}
        /\ loses({req[r].id}, "name")
    BY <1>4 DEF Delete
  <2>2. u.id = req[r].id
    BY <1>1, <1>4, <2>1
  <2> QED
    BY <2>1, <2>2 DEF loses
<1>5. CASE AddRole(r)
  <2>1. PICK x \in adds[r] : Added(r, x)
    BY <1>5, AddsRole
  <2>2. userRoles \subseteq userRoles'
    BY <2>1 DEF Added
  <2> QED
    BY <1>1, <1>2, <2>2
<1> QED
  BY <1>1, <1>2, <1>3, <1>4, <1>5, Readers, InsertRow, UpdateRow

\* What a request looks for again, and whether it throws.
needsName(r) == pc[r] = "select" /\ kind(r) # "edit"
needsRole(r) == pc[r] = "again"
hasEnded(r)  == "name" \in losses[r] \/ (kind(r) = "login" /\ "role" \in losses[r])

LEMMA OwnName ==
    ASSUME TypeOK, PlacesOK, NamesOK, NEW r \in Requests, Receive(r) \/ Handle(r)
    PROVE  /\ needsName(r)' => \/ req'[r] = req[r] /\ needsName(r)
                               \/ \E u \in users' : u.name = req'[r].name
           /\ needsRole(r)' => \/ req'[r] = req[r] /\ needsRole(r)
                               \/ rolesOfName(req[r].name)' # {}
           /\ pc'[r] = "threw" => pc[r] = "threw" \/ (hasEnded(r) /\ req'[r] = req[r])
<1>0. PlaceOK(r) /\ QueueOK(r)
  BY DEF PlacesOK
<1> USE DEF needsName, needsRole, kind, at, reads, goto, TypeOK, local
<1>1. CASE Receive(r)
  <2>1. PICK q \in Request :
          /\ req' = [req EXCEPT ![r] = q]
          /\ goto(r, CASE q.kind = "register" -> "name"
                       [] q.kind = "login"    -> "hash"
                       [] OTHER               -> "perm")
    BY <1>1 DEF Receive
  <2>2. pc'[r] \in {"name", "hash", "perm"}
    BY <2>1
  <2> QED
    BY <2>2
<1>2. CASE CheckPerm(r) \/ ReadSelf(r) \/ ReadById(r) \/ FindUser(r)
  BY <1>2 DEF CheckPerm, ReadSelf, ReadById, FindUser
<1>3. CASE CheckName(r) \/ CheckEmail(r)
  BY <1>3 DEF CheckName, CheckEmail, refusal
<1>4. CASE Insert(r)
  <2>1. pc'[r] = "error" \/ \E u \in users' : u.name = req[r].name
    <3>1. CASE byName(req[r].name) # {}
      BY <1>4, <3>1 DEF Insert
    <3>2. CASE byName(req[r].name) = {}
      <4>1. [id |-> seq + 1, name |-> req[r].name, email |-> req[r].email] \in users'
        BY <1>4, <3>2 DEF Insert
      <4> QED
        BY <4>1
    <3> QED
      BY <3>1, <3>2
  <2>2. req' = req /\ pc'[r] \in {"error", "select"}
    BY <1>4 DEF Insert
  <2> QED
    BY <2>1, <2>2
<1>5. CASE Update(r)
  BY <1>0, <1>5 DEF PlaceOK, Update
<1>6. CASE Select(r)
  <2>1. CASE byName(req[r].name) = {} /\ req[r].kind # "edit"
    <3>1. pc'[r] = "threw" /\ req' = req
      BY <1>6, <2>1 DEF Select, throws
    <3>2. "name" \in losses[r]
      BY <1>6, <2>1 DEF Select, NamesOK
    <3> QED
      BY <3>1, <3>2 DEF hasEnded
  <2>2. CASE byName(req[r].name) # {} \/ req[r].kind = "edit"
    <3>1. pc'[r] \in {"error", "ok", "find"}
      BY <1>6, <2>2 DEF Select
    <3> QED
      BY <3>1
  <2> QED
    BY <2>1, <2>2
<1>7. CASE Delete(r) \/ RemoveRole(r)
  BY <1>7 DEF Delete, RemoveRole
<1>8. CASE ReadRoles(r)
  <2>1. pc'[r] \in {"adding", "removing", "ok"}
    BY <1>8 DEF ReadRoles, afterAdds
  <2> QED
    BY <2>1
<1>9. CASE AddRole(r)
  <2>1. PICK role \in adds[r] : Added(r, role)
    BY <1>9, AddsRole
  <2>2. pc'[r] \in {"adding", "removing", "ok", "error"} \/ pc'[r] = pc[r]
    BY <2>1 DEF Added, afterAdds
  <2>3. pc[r] \in {"adding", "error"}
    BY <1>0, <2>1 DEF QueueOK
  <2> QED
    BY <2>2, <2>3
<1>10. CASE GetHash(r)
  BY <1>10 DEF GetHash
<1>11. CASE CheckRoles(r)
  <2>1. /\ req' = req /\ UNCHANGED <<users, userRoles>>
        /\ pc'[r] = IF rolesOfName(req[r].name) = {} THEN "refused" ELSE "again"
    BY <1>11 DEF CheckRoles
  <2>3. rolesOfName(req[r].name)' = rolesOfName(req[r].name)
    BY <2>1 DEF rolesOfName, rolesOf, byName
  <2> QED
    BY <2>1, <2>3
<1>12. CASE ReadAgain(r)
  <2>1. CASE rolesOfName(req[r].name) = {}
    <3>1. pc'[r] = "threw" /\ req' = req
      BY <1>12, <2>1 DEF ReadAgain, throws
    <3>2. hasEnded(r)
      BY <1>0, <1>12, <2>1 DEF ReadAgain, NamesOK, PlaceOK, hasEnded
    <3> QED
      BY <3>1, <3>2
  <2>2. CASE rolesOfName(req[r].name) # {}
    <3>1. pc'[r] = "ok"
      BY <1>12, <2>2 DEF ReadAgain
    <3> QED
      BY <3>1
  <2> QED
    BY <2>1, <2>2
<1> QED
  BY <1>1, <1>2, <1>3, <1>4, <1>5, <1>6, <1>7, <1>8, <1>9, <1>10, <1>11, <1>12 DEF Handle

LEMMA NamesStep ==
    ASSUME TypeOK, TypeOK', PlacesOK, RowsOK, NamesOK,
           NEW r \in Requests, Receive(r) \/ Handle(r)
    PROVE  NamesOK'
<1>0. ASSUME NEW s \in Requests, s # r
      PROVE  /\ req'[s] = req[s]
             /\ pc'[s] \in {"select", "again", "threw"} => pc'[s] = pc[s]
  <2>1. Untouched(s)
    BY <1>0, OthersUntouched
  <2> QED
    BY <2>1 DEF Untouched
<1>1. ASSUME NEW s \in Requests, needsName(s)'
      PROVE  "name" \in losses'[s] \/ \E u \in users' : u.name = req'[s].name
  <2>1. CASE needsName(s) /\ req'[s] = req[s]
    <3>1. isRunning(s)
      BY <2>1 DEF needsName, isRunning, Ended, Answers
    <3>2. "name" \in losses[s] \/ \E u \in users : u.name = req[s].name
      BY <2>1 DEF NamesOK, needsName, byName
    <3> QED
      BY <2>1, <3>1, <3>2, NameLost
  <2>2. s # r => needsName(s) /\ req'[s] = req[s]
    BY <1>0, <1>1 DEF needsName, kind
  <2> QED
    BY <1>1, <2>1, <2>2, OwnName
<1>2. ASSUME NEW s \in Requests, pc'[s] = "threw"
      PROVE  hasEnded(s)'
  <2>1. CASE hasEnded(s) /\ req'[s] = req[s]
    BY <2>1, NameLost DEF hasEnded, kind
  <2>2. pc[s] = "threw" => hasEnded(s)
    BY DEF NamesOK, hasEnded
  <2>3. CASE s = r /\ pc[r] = "threw"
    <3>1. req'[r] = req[r]
      <4>1. adds[r] = {} /\ dels[r] = {}
        BY <2>3 DEF PlacesOK, QueueOK
      <4> QED
        BY <2>3, <4>1 DEF Receive, Handle, CheckPerm, ReadSelf, ReadById, CheckName, CheckEmail,
           Insert, Update, Select, Delete, FindUser, ReadRoles, AddRole, RemoveRole,
           GetHash, CheckRoles, ReadAgain, at
    <3> QED
      BY <2>1, <2>2, <2>3, <3>1
  <2> QED
    BY <1>0, <1>2, <2>1, <2>2, <2>3, OwnName
<1>3. ASSUME NEW s \in Requests, needsRole(s)'
      PROVE  "name" \in losses'[s] \/ "role" \in losses'[s] \/ rolesOfName(req[s].name)' # {}
  <2>1. CASE needsRole(s) /\ req'[s] = req[s]
    <3>1. isRunning(s)
      BY <2>1 DEF needsRole, isRunning, Ended, Answers
    <3>2. "name" \in losses[s] \/ "role" \in losses[s] \/ rolesOfName(req[s].name) # {}
      BY <2>1 DEF NamesOK, needsRole
    <3>3. losses[s] \subseteq losses'[s]
      BY NameLost
    <3>4. CASE rolesOfName(req[s].name) # {}
      <4>1. PICK n : n = req[s].name
        OBVIOUS
      <4>2. "name" \in losses'[s] \/ "role" \in losses'[s] \/ rolesOfName(n)' # {}
        BY <3>1, <3>4, <4>1, RoleLost
      <4>3. rolesOfName(req[s].name)' = rolesOfName(n)'
        BY <2>1, <4>1 DEF rolesOfName, byName
      <4> QED
        BY <4>2, <4>3
    <3> QED
      BY <3>2, <3>3, <3>4
  <2>2. s # r => needsRole(s) /\ req'[s] = req[s]
    BY <1>0, <1>3 DEF needsRole
  <2> QED
    BY <1>3, <2>1, <2>2, OwnName
<1>4. ASSUME NEW s \in Requests PROVE needsName(s)' => "name" \in losses'[s] \/ byName(req[s].name)' # {}
  BY <1>1 DEF byName
<1> QED
  BY <1>2, <1>3, <1>4 DEF NamesOK, needsName, needsRole, hasEnded

(***************************************************************************)
(* Roles that an edit keeps.                                               *)
(***************************************************************************)

\* A user that was found stays the one whose roles are set.
LEMMA SettersStay ==
    ASSUME TypeOK, PlacesOK, NEW r \in Requests, Receive(r) \/ Handle(r),
           NEW s \in Requests, req[s] # Nil, sets(s), uid[s] # Nil
    PROVE  uid'[s] = uid[s] /\ req'[s] # Nil /\ sets(s)'
<1>1. CASE s # r
  BY <1>1, OthersUntouched DEF Untouched, sets, kind
<1>2. CASE s = r
  <2>0. PlaceOK(r)
    BY DEF PlacesOK
  <2>1. pc[r] # "idle" /\ ~Receive(r)
    BY <1>2, <2>0 DEF PlaceOK, Receive, at
  <2>2. CASE ReadSelf(r) \/ ReadById(r)
    BY <1>2, <2>0, <2>2 DEF PlaceOK, ReadSelf, ReadById, at
  <2>3. CASE Select(r)
    <3>1. req[r].kind = "edit" => uid[r] = req[r].id
      BY <1>2, <2>0, <2>1 DEF PlaceOK, kind
    <3>2. req[r].kind = "edit"
      BY <1>2, <2>0, <2>3 DEF PlaceOK, Select, at, kind
    <3>3. uid' = uid \/ uid' = [uid EXCEPT ![r] = req[r].id]
      BY <2>3, <3>2 DEF Select
    <3>4. uid'[s] = uid[s] /\ req' = req
      BY <1>2, <2>3, <3>1, <3>2, <3>3 DEF Select, TypeOK
    <3> QED
      BY <3>4 DEF sets, kind
  <2>4. CASE ~ReadSelf(r) /\ ~ReadById(r) /\ ~Select(r)
    <3>1. UNCHANGED <<req, uid>>
      <4>1. CASE AddRole(r) \/ RemoveRole(r)
        BY <4>1 DEF AddRole, RemoveRole, local
      <4>2. CASE Insert(r) \/ Update(r) \/ Delete(r) \/ ReadRoles(r)
        BY <4>2 DEF Insert, Update, Delete, ReadRoles, local
      <4> QED
        BY <2>1, <2>4, <4>1, <4>2 DEF Handle, CheckPerm, CheckName, CheckEmail,
             FindUser, GetHash, CheckRoles, ReadAgain, local
    <3> QED
      BY <3>1 DEF sets, kind
  <2> QED
    BY <2>2, <2>3, <2>4
<1> QED
  BY <1>1, <1>2

\* A user that was deleted does not come back, and keeps its roles until then.
LEMMA RolesLost ==
    ASSUME TypeOK, RowsOK, NEW r \in Requests, Receive(r) \/ Handle(r),
           NEW i \in Nat, i <= seq, byId(i)' # {}
    PROVE  /\ byId(i) # {}
           /\ \A g \in userRoles : g[1] = i /\ g \notin userRoles' => RemoveRole(r) /\ uid[r] = i
<1> USE DEF byId
<1>1. CASE UNCHANGED <<users, userRoles>>
  BY <1>1
<1>2. CASE Insert(r)
  <2>1. userRoles' = userRoles
    BY <1>2, InsertRow
  <2>2. PICK u \in users' : u.id = i
    OBVIOUS
  <2>3. u \in users \/ u.id = seq + 1
    BY <1>2, InsertRow
  <2> QED
    BY <2>1, <2>2, <2>3 DEF TypeOK
<1>3. CASE Update(r) /\ ~UNCHANGED users
  <2>1. userRoles' = userRoles /\ \A v \in users' : \E u \in users : v.id = u.id
    BY <1>3, UpdateRow
  <2> QED
    BY <2>1
<1>4. CASE Delete(r)
  <2>1. /\ users' = users \ byId(req[r].id)
        /\ userRoles' = {ur \in userRoles : ur[1] # req[r].id}
    BY <1>4 DEF Delete
  <2> QED
    BY <2>1
<1>5. CASE AddRole(r)
  <2>1. PICK role \in adds[r] : Added(r, role)
    BY <1>5, AddsRole
  <2>2. users' = users /\ userRoles \subseteq userRoles'
    BY <2>1 DEF Added
  <2> QED
    BY <2>2
<1>6. CASE RemoveRole(r)
  <2>1. PICK role \in dels[r] : userRoles' = userRoles \ {<<uid[r], role>>} /\ users' = users
    BY <1>6 DEF RemoveRole
  <2>2. ASSUME NEW g \in userRoles, g[1] = i, g \notin userRoles' PROVE uid[r] = i
    <3>1. g = <<uid[r], role>>
      BY <2>1, <2>2
    <3> QED
      BY <2>2, <3>1
  <2> QED
    BY <1>6, <2>1, <2>2
<1>7. CASE Update(r) /\ UNCHANGED users
  BY <1>1, <1>7, UpdateRow
<1> QED
  BY <1>1, <1>2, <1>3, <1>4, <1>5, <1>6, <1>7, Readers

\* Where other requests make a step.
LEMMA AloneBefore ==
    ASSUME TypeOK, PlacesOK, BeforeOK, RowsOK, NEW r \in Requests, NEW t \in Requests,
           Receive(t) \/ Handle(t), isAlone(r)',
           UNCHANGED <<req[r], uid[r], orig[r], before[r]>>
    PROVE  isAlone(r) /\ uid[r] \in Nat /\ uid[r] <= seq
<1>1. uid[r] \in Nat /\ uid[r] <= seq /\ orig[r] # {} /\ req[r] # Nil /\ kind(r) = "edit"
      /\ req[r].target # {} /\ uid[r] # Nil
  BY DEF isAlone, PlacesOK, QueueOK, kind
<1>2. byId(uid[r]) # {}
  <2>1. byId(uid[r])' # {}
    BY DEF isAlone
  <2> DEFINE i == uid[r]
  <2>2. byId(i)' # {}
    BY <2>1 DEF byId
  <2> QED
    BY <1>1, <2>2, RolesLost DEF byId
<1>3. ASSUME NEW s \in Setters(uid[r]) \ {r} PROVE s \in before[r]
  <2>1. s \in Requests /\ req[s] # Nil /\ sets(s) /\ uid[s] = uid[r]
    BY <1>3 DEF Setters, sets, kind
  <2>2. uid'[s] = uid[s] /\ req'[s] # Nil /\ sets(s)'
    BY <1>1, <2>1, SettersStay
  <2>3. s \in Setters(uid[r])'
    BY <2>1, <2>2 DEF Setters, sets, kind
  <2> QED
    BY <1>3, <2>3 DEF isAlone
<1> QED
  BY <1>1, <1>2, <1>3 DEF isAlone

LEMMA RolesStay ==
    ASSUME NEW i, NEW R,
           \A g \in userRoles : g[1] = i /\ g[2] \in R => g \in userRoles'
    PROVE  \A role \in R : role \in rolesOf(i) => role \in rolesOf(i)'
<1>1. ASSUME NEW role \in R, role \in rolesOf(i) PROVE role \in rolesOf(i)'
  <2>1. PICK g \in userRoles : g[1] = i /\ g[2] = role
    BY <1>1 DEF rolesOf
  <2>2. g \in userRoles'
    BY <1>1, <2>1
  <2> QED
    BY <2>1, <2>2 DEF rolesOf
<1> QED
  BY <1>1

LEMMA OthersKeep ==
    ASSUME TypeOK, PlacesOK, BeforeOK, RowsOK, KeptOK, NEW r \in Requests, NEW t \in Requests,
           t # r,
           Receive(t) \/ Handle(t), isAlone(r)'
    PROVE  Kept(r)'
<1>1. Untouched(r)
  BY OthersUntouched
<1>2. isAlone(r) /\ uid[r] \in Nat /\ uid[r] <= seq
  BY <1>1, AloneBefore DEF Untouched
<1>3. Kept(r)
  BY <1>2 DEF KeptOK, Kept
<1>4. PICK i \in Nat : i = uid[r] /\ i = uid'[r] /\ i <= seq
  BY <1>1, <1>2 DEF Untouched
<1>5. byId(i)' # {}
  BY <1>4 DEF isAlone, byId
<1>6. ASSUME NEW g \in userRoles, g[1] = i PROVE g \in userRoles'
  <2>1. CASE RemoveRole(t) /\ uid[t] = i
    <3>1. pc[t] = "removing" /\ sets(t) /\ req[t] # Nil
      BY <2>1 DEF RemoveRole, PlacesOK, PlaceOK, QueueOK
    <3>2. t \in Setters(uid[r]) \ {r}
      BY <1>4, <2>1, <3>1 DEF Setters, sets, kind
    <3>3. t \in before[r]
      BY <1>2, <3>2 DEF isAlone
    <3> QED
      BY <3>1, <3>3 DEF BeforeOK, Ended, Answers
  <2>2. CASE ~(RemoveRole(t) /\ uid[t] = i)
    BY <1>4, <1>5, <1>6, <2>2, RolesLost
  <2> QED
    BY <2>1, <2>2
<1>7. rolesOf(i) \subseteq rolesOf(i)'
  BY <1>6, RolesStay
<1>8. PICK now : now = rolesOf(uid[r])
  OBVIOUS
<1>9. PICK new : new = rolesOf(uid[r])' /\ now \subseteq new
  BY <1>4, <1>7, <1>8 DEF rolesOf
<1>10. orig[r] # {} /\ PlaceOK(r) /\ QueueOK(r)
  BY <1>2 DEF isAlone, PlacesOK
<1>11. /\ pc[r] = "adding" => orig[r] \subseteq new /\ req[r].target \ adds[r] \subseteq new
       /\ pc[r] \in {"removing", "ok"} => req[r].target \subseteq new
       /\ pc[r] \in {"error", "lost"} =>
              \/ orig[r] \subseteq new
              \/ req[r].target \subseteq new /\ adds[r] = {}
  BY <1>3, <1>8, <1>9 DEF Kept
<1>12. CASE pc'[r] = pc[r] /\ adds'[r] = adds[r]
  BY <1>1, <1>9, <1>11, <1>12 DEF Kept, Untouched
<1>13. CASE pc'[r] = (IF isRunning(r) THEN "lost" ELSE pc[r]) /\ adds'[r] = {}
  <2>1. CASE isRunning(r)
    <3>1. orig[r] \subseteq new \/ req[r].target \subseteq new
      BY <1>10, <1>11, <2>1 DEF QueueOK
    <3>2. pc'[r] = "lost" /\ adds'[r] = {} /\ orig'[r] = orig[r] /\ req'[r] = req[r]
      BY <1>1, <1>13, <2>1 DEF Untouched
    <3> QED
      BY <1>9, <3>1, <3>2 DEF Kept
  <2>2. CASE ~isRunning(r)
    <3>1. pc[r] # "adding" /\ adds[r] = {}
      BY <2>2 DEF isRunning, Ended, Answers
    <3>2. pc'[r] = pc[r] /\ adds'[r] = {} /\ orig'[r] = orig[r] /\ req'[r] = req[r]
      BY <1>1, <1>13, <2>2 DEF Untouched
    <3> QED
      BY <1>9, <1>11, <3>1, <3>2 DEF Kept
  <2> QED
    BY <2>1, <2>2
<1> QED
  BY <1>1, <1>12, <1>13 DEF Untouched

LEMMA OwnKeep ==
    ASSUME TypeOK, PlacesOK, BeforeOK, RowsOK, KeptOK, NEW r \in Requests,
           Receive(r) \/ Handle(r), isAlone(r)'
    PROVE  Kept(r)'
<1>0. PlaceOK(r) /\ QueueOK(r) /\ orig'[r] # {}
  BY DEF PlacesOK, isAlone
<1>1. CASE ReadRoles(r)
  <2>1. PICK had, target : had = rolesOf(uid[r]) /\ target = req[r].target
    OBVIOUS
  <2>2. /\ orig'[r] = had /\ adds'[r] = target \ had
        /\ pc'[r] = afterAdds(target \ had, had \ target)
        /\ UNCHANGED <<userRoles, req, uid>>
    BY <1>1, <2>1 DEF ReadRoles, goto, TypeOK
  <2>3. rolesOf(uid[r])' = had /\ req'[r].target = target
    BY <2>1, <2>2 DEF rolesOf
  <2>4. CASE target \ had # {}
    <3>1. pc'[r] = "adding"
      BY <2>2, <2>4, Afterwards
    <3>2. target \ adds'[r] \subseteq had
      BY <2>2
    <3> QED
      BY <2>2, <2>3, <3>1, <3>2 DEF Kept
  <2>5. CASE target \ had = {}
    <3>1. pc'[r] \in {"removing", "ok"}
      BY <2>2, <2>5, Afterwards
    <3>2. target \subseteq had
      BY <2>5
    <3> QED
      BY <2>3, <3>1, <3>2 DEF Kept
  <2> QED
    BY <2>4, <2>5
<1>2. CASE AddRole(r)
  <2>1. PICK role \in adds[r] : Added(r, role)
    BY <1>2, AddsRole
  <2>2. UNCHANGED <<req, uid, orig, before>> /\ adds'[r] = adds[r] \ {role}
    BY <2>1 DEF Added, local, TypeOK
  <2>3. isAlone(r)
    BY <2>2, AloneBefore
  <2>4. PICK now : now = rolesOf(uid[r])
    OBVIOUS
  <2>5. /\ pc[r] = "adding" => orig[r] \subseteq now /\ req[r].target \ adds[r] \subseteq now
        /\ pc[r] = "error" => orig[r] \subseteq now
        /\ pc[r] \in {"adding", "error"}
    BY <1>0, <2>1, <2>3, <2>4 DEF KeptOK, Kept, QueueOK
  <2>6. CASE isInsertable(r, role)
    <3>1. userRoles' = userRoles \cup {<<uid[r], role>>}
      BY <2>1, <2>6 DEF Added
    <3>2. PICK new : new = rolesOf(uid[r])'
      OBVIOUS
    <3>3. now \subseteq new /\ role \in new
      BY <2>2, <2>4, <3>1, <3>2 DEF rolesOf
    <3>4. CASE pc[r] = "error"
      <4>1. pc'[r] = "error"
        BY <2>1, <2>6, <3>4 DEF Added
      <4> QED
        BY <2>2, <2>5, <3>2, <3>3, <3>4, <4>1 DEF Kept
    <3>5. CASE pc[r] = "adding"
      <4>1. pc'[r] = afterAdds(adds[r] \ {role}, orig[r] \ req[r].target)
        BY <2>1, <2>6, <3>5 DEF Added, goto, TypeOK
      <4>2. orig[r] \subseteq new /\ req[r].target \ adds'[r] \subseteq new
        <5>1. req[r].target \ adds'[r] \subseteq (req[r].target \ adds[r]) \cup {role}
          BY <2>2
        <5> QED
          BY <2>5, <3>3, <3>5, <5>1
      <4>3. CASE adds[r] \ {role} # {}
        <5>1. pc'[r] = "adding"
          BY <4>1, <4>3, Afterwards
        <5> QED
          BY <2>2, <3>2, <4>2, <5>1 DEF Kept
      <4>4. CASE adds[r] \ {role} = {}
        <5>1. pc'[r] \in {"removing", "ok"}
          BY <4>1, <4>4, Afterwards
        <5>2. req[r].target \subseteq new
          BY <2>2, <4>2, <4>4
        <5> QED
          BY <2>2, <3>2, <5>1, <5>2 DEF Kept
      <4> QED
        BY <4>3, <4>4
    <3> QED
      BY <2>5, <3>4, <3>5
  <2>7. CASE ~isInsertable(r, role)
    <3>1. userRoles' = userRoles /\ pc'[r] = "error"
      BY <2>1, <2>7 DEF Added, goto, TypeOK
    <3>2. rolesOf(uid[r])' = now
      BY <2>2, <2>4, <3>1 DEF rolesOf
    <3> QED
      BY <2>2, <2>5, <3>1, <3>2 DEF Kept
  <2> QED
    BY <2>6, <2>7
<1>3. CASE RemoveRole(r)
  <2>1. PICK role \in dels[r] :
          /\ userRoles' = userRoles \ {<<uid[r], role>>}
          /\ IF dels[r] = {role} THEN goto(r, "ok") ELSE UNCHANGED pc
    BY <1>3 DEF RemoveRole
  <2>2. UNCHANGED <<req, uid, orig, before, adds>>
    BY <1>3 DEF RemoveRole, local
  <2>3. isAlone(r)
    BY <2>2, AloneBefore
  <2>4. pc[r] = "removing" /\ role \notin req[r].target
    BY <1>0, <2>1 DEF QueueOK
  <2>5. pc'[r] \in {"removing", "ok"}
    BY <2>1, <2>4 DEF goto, TypeOK
  <2>6. PICK i, target : i = uid[r] /\ target = req[r].target
    OBVIOUS
  <2>7. \A x \in target : x \in rolesOf(i)
    BY <2>3, <2>4, <2>6 DEF KeptOK, Kept
  <2>8. ASSUME NEW g \in userRoles, g[1] = i, g[2] \in target PROVE g \in userRoles'
    <3>1. g # <<uid[r], role>>
      BY <2>4, <2>6, <2>8
    <3> QED
      BY <2>1, <3>1
  <2>9. \A x \in target : x \in rolesOf(i)'
    BY <2>7, <2>8, RolesStay
  <2>10. rolesOf(uid[r])' = rolesOf(i)' /\ req'[r].target = target
    BY <2>2, <2>6 DEF rolesOf
  <2> QED
    BY <2>5, <2>9, <2>10 DEF Kept
<1>4. CASE ~ReadRoles(r) /\ ~AddRole(r) /\ ~RemoveRole(r)
  <2>1. orig' = orig
    <3>1. CASE Receive(r) \/ ReadSelf(r) \/ ReadById(r) \/ Select(r)
      BY <3>1 DEF Receive, ReadSelf, ReadById, Select
    <3>2. CASE Insert(r) \/ Update(r) \/ Delete(r)
      BY <3>2 DEF Insert, Update, Delete, local
    <3> QED
      BY <1>4, <3>1, <3>2 DEF Handle, CheckPerm, CheckName, CheckEmail, FindUser, GetHash,
           CheckRoles, ReadAgain, local
  <2>2. pc[r] \in {"adding", "removing", "ok", "error", "lost"}
    BY <1>0, <2>1 DEF QueueOK
  <2> QED
    BY <1>4, <2>2 DEF Receive, Handle, CheckPerm, ReadSelf, ReadById, CheckName, CheckEmail, Insert,
         Update, Select, Delete, FindUser, GetHash, CheckRoles, ReadAgain, at
<1> QED
  BY <1>1, <1>2, <1>3, <1>4

LEMMA KeptStep ==
    ASSUME TypeOK, PlacesOK, BeforeOK, RowsOK, KeptOK, NEW r \in Requests, Receive(r) \/ Handle(r)
    PROVE  KeptOK'
<1>1. ASSUME NEW s \in Requests, isAlone(s)' PROVE Kept(s)'
  BY <1>1, OwnKeep, OthersKeep
<1> QED
  BY <1>1 DEF KeptOK, Kept

(***************************************************************************)
(* E-mails.                                                                *)
(***************************************************************************)

LEMMA SmallestNat ==
    ASSUME NEW S \in SUBSET Nat, S # {}
    PROVE  \E m \in S : \A n \in S : m <= n
<1> DEFINE R == OpToRel(<, Nat)
<1>1. PICK m \in S : \A n \in S : ~(<<n, m>> \in R)
  BY NatLessThanWellFounded, WFMin
<1>2. ASSUME NEW n \in S PROVE m <= n
  <2>1. ~(n < m)
    BY <1>1 DEF OpToRel
  <2> QED
    BY <2>1
<1> QED
  BY <1>2

\* The user that is read has the e-mail.
LEMMA FirstExists ==
    ASSUME TypeOK, NEW e, NEW u \in byEmail(e)
    PROVE  first(byEmail(e)) # {}
<1> DEFINE ids == {v.id : v \in byEmail(e)}
<1>1. ids \in SUBSET Nat /\ ids # {}
  BY DEF byEmail, TypeOK, User
<1>2. PICK m \in ids : \A n \in ids : m <= n
  BY <1>1, SmallestNat
<1>3. PICK w \in byEmail(e) : w.id = m
  BY <1>2
<1>4. w \in first(byEmail(e))
  BY <1>2, <1>3 DEF first
<1> QED
  BY <1>4

\* A request that was received keeps its kind, its e-mail and what ended before it.
LEMMA ReceivedOnce ==
    ASSUME TypeOK, PlacesOK, NEW r \in Requests, Receive(r) \/ Handle(r),
           NEW s \in Requests, req[s] # Nil
    PROVE  /\ req'[s] # Nil /\ req'[s].kind = req[s].kind /\ req'[s].email = req[s].email
           /\ before'[s] = before[s]
<1>1. CASE s # r
  BY <1>1, OthersUntouched DEF Untouched
<1>2. CASE s = r
  <2>1. Handle(r)
    BY <1>2 DEF Receive, PlacesOK, PlaceOK, at
  <2>2. before' = before
    BY <2>1, BeforeUnchanged
  <2>3. CASE ReadSelf(r)
    BY <1>2, <2>2, <2>3, SelfRenamed, NilAssumption
  <2>4. CASE ~ReadSelf(r)
    <3>1. req' = req
      <4>1. CASE AddRole(r) \/ RemoveRole(r) \/ ReadById(r) \/ Select(r) \/ ReadRoles(r)
        BY <4>1 DEF AddRole, RemoveRole, ReadById, Select, ReadRoles, local
      <4>2. CASE Insert(r) \/ Update(r) \/ Delete(r)
        BY <4>2 DEF Insert, Update, Delete, local
      <4> QED
        BY <2>1, <2>4, <4>1, <4>2 DEF Handle, CheckPerm, CheckName, CheckEmail,
             FindUser, GetHash, CheckRoles, ReadAgain, local
    <3> QED
      BY <1>2, <2>2, <3>1
  <2> QED
    BY <2>3, <2>4
<1> QED
  BY <1>1, <1>2

LEMMA ExcusedStays ==
    ASSUME TypeOK, PlacesOK, NEW r \in Requests, Receive(r) \/ Handle(r), NEW e, Excused(e)
    PROVE  Excused(e)'
<1>1. PICK s, t \in Requests : excuses(e, s, t)
  BY DEF Excused
<1>2. /\ req'[s] # Nil /\ req'[s].kind = req[s].kind /\ req'[s].email = req[s].email
      /\ before'[s] = before[s]
  BY <1>1, ReceivedOnce DEF excuses
<1>3. /\ req'[t] # Nil /\ req'[t].kind = req[t].kind /\ req'[t].email = req[t].email
      /\ before'[t] = before[t]
  BY <1>1, ReceivedOnce DEF excuses
<1>4. excuses(e, s, t)'
  BY <1>1, <1>2, <1>3 DEF excuses, overlap, kind, sets
<1> QED
  BY <1>4 DEF Excused

\* Who is about to set an e-mail.
isSetting(s) == pc[s] \in {"insert", "update"}

\* Two requests that are under way overlap.
LEMMA BothUnderWay ==
    ASSUME PlacesOK, BeforeOK, NEW r \in Requests, NEW s \in Requests, s # r,
           isSetting(r), isSetting(s), sets(s), req[s].email = req[r].email
    PROVE  Excused(req[r].email)
<1>1. req[r] # Nil /\ req[s] # Nil
  BY DEF isSetting, PlacesOK, PlaceOK
<1>2. pc[r] \notin Ended /\ pc[s] \notin Ended
  BY DEF isSetting, Ended, Answers
<1>3. r \notin before[s] /\ s \notin before[r]
  BY <1>2 DEF BeforeOK
<1>4. overlap(r, s)
  BY <1>1, <1>3 DEF overlap
<1>5. kind(r) = "register" \/ sets(r)
  BY DEF isSetting, PlacesOK, PlaceOK, sets
<1>6. excuses(req[r].email, r, s)
  BY <1>1, <1>4, <1>5 DEF excuses
<1> QED
  BY <1>6 DEF Excused

\* Who sets an e-mail that another user bears is excused.
LEMMA SettingExcused ==
    ASSUME PlacesOK, EmailsOK, NEW r \in Requests, isSetting(r),
           NEW u \in users, u.email = req[r].email, u.id # uid[r]
    PROVE  Excused(req[r].email)
<1>1. CASE sets(r)
  BY <1>1 DEF EmailsOK, isSetting
<1>2. CASE ~sets(r)
  <2>1. req[r] # Nil /\ kind(r) = "register"
    BY <1>2 DEF PlacesOK, PlaceOK, isSetting, sets
  <2>2. excuses(req[r].email, r, r)
    BY <2>1 DEF excuses
  <2> QED
    BY <2>2 DEF Excused
<1> QED
  BY <1>1, <1>2

\* The users that bear an e-mail after a step did before, but for the one that is set.
LEMMA BearersStep ==
    ASSUME TypeOK, PlacesOK, NEW r \in Requests, Receive(r) \/ Handle(r), NEW v \in users'
    PROVE  \/ \E u \in users : u.id = v.id /\ u.email = v.email
           \/ Insert(r) /\ v.id = seq + 1 /\ v.email = req[r].email
           \/ Update(r) /\ v.id = req[r].id /\ v.email = req[r].email
<1>1. CASE users' = users
  BY <1>1
<1>2. CASE Insert(r)
  <2>1. PICK u :
          \/ users' = users
          \/ u.id = seq + 1 /\ u.email = req[r].email /\ users' = users \cup {u}
    BY <1>2, InsertRow
  <2>2. CASE users' = users
    BY <1>1, <2>2
  <2>3. CASE u.id = seq + 1 /\ u.email = req[r].email /\ users' = users \cup {u}
    <3>1. v \in users \/ v = u
      BY <2>3
    <3> QED
      BY <1>2, <2>3, <3>1
  <2> QED
    BY <2>1, <2>2, <2>3
<1>3. CASE Update(r)
  <2>1. CASE UNCHANGED users
    BY <1>1, <2>1
  <2>2. CASE ~UNCHANGED users
    <3>1. PICK u \in users :
             /\ v.id = u.id
             /\ u.id # req[r].id => v = u
             /\ u.id = req[r].id => v.name = req[r].name /\ v.email = req[r].email
      BY <1>3, <2>2, UpdateRow
    <3>2. CASE u.id = req[r].id
      BY <1>3, <3>1, <3>2
    <3>3. CASE u.id # req[r].id
      BY <3>1, <3>3
    <3> QED
      BY <3>2, <3>3
  <2> QED
    BY <2>1, <2>2
<1>4. CASE Delete(r)
  BY <1>4 DEF Delete
<1>5. CASE AddRole(r) \/ RemoveRole(r)
  BY <1>1, <1>5 DEF AddRole, RemoveRole
<1> QED
  BY <1>1, <1>2, <1>3, <1>4, <1>5, Readers

LEMMA CheckedEmail ==
    ASSUME TypeOK, PlacesOK, EmailsOK, NEW r \in Requests, CheckEmail(r), isSetting(r)',
           NEW u \in users, u.email = req[r].email, u.id # uid[r]
    PROVE  Excused(req[r].email)
<1>1. ~isTaken(r, first(byEmail(req[r].email)))
  <2>1. ASSUME isTaken(r, first(byEmail(req[r].email))) PROVE FALSE
    <3>1. pc'[r] \in {"error", "refused"}
      BY <2>1 DEF CheckEmail, reads, goto, refusal, TypeOK
    <3> QED
      BY <3>1 DEF isSetting
  <2> QED
    BY <2>1
<1>2. u \in byEmail(req[r].email)
  BY DEF byEmail
<1>3. PICK w \in first(byEmail(req[r].email)) : TRUE
  BY <1>2, FirstExists
<1>4. w.id = uid[r] /\ w \in users /\ w.email = req[r].email
  BY <1>1, <1>3 DEF isTaken, first, byEmail
<1> QED
  BY <1>4 DEF EmailsOK

LEMMA EmailsStep ==
    ASSUME TypeOK, TypeOK', PlacesOK, BeforeOK, RowsOK, RowsOK', EmailsOK,
           NEW r \in Requests, Receive(r) \/ Handle(r)
    PROVE  EmailsOK'
<1>1. ASSUME NEW v \in users', NEW w \in users', v # w, v.email = w.email
      PROVE  Excused(v.email)'
  <2>0. v.id # w.id
    BY <1>1 DEF RowsOK, RowsRefer
  <2>1. ASSUME NEW a \in users', NEW b \in users', a.id # b.id, a.email = b.email,
               a.email = req[r].email, Insert(r) \/ Update(r),
               Insert(r) => a.id = seq + 1, Update(r) => a.id = req[r].id
        PROVE  Excused(a.email)
    <3>1. PICK u \in users : u.id = b.id /\ u.email = b.email
      <4>1. ~(Insert(r) /\ Update(r))
        BY DEF Insert, Update, at
      <4>2. CASE Insert(r)
        BY <2>1, <4>1, <4>2, BearersStep
      <4>3. CASE Update(r)
        BY <2>1, <4>1, <4>3, BearersStep
      <4> QED
        BY <2>1, <4>2, <4>3
    <3>2. isSetting(r)
      BY <2>1 DEF isSetting, Insert, Update, at
    <3>3. u.id # uid[r]
      <4>1. CASE Insert(r)
        <5>1. uid[r] = Nil \/ kind(r) = "edit"
          BY <4>1 DEF Insert, at, PlacesOK, PlaceOK
        <5>2. uid[r] = Nil
          BY <4>1, <5>1 DEF Insert, at, PlacesOK, PlaceOK
        <5> QED
          BY <5>2, NilAssumption DEF TypeOK, User
      <4>2. CASE Update(r)
        <5>1. uid[r] \in {Nil, req[r].id}
          BY <4>2 DEF Update, at, PlacesOK, PlaceOK
        <5> QED
          BY <2>1, <3>1, <4>2, <5>1, NilAssumption DEF TypeOK, User
      <4> QED
        BY <2>1, <4>1, <4>2
    <3> QED
      BY <2>1, <3>1, <3>2, <3>3, SettingExcused
  <2>2. Excused(v.email)
    <3>1. CASE \/ Insert(r) /\ v.id = seq + 1 /\ v.email = req[r].email
               \/ Update(r) /\ v.id = req[r].id /\ v.email = req[r].email
      BY <1>1, <2>0, <2>1, <3>1 DEF Insert, Update, at
    <3>2. CASE \/ Insert(r) /\ w.id = seq + 1 /\ w.email = req[r].email
               \/ Update(r) /\ w.id = req[r].id /\ w.email = req[r].email
      BY <1>1, <2>0, <2>1, <3>2 DEF Insert, Update, at
    <3>3. CASE /\ \E u \in users : u.id = v.id /\ u.email = v.email
               /\ \E u \in users : u.id = w.id /\ u.email = w.email
      BY <1>1, <2>0, <3>3 DEF EmailsOK
    <3> QED
      BY <3>1, <3>2, <3>3, BearersStep
  <2> QED
    BY <2>2, ExcusedStays
<1>2. ASSUME NEW s \in Requests, NEW v \in users', isSetting(s)', sets(s)',
             v.email = req'[s].email, v.id # uid'[s]
      PROVE  Excused(v.email)'
  <2>1. CASE s # r
    <3>1. Untouched(s)
      BY <2>1, OthersUntouched
    <3>2. isSetting(s) /\ sets(s) /\ req'[s] = req[s] /\ uid'[s] = uid[s]
      BY <1>2, <3>1 DEF Untouched, isSetting, sets, kind
    <3>3. CASE \E u \in users : u.id = v.id /\ u.email = v.email
      BY <1>2, <3>2, <3>3, ExcusedStays DEF EmailsOK, isSetting
    <3>4. CASE (Insert(r) \/ Update(r)) /\ v.email = req[r].email
      <4>1. isSetting(r)
        BY <3>4 DEF isSetting, Insert, Update, at
      <4>2. Excused(v.email)
        BY <1>2, <2>1, <3>2, <3>4, <4>1, BothUnderWay
      <4> QED
        BY <4>2, ExcusedStays
    <3> QED
      BY <3>3, <3>4, BearersStep
  <2>2. CASE s = r
    <3>1. CheckEmail(r) \/ pc'[r] \notin {"insert", "update"} \/ ~sets(r)'
      <4> USE DEF at, reads, goto, TypeOK, local
      <4>1. CASE Receive(r)
        <5>1. PICK q \in Request :
                goto(r, CASE q.kind = "register" -> "name"
                         [] q.kind = "login"    -> "hash"
                         [] OTHER               -> "perm")
          BY <4>1 DEF Receive
        <5>2. pc'[r] \in {"name", "hash", "perm"}
          BY <5>1
        <5> QED
          BY <5>2
      <4>2. CASE CheckPerm(r) \/ ReadSelf(r) \/ ReadById(r) \/ FindUser(r)
        BY <4>2 DEF CheckPerm, ReadSelf, ReadById, FindUser
      <4>3. CASE CheckName(r)
        BY <4>3 DEF CheckName, refusal, sets, kind
      <4>4. CASE Insert(r) \/ Update(r)
        BY <4>4 DEF Insert, Update
      <4>5. CASE Select(r)
        BY <4>5 DEF Select, throws
      <4>6. CASE Delete(r)
        BY <4>6 DEF Delete
      <4>10. CASE RemoveRole(r)
        <5>1. pc[r] = "removing"
          BY <4>10 DEF RemoveRole, PlacesOK, QueueOK
        <5>2. pc'[r] \in {"ok", "removing"}
          BY <4>10, <5>1 DEF RemoveRole
        <5> QED
          BY <5>2
      <4>7. CASE ReadRoles(r)
        BY <4>7 DEF ReadRoles, afterAdds
      <4>8. CASE AddRole(r)
        <5>1. PICK role \in adds[r] : Added(r, role)
          BY <4>8, AddsRole
        <5>2. pc'[r] \in {"adding", "removing", "ok", "error"} \/ pc'[r] = pc[r]
          BY <5>1 DEF Added, afterAdds
        <5>3. pc[r] \in {"adding", "error"}
          BY <5>1 DEF PlacesOK, QueueOK
        <5> QED
          BY <5>2, <5>3
      <4>9. CASE GetHash(r) \/ CheckRoles(r) \/ ReadAgain(r)
        BY <4>9 DEF GetHash, CheckRoles, ReadAgain, throws
      <4> QED
        BY <4>1, <4>2, <4>3, <4>4, <4>5, <4>6, <4>7, <4>8, <4>9, <4>10 DEF Handle
    <3>2. CheckEmail(r)
      BY <1>2, <2>2, <3>1 DEF isSetting
    <3>3. UNCHANGED <<users, req, uid>>
      BY <3>2 DEF CheckEmail, reads, local
    <3>4. Excused(v.email)
      BY <1>2, <2>2, <3>2, <3>3, CheckedEmail
    <3> QED
      BY <3>4, ExcusedStays
  <2> QED
    BY <2>1, <2>2
<1> QED
  BY <1>1, <1>2 DEF EmailsOK, isSetting

(***************************************************************************)
(* The invariant, and what it implies.                                     *)
(***************************************************************************)

LEMMA InvInit == Init => IInv
<1> SUFFICES ASSUME Init PROVE IInv
  OBVIOUS
<1>1. TypeOK
  BY TypeInit
<1>2. \A r \in Requests : /\ pc[r] = "idle" /\ req[r] = Nil /\ uid[r] = Nil
                          /\ orig[r] = {} /\ adds[r] = {} /\ dels[r] = {} /\ before[r] = {}
  BY DEF Init
<1>3. PlacesOK /\ BeforeOK /\ NamesOK /\ KeptOK
  BY <1>2 DEF PlacesOK, PlaceOK, QueueOK, BeforeOK, NamesOK, KeptOK, Kept, isAlone
<1>4. PICK n \in Names \ {Boss}, e \in Emails, f \in Emails :
         /\ e # f
         /\ users = {[id |-> 1, name |-> Boss, email |-> e], [id |-> 2, name |-> n, email |-> f]}
  BY DEF Init
<1>5. RowsOK
  <2>1. \A u \in users : u.id <= seq
    BY <1>4 DEF Init
  <2>2. ASSUME NEW ur \in userRoles PROVE byId(ur[1]) # {}
    <3>1. ur[1] \in {1, 2}
      BY DEF Init
    <3>2. (\E u \in users : u.id = 1) /\ (\E u \in users : u.id = 2)
      BY <1>4
    <3> QED
      BY <3>1, <3>2 DEF byId
  <2>3. \A u, v \in users : u # v => u.id # v.id /\ u.name # v.name
    BY <1>4
  <2> QED
    BY <2>1, <2>2, <2>3 DEF RowsOK, RowsRefer
<1>6. EmailsOK
  <2>1. \A u, v \in users : u # v => u.email # v.email
    BY <1>4
  <2> QED
    BY <1>2, <2>1 DEF EmailsOK
<1> QED
  BY <1>1, <1>3, <1>5, <1>6 DEF IInv

LEMMA InvUnchanged == IInv /\ UNCHANGED vars => IInv'
<1> SUFFICES ASSUME IInv, UNCHANGED vars PROVE IInv'
  OBVIOUS
<1> USE DEF vars, local
<1>1. TypeOK'
  BY DEF IInv, TypeOK
<1>2. PlacesOK'
  BY DEF IInv, PlacesOK, PlaceOK, QueueOK, kind, sets
<1>3. BeforeOK' /\ NamesOK'
  BY DEF IInv, BeforeOK, NamesOK, kind, byName, rolesOfName, rolesOf
<1>4. RowsOK'
  BY DEF IInv, RowsOK, RowsRefer, byId
<1>5. KeptOK'
  BY DEF IInv, KeptOK, Kept, isAlone, Setters, kind, byId, rolesOf
<1>6. EmailsOK'
  BY DEF IInv, EmailsOK, Excused, excuses, overlap, kind, sets
<1> QED
  BY <1>1, <1>2, <1>3, <1>4, <1>5, <1>6 DEF IInv

LEMMA InvStep == IInv /\ [Next]_vars => IInv'
<1> SUFFICES ASSUME IInv, Next PROVE IInv'
  BY InvUnchanged
<1>1. PICK r \in Requests : Receive(r) \/ Handle(r)
  BY DEF Next
<1> USE DEF IInv
<1>2. TypeOK'
  BY TypeStep
<1>3. PlacesOK' /\ BeforeOK' /\ NamesOK' /\ KeptOK'
  BY <1>1, <1>2, PlacesStep, BeforeStep, NamesStep, KeptStep
<1>4. RowsOK'
  BY <1>1, <1>2, RowsStep
<1>5. EmailsOK'
  BY <1>1, <1>2, <1>4, EmailsStep
<1> QED
  BY <1>2, <1>3, <1>4, <1>5

\* The invariant holds in every state, whatever the requests and their order.
THEOREM Invariance == Spec => []IInv
<1>1. Init => IInv
  BY InvInit
<1>2. IInv /\ [Next]_vars => IInv'
  BY InvStep
<1> QED
  BY <1>1, <1>2, PTL DEF Spec

\* Every variable keeps its type: an identifier of the table Users, a role of the table
\* Roles and a request are never mixed up by the handlers of rudi-manager.
THEOREM TypeCorrect == Spec => []TypeOK
<1>1. IInv => TypeOK
  BY DEF IInv
<1> QED
  BY <1>1, Invariance, PTL

\* The table User_Roles names existing users only, and two users never share an
\* identifier or a name: the foreign key with its cascade, and identifiers that serve
\* once, are enough for any number of handlers that create, edit and delete users.
THEOREM RolesReferToUsers == Spec => []RowsRefer
<1>1. IInv => RowsRefer
  BY DEF IInv, RowsOK
<1> QED
  BY <1>1, Invariance, PTL

\* The process of rudi-manager ends for a request only where a user lost its name
\* while the handler of that request ran, between a lookup by name and the next, or
\* a role while a login read the roles twice.
THEOREM EndsOnlyByRace == Spec => []EndsByRace
<1>1. IInv => EndsByRace
  BY DEF IInv, NamesOK, EndsByRace, kind
<1> QED
  BY <1>1, Invariance, PTL

\* dbUpdateUserRoles never leaves a user without a role on its way from some roles to
\* others, whichever of its requests fail, where no other edit of that user overlaps.
THEOREM EditsKeepARole == Spec => []NeverBare
<1>1. ASSUME IInv, NEW r \in Requests, isAlone(r) PROVE rolesOf(uid[r]) # {}
  <2>1. /\ orig[r] # {} /\ req[r].target # {}
        /\ pc[r] \in {"adding", "removing", "ok", "error", "lost"}
    BY <1>1 DEF isAlone, IInv, PlacesOK, QueueOK
  <2>2. orig[r] \subseteq rolesOf(uid[r]) \/ req[r].target \subseteq rolesOf(uid[r])
    BY <1>1, <2>1 DEF IInv, KeptOK, Kept
  <2> QED
    BY <2>1, <2>2
<1>2. IInv => NeverBare
  BY <1>1 DEF NeverBare, isAlone, kind
<1> QED
  BY <1>2, Invariance, PTL

\* Two users share an e-mail only by a registration or by requests of administrators
\* that overlap: the lookup that precedes the row is enough for one at a time.
THEOREM EmailsApart == Spec => []EmailsDistinct
<1>1. ASSUME IInv, NEW u \in users, NEW v \in users, u # v, u.email = v.email
      PROVE  LET setters == {r \in Requests : req[r] # Nil /\ req[r].email = u.email}
             IN  \/ \E r \in setters : req[r].kind = "register"
                 \/ \E r, s \in setters :
                      /\ overlap(r, s)
                      /\ {req[r].kind, req[s].kind} \subseteq {"create", "edit"}
  <2>1. Excused(u.email)
    BY <1>1 DEF IInv, EmailsOK
  <2>2. PICK r, s \in Requests : excuses(u.email, r, s)
    BY <2>1 DEF Excused
  <2>3. CASE kind(r) = "register"
    BY <2>2, <2>3 DEF excuses, kind
  <2>4. CASE overlap(r, s) /\ sets(r) /\ sets(s)
    BY <2>2, <2>4 DEF excuses, sets, kind
  <2> QED
    BY <2>2, <2>3, <2>4 DEF excuses
<1>2. IInv => EmailsDistinct
  BY <1>1 DEF EmailsDistinct
<1> QED
  BY <1>2, Invariance, PTL

(***************************************************************************)
(* The roles that requests agree on.                                       *)
(***************************************************************************)

\* The handlers that have read the roles of a user, and whose requests all succeeded
\* so far.
Setting(r, i) ==
    /\ req[r] # Nil /\ sets(r) /\ uid[r] = i
    /\ pc[r] \in {"adding", "removing", "ok"}

\* The user had the role, or did not have it, at some time while the handler ran.
gave(r, i, role) == Setting(r, i) /\ role \in req[r].target /\ role \notin adds[r]
took(r, i, role) ==
    /\ Setting(r, i) /\ role \notin req[r].target
    /\ role \notin orig[r] \/ (pc[r] # "adding" /\ role \notin dels[r])

\* The handlers that may have removed a role, or added one.
Removers(i, role) ==
    {s \in Setters(i) : role \notin req[s].target /\ pc[s] \in {"removing", "ok", "lost"}}
Adders(i, role) ==
    {s \in Setters(i) : /\ role \in req[s].target
                        /\ pc[s] \in {"adding", "removing", "ok", "error", "lost"}}

\* What was given, or taken, is so still, or was undone by a handler that had not ended
\* before any of those that did it.
RoleOK(i, role) ==
    /\ <<i, role>> \notin userRoles /\ (\E r \in Requests : gave(r, i, role)) =>
         \E s \in Removers(i, role) : \A t \in Requests : gave(t, i, role) => s \notin before[t]
    /\ <<i, role>> \in userRoles /\ (\E r \in Requests : took(r, i, role)) =>
         \E s \in Adders(i, role) : \A t \in Requests : took(t, i, role) => s \notin before[t]

\* What a handler asks for, and whose roles it sets.
SetsOK ==
    \A r \in Requests :
        pc[r] # "idle" =>
            /\ adds[r] \subseteq req[r].target
            /\ sets(r) /\ pc[r] \in {"read", "adding", "removing", "ok"} =>
                  uid[r] \in Nat /\ uid[r] <= seq

\* The requests that were received are finitely many, in the order of time.
Received == {r \in Requests : req[r] # Nil}
OrderOK ==
    /\ IsFiniteSet(Received)
    /\ \A r \in Requests : r \notin before[r] /\ \A s \in before[r] : before[s] \subseteq before[r]

AgreeInv ==
    /\ OrderOK /\ SetsOK
    /\ \A u \in users, role \in Roles : RoleOK(u.id, role)

LEMMA HandledReceived ==
    ASSUME PlacesOK, NEW r \in Requests, Handle(r)
    PROVE  pc[r] # "idle" /\ req[r] # Nil
<1>0. PlaceOK(r) /\ QueueOK(r)
  BY DEF PlacesOK
<1>1. pc[r] # "idle"
  <2>1. CASE AddRole(r) \/ RemoveRole(r)
    BY <1>0, <2>1 DEF AddRole, RemoveRole, QueueOK
  <2> QED
    BY <2>1 DEF Handle, CheckPerm, ReadSelf, ReadById, CheckName, CheckEmail, Insert, Update,
         Select, Delete, FindUser, ReadRoles, GetHash, CheckRoles, ReadAgain, at
<1> QED
  BY <1>0, <1>1 DEF PlaceOK

LEMMA OrderStep ==
    ASSUME TypeOK, PlacesOK, BeforeOK, OrderOK, NEW r \in Requests, Receive(r) \/ Handle(r)
    PROVE  OrderOK'
<1>1. CASE Receive(r)
  <2>1. /\ r \notin before'[r]
        /\ before' = [before EXCEPT ![r] = {s \in Requests : pc[s] \in Ended /\ ~isRunning(s)}]
    BY <1>1 DEF Receive, at, Ended, Answers, TypeOK
  <2>2. PICK q \in Request : req' = [req EXCEPT ![r] = q]
    BY <1>1 DEF Receive
  <2>3. Received' = Received \cup {r}
    BY <2>2, NilAssumption DEF Received, TypeOK
  <2>4. IsFiniteSet(Received')
    BY <2>3, FS_AddElement DEF OrderOK
  <2>5. \A s, t \in Requests : s \in before[t] => pc[s] \in Ended /\ ~isRunning(s)
    BY DEF BeforeOK, isRunning, Ended, Answers
  <2>6. r \notin {s \in Requests : pc[s] \in Ended /\ ~isRunning(s)}
    BY <1>1 DEF Receive, at, Ended, Answers
  <2>7. ASSUME NEW t \in Requests, NEW s \in before'[t]
        PROVE  before'[s] \subseteq before'[t]
    <3>1. s \in Requests /\ s # r
      BY <2>1, <2>5, <2>6, <2>7 DEF TypeOK
    <3>2. before'[s] = before[s] /\ before[s] \subseteq Requests
      BY <2>1, <3>1 DEF TypeOK
    <3>3. CASE t = r
      BY <2>1, <2>5, <3>1, <3>2, <3>3 DEF TypeOK
    <3>4. CASE t # r
      BY <2>1, <2>7, <3>2, <3>4 DEF OrderOK, TypeOK
    <3> QED
      BY <3>3, <3>4
  <2>8. \A t \in Requests : t \notin before'[t]
    BY <2>1 DEF OrderOK, TypeOK
  <2> QED
    BY <2>4, <2>7, <2>8 DEF OrderOK
<1>2. CASE Handle(r)
  <2>1. before' = before
    BY <1>2, BeforeUnchanged
  <2>2. Received' = Received
    <3>1. ASSUME NEW s \in Requests PROVE req'[s] # Nil <=> req[s] # Nil
      <4>1. CASE s # r
        BY <4>1, <1>2, OthersUntouched DEF Untouched
      <4>2. CASE s = r
        <5>1. req[r] # Nil
          BY <1>2, HandledReceived
        <5> QED
          BY <1>2, <4>2, <5>1, ReceivedOnce
      <4> QED
        BY <4>1, <4>2
    <3> QED
      BY <3>1 DEF Received
  <2> QED
    BY <2>1, <2>2 DEF OrderOK
<1> QED
  BY <1>1, <1>2

\* A request keeps what it asks for, once received.
LEMMA TargetStays ==
    ASSUME TypeOK, PlacesOK, NEW r \in Requests, Receive(r) \/ Handle(r),
           NEW s \in Requests, req[s] # Nil
    PROVE  req'[s] # Nil /\ req'[s].target = req[s].target /\ before'[s] = before[s]
<1>1. CASE s # r
  BY <1>1, OthersUntouched DEF Untouched
<1>2. CASE s = r
  <2>1. Handle(r)
    BY <1>2 DEF Receive, PlacesOK, PlaceOK, at
  <2>2. CASE ReadSelf(r)
    BY <1>2, <2>1, <2>2, SelfRenamed, NilAssumption, BeforeUnchanged
  <2>3. CASE ~ReadSelf(r)
    <3>1. req' = req
      <4>1. CASE AddRole(r) \/ RemoveRole(r) \/ ReadById(r) \/ Select(r) \/ ReadRoles(r)
        BY <4>1 DEF AddRole, RemoveRole, ReadById, Select, ReadRoles, local
      <4>2. CASE Insert(r) \/ Update(r) \/ Delete(r)
        BY <4>2 DEF Insert, Update, Delete, local
      <4> QED
        BY <2>1, <2>3, <4>1, <4>2 DEF Handle, CheckPerm, CheckName, CheckEmail,
             FindUser, GetHash, CheckRoles, ReadAgain, local
    <3> QED
      BY <1>2, <2>1, <3>1, BeforeUnchanged
  <2> QED
    BY <2>2, <2>3
<1> QED
  BY <1>1, <1>2

\* What brings a handler to where it sets roles, or leaves it there.
LEMMA SettingBy ==
    ASSUME TypeOK, PlacesOK, NEW r \in Requests, Receive(r) \/ Handle(r),
           sets(r)', pc'[r] \in {"read", "adding", "removing", "ok"}
    PROVE  /\ \/ FindUser(r) /\ byId(uid[r]) # {}
              \/ ReadRoles(r) /\ pc'[r] # "read"
              \/ AddRole(r) /\ pc[r] = "adding" /\ pc'[r] # "read"
              \/ RemoveRole(r) /\ pc[r] = "removing" /\ pc'[r] # "read"
           /\ sets(r) /\ UNCHANGED <<req, uid, before, seq>>
<1>0. PlaceOK(r) /\ QueueOK(r)
  BY DEF PlacesOK
<1> USE <1>0 DEF PlaceOK, sets, kind, at
<1>1. CASE Receive(r)
  <2>1. PICK q \in Request :
          goto(r, CASE q.kind = "register" -> "name"
                    [] q.kind = "login"    -> "hash"
                    [] OTHER               -> "perm")
    BY <1>1 DEF Receive
  <2>2. pc'[r] \in {"name", "hash", "perm"}
    BY <2>1 DEF goto, TypeOK
  <2> QED
    BY <2>2
<1>2. CASE CheckPerm(r) \/ ReadSelf(r) \/ ReadById(r)
  BY <1>2 DEF CheckPerm, ReadSelf, ReadById, reads, goto, TypeOK
<1>3. CASE CheckName(r) \/ CheckEmail(r)
  BY <1>3 DEF CheckName, CheckEmail, refusal, reads, goto, TypeOK
<1>4. CASE Insert(r) \/ Update(r)
  BY <1>4 DEF Insert, Update, reads, goto, TypeOK
<1>5. CASE Select(r)
  <2>1. req' = req /\ (kind(r) # "register" => pc'[r] \in {"error", "threw", "find"})
    BY <1>5 DEF Select, throws, reads, goto, TypeOK
  <2> QED
    BY <1>5, <2>1 DEF Select
<1>6. CASE Delete(r)
  BY <1>6 DEF Delete, local
<1>7. CASE FindUser(r)
  BY <1>7 DEF FindUser, reads, goto, local, TypeOK
<1>8. CASE ReadRoles(r)
  BY <1>8 DEF ReadRoles, goto, afterAdds, TypeOK
<1>9. CASE AddRole(r)
  <2>1. PICK role \in adds[r] : Added(r, role)
    BY <1>9, AddsRole
  <2>2. pc[r] \in {"adding", "error"} /\ sets(r)
    BY <2>1 DEF QueueOK
  <2>3. pc[r] = "adding" /\ pc'[r] # "read"
    BY <2>1, <2>2 DEF Added, goto, afterAdds, TypeOK
  <2> QED
    BY <1>9, <2>1, <2>2, <2>3 DEF Added, local
<1>10. CASE RemoveRole(r)
  <2>1. pc[r] = "removing"
    BY <1>10 DEF RemoveRole, QueueOK
  <2>2. pc'[r] \in {"removing", "ok"} /\ UNCHANGED <<req, uid, before, seq>>
    BY <1>10, <2>1 DEF RemoveRole, goto, local, TypeOK
  <2> QED
    BY <1>10, <2>1, <2>2
<1>11. CASE GetHash(r) \/ CheckRoles(r) \/ ReadAgain(r)
  BY <1>11 DEF GetHash, CheckRoles, ReadAgain, throws, reads, goto, local, TypeOK
<1> QED
  BY <1>1, <1>2, <1>3, <1>4, <1>5, <1>6, <1>7, <1>8, <1>9, <1>10, <1>11 DEF Handle

\* Whose roles are set has an identifier that was given before.
LEMMA SettingUser ==
    ASSUME TypeOK, PlacesOK, RowsOK, SetsOK, NEW r \in Requests, Receive(r) \/ Handle(r),
           NEW s \in Requests, sets(s)', pc'[s] \in {"read", "adding", "removing", "ok"}
    PROVE  uid'[s] \in Nat /\ uid'[s] <= seq
  <1>1. CASE s # r
    <2>1. Untouched(s)
      BY <1>1, OthersUntouched
    <2>2. sets(s) /\ pc[s] \in {"read", "adding", "removing", "ok"} /\ uid'[s] = uid[s]
      BY <2>1 DEF Untouched, sets, kind
    <2> QED
      BY <2>2 DEF SetsOK
  <1>2. CASE s = r
    <2>1. /\ \/ FindUser(r) /\ byId(uid[r]) # {}
             \/ ReadRoles(r)
             \/ AddRole(r) /\ pc[r] = "adding"
             \/ RemoveRole(r) /\ pc[r] = "removing"
          /\ sets(r) /\ UNCHANGED <<req, uid, before, seq>>
      BY <1>2, SettingBy
    <2>2. CASE byId(uid[r]) # {}
      <3>1. PICK u \in users : u.id = uid[r]
        BY <2>2 DEF byId
      <3> QED
        BY <1>2, <2>1, <3>1 DEF RowsOK, TypeOK, User
    <2>3. CASE byId(uid[r]) = {}
      <3>1. pc[r] \in {"read", "adding", "removing"}
        BY <2>1, <2>3 DEF ReadRoles, at
      <3> QED
        BY <1>2, <2>1, <3>1 DEF SetsOK
    <2> QED
      BY <2>2, <2>3
  <1> QED
    BY <1>1, <1>2

LEMMA SetsStep ==
    ASSUME TypeOK, PlacesOK, PlacesOK', RowsOK, SetsOK, NEW r \in Requests,
           Receive(r) \/ Handle(r)
    PROVE  SetsOK'
<1>1. seq' \in Nat /\ seq <= seq'
  <2>1. seq' \in {seq, seq + 1}
    <3>1. CASE Insert(r)
      BY <3>1 DEF Insert, reads
    <3>2. CASE Update(r)
      BY <3>2, UpdateRow
    <3>3. CASE Delete(r) \/ RemoveRole(r) \/ AddRole(r)
      BY <3>3 DEF Delete, RemoveRole, AddRole
    <3> QED
      BY <3>1, <3>2, <3>3, Readers
  <2> QED
    BY <2>1 DEF TypeOK
<1>2. ASSUME NEW s \in Requests, pc'[s] # "idle" PROVE adds'[s] \subseteq req'[s].target
  <2>1. CASE s # r
    <3>1. Untouched(s)
      BY <2>1, OthersUntouched
    <3>2. pc[s] # "idle"
      BY <1>2, <3>1 DEF Untouched, isRunning, PlacesOK, QueueOK
    <3> QED
      BY <3>1, <3>2 DEF Untouched, SetsOK
  <2>2. CASE s = r
    <3>1. CASE Receive(r)
      <4>1. adds'[r] = {}
        BY <3>1 DEF Receive, PlacesOK, QueueOK, at
      <4> QED
        BY <2>2, <4>1
    <3>2. CASE Handle(r)
      <4>1. adds[r] \subseteq req[r].target /\ req'[r].target = req[r].target
        BY <3>2, HandledReceived, TargetStays DEF SetsOK
      <4>2. CASE ReadRoles(r)
        <5>1. adds'[r] \subseteq req[r].target
          BY <4>2 DEF ReadRoles, TypeOK
        <5> QED
          BY <2>2, <4>1, <5>1
      <4>3. CASE AddRole(r)
        <5>1. PICK role \in adds[r] : Added(r, role)
          BY <4>3, AddsRole
        <5>2. adds'[r] = adds[r] \ {role}
          BY <5>1 DEF Added, TypeOK
        <5> QED
          BY <2>2, <4>1, <5>2
      <4>4. CASE ~ReadRoles(r) /\ ~AddRole(r)
        <5>1. adds' = adds \/ adds'[r] = {}
          BY <3>2, <4>4 DEF Handle, CheckPerm, ReadSelf, ReadById, CheckName, CheckEmail, Insert,
               Update, Select, Delete, FindUser, RemoveRole, GetHash, CheckRoles, ReadAgain,
               reads, throws
        <5> QED
          BY <2>2, <4>1, <5>1
      <4> QED
        BY <4>2, <4>3, <4>4
    <3> QED
      BY <3>1, <3>2
  <2> QED
    BY <2>1, <2>2
<1>3. ASSUME NEW s \in Requests, sets(s)', pc'[s] \in {"read", "adding", "removing", "ok"}
      PROVE  uid'[s] \in Nat /\ uid'[s] <= seq'
  BY <1>1, <1>3, SettingUser DEF TypeOK
<1> QED
  BY <1>2, <1>3 DEF SetsOK

\* A handler that sets the roles of a user was received before.
LEMMA SettingKnown ==
    ASSUME TypeOK, PlacesOK, RowsOK, SetsOK, NEW r \in Requests, Receive(r) \/ Handle(r),
           NEW t \in Requests, NEW i, Setting(t, i)'
    PROVE  i \in Nat /\ i <= seq /\ req[t] # Nil /\ before'[t] = before[t]
<1>1. sets(t)' /\ pc'[t] \in {"adding", "removing", "ok"} /\ uid'[t] = i /\ req'[t] # Nil
  BY DEF Setting
<1>2. i \in Nat /\ i <= seq
  BY <1>1, SettingUser
<1>3. req[t] # Nil
  <2>1. CASE t # r
    BY <1>1, <2>1, OthersUntouched DEF Untouched
  <2>2. CASE t = r
    BY <1>1, <2>2, SettingBy, NilAssumption
  <2> QED
    BY <2>1, <2>2
<1>4. before'[t] = before[t]
  BY <1>3, TargetStays
<1> QED
  BY <1>2, <1>3, <1>4

\* What a step gives is there after it, what it takes is not.
LEMMA GivesTakes ==
    ASSUME TypeOK, PlacesOK, NEW r \in Requests, Receive(r) \/ Handle(r),
           NEW t \in Requests, NEW i, NEW role
    PROVE  /\ gave(t, i, role)' => gave(t, i, role) \/ <<i, role>> \in userRoles'
           /\ took(t, i, role)' => took(t, i, role) \/ <<i, role>> \notin userRoles'
<1>1. CASE t # r
  <2>1. Untouched(t)
    BY <1>1, OthersUntouched
  <2>2. adds[t] # {} => pc[t] \in {"adding", "error"}
    BY DEF PlacesOK, QueueOK
  <2>3. dels[t] # {} => pc[t] = "removing"
    BY DEF PlacesOK, QueueOK
  <2>4. ASSUME Setting(t, i)'
        PROVE  /\ Setting(t, i) /\ req'[t] = req[t] /\ adds'[t] = adds[t] /\ dels'[t] = dels[t]
               /\ orig'[t] = orig[t] /\ pc'[t] = pc[t]
    <3>1. pc'[t] = pc[t] /\ pc[t] \in {"adding", "removing", "ok"}
      BY <2>1, <2>4 DEF Untouched, Setting
    <3>2. adds'[t] = adds[t] /\ dels'[t] = dels[t]
      BY <2>1, <2>2, <2>3, <3>1 DEF Untouched, isRunning, Ended, Answers
    <3> QED
      BY <2>1, <2>4, <3>1, <3>2 DEF Untouched, Setting, sets, kind
  <2> QED
    BY <2>4 DEF gave, took
<1>2. CASE t = r /\ Setting(t, i)'
  <2>1. /\ \/ ReadRoles(r)
           \/ AddRole(r) /\ pc[r] = "adding"
           \/ RemoveRole(r) /\ pc[r] = "removing"
        /\ sets(r) /\ UNCHANGED <<req, uid>> /\ uid[r] = i
    <3>1. sets(r)' /\ pc'[r] \in {"adding", "removing", "ok"} /\ uid'[r] = i
      BY <1>2 DEF Setting
    <3>2. ~FindUser(r)
      BY <3>1 DEF FindUser, reads, goto, TypeOK
    <3> QED
      BY <3>1, <3>2, SettingBy
  <2>2. CASE ReadRoles(r)
    <3> DEFINE had == rolesOf(uid[r])
               target == req[r].target
    <3>1. /\ orig'[r] = had /\ adds'[r] = target \ had /\ userRoles' = userRoles
          /\ dels'[r] = IF target \subseteq had THEN had \ target ELSE {}
          /\ pc'[r] = afterAdds(target \ had, had \ target)
      BY <2>2 DEF ReadRoles, goto, TypeOK
    <3>2. role \in had <=> <<i, role>> \in userRoles
      BY <2>1, RolesOfRows
    <3>3. target \ had # {} => pc'[r] = "adding"
      BY <3>1 DEF afterAdds
    <3> HIDE DEF had
    <3>4. took(t, i, role)' => <<i, role>> \notin userRoles'
      BY <1>2, <2>1, <3>1, <3>2, <3>3 DEF took
    <3>5. gave(t, i, role)' => <<i, role>> \in userRoles'
      BY <1>2, <2>1, <3>1, <3>2 DEF gave
    <3> QED
      BY <3>4, <3>5
  <2>3. CASE AddRole(r) /\ pc[r] = "adding"
    <3>1. PICK x \in adds[r] : Added(r, x)
      BY <2>3, AddsRole
    <3>2. /\ isInsertable(r, x)
          /\ userRoles' = userRoles \cup {<<uid[r], x>>} /\ adds'[r] = adds[r] \ {x}
          /\ pc'[r] = afterAdds(adds[r] \ {x}, orig[r] \ req[r].target)
          /\ dels'[r] = IF adds[r] \ {x} = {} THEN orig[r] \ req[r].target ELSE {}
          /\ orig' = orig
      BY <1>2, <2>3, <3>1 DEF Added, goto, local, TypeOK, Setting
    <3>3. Setting(r, i)
      BY <1>2, <2>1, <2>3, NilAssumption DEF Setting
    <3>4. adds[r] \ {x} # {} => pc'[r] = "adding"
      BY <3>2 DEF afterAdds
    <3>5. gave(t, i, role)' => gave(t, i, role) \/ <<i, role>> \in userRoles'
      BY <1>2, <2>1, <3>2, <3>3 DEF gave
    <3>6. took(t, i, role)' => took(t, i, role)
      BY <1>2, <2>1, <3>2, <3>3, <3>4 DEF took
    <3> QED
      BY <3>5, <3>6
  <2>4. CASE RemoveRole(r) /\ pc[r] = "removing"
    <3>1. PICK x \in dels[r] :
            /\ dels' = [dels EXCEPT ![r] = @ \ {x}] /\ userRoles' = userRoles \ {<<uid[r], x>>}
            /\ UNCHANGED <<adds, local>>
      BY <2>4 DEF RemoveRole
    <3>2. dels'[r] = dels[r] \ {x} /\ UNCHANGED <<adds, orig>>
      BY <3>1 DEF TypeOK, local
    <3>3. Setting(r, i)
      BY <1>2, <2>1, <2>4, NilAssumption DEF Setting
    <3>4. gave(t, i, role)' => gave(t, i, role)
      BY <1>2, <2>1, <3>2, <3>3 DEF gave
    <3>5. took(t, i, role)' => took(t, i, role) \/ <<i, role>> \notin userRoles'
      BY <1>2, <2>1, <2>4, <3>1, <3>2, <3>3 DEF took
    <3> QED
      BY <3>4, <3>5
  <2> QED
    BY <2>1, <2>2, <2>3, <2>4
<1>3. CASE ~Setting(t, i)'
  BY <1>3 DEF gave, took
<1> QED
  BY <1>1, <1>2, <1>3

\* Who may have removed or added a role stays one who may have.
LEMMA WitnessStays ==
    ASSUME TypeOK, PlacesOK, SetsOK, NEW r \in Requests, Receive(r) \/ Handle(r),
           NEW i \in Nat, NEW role
    PROVE  /\ Removers(i, role) \subseteq Removers(i, role)'
           /\ Adders(i, role) \subseteq Adders(i, role)'
           /\ RemoveRole(r) /\ uid[r] = i /\ <<i, role>> \in userRoles \ userRoles' =>
                 r \in Removers(i, role)'
           /\ AddRole(r) /\ uid[r] = i /\ <<i, role>> \in userRoles' \ userRoles =>
                 r \in Adders(i, role)'
<1> DEFINE Acting == {"adding", "removing", "ok", "error", "lost"}
           Gone   == {"removing", "ok", "lost"}
<1>1. ASSUME NEW s \in Setters(i), pc[s] \in Acting
      PROVE  /\ s \in Setters(i)' /\ req'[s].target = req[s].target /\ pc'[s] \in Acting
             /\ pc[s] \in Gone => pc'[s] \in Gone
  <2>1. s \in Requests /\ req[s] # Nil /\ sets(s) /\ uid[s] = i /\ i # Nil
    BY NilAssumption DEF Setters, sets, kind
  <2>2. s \in Setters(i)' /\ req'[s].target = req[s].target
    <3>1. uid'[s] = i /\ req'[s] # Nil /\ sets(s)'
      BY <2>1, SettersStay
    <3>2. req'[s].target = req[s].target
      BY <2>1, TargetStays
    <3> QED
      BY <2>1, <3>1, <3>2 DEF Setters, sets, kind
  <2>3. CASE s # r
    <3>1. Untouched(s)
      BY <2>1, <2>3, OthersUntouched
    <3>2. pc'[s] \in {pc[s], "lost"}
      BY <3>1 DEF Untouched
    <3> QED
      BY <1>1, <2>2, <3>2
  <2>4. CASE s = r
    <3>1. AddRole(r) \/ RemoveRole(r)
      BY <1>1, <2>4 DEF Receive, Handle, CheckPerm, ReadSelf, ReadById, CheckName, CheckEmail,
           Insert, Update, Select, Delete, FindUser, ReadRoles, GetHash, CheckRoles, ReadAgain, at
    <3>2. CASE AddRole(r)
      <4>1. PICK x \in adds[r] : Added(r, x)
        BY <3>2, AddsRole
      <4>2. pc[r] \in {"adding", "error"}
        BY <4>1 DEF PlacesOK, QueueOK
      <4>3. pc'[r] \in {"adding", "removing", "ok", "error"}
        BY <4>1, <4>2 DEF Added, goto, afterAdds, TypeOK
      <4> QED
        BY <2>2, <2>4, <4>2, <4>3
    <3>3. CASE RemoveRole(r)
      <4>1. pc[r] = "removing"
        BY <3>3 DEF RemoveRole, PlacesOK, QueueOK
      <4>2. pc'[r] \in {"removing", "ok"}
        BY <3>3, <4>1 DEF RemoveRole, goto, TypeOK
      <4> QED
        BY <2>2, <2>4, <4>2
    <3> QED
      BY <3>1, <3>2, <3>3
  <2> QED
    BY <2>3, <2>4
<1>2. Removers(i, role) \subseteq Removers(i, role)'
  BY <1>1 DEF Removers
<1>3. Adders(i, role) \subseteq Adders(i, role)'
  BY <1>1 DEF Adders
<1>4. ASSUME RemoveRole(r), uid[r] = i, <<i, role>> \in userRoles \ userRoles'
      PROVE  r \in Removers(i, role)'
  <2>1. PICK x \in dels[r] : userRoles' = userRoles \ {<<uid[r], x>>}
    BY <1>4 DEF RemoveRole
  <2>2. role \in dels[r]
    BY <1>4, <2>1
  <2>3. pc[r] = "removing" /\ role \notin req[r].target
    BY <2>2 DEF PlacesOK, QueueOK
  <2>4. req[r] # Nil /\ sets(r)
    BY <2>3 DEF PlacesOK, PlaceOK
  <2>5. r \in Removers(i, role)
    BY <1>4, <2>3, <2>4 DEF Removers, Setters, sets, kind
  <2> QED
    BY <1>2, <2>5
<1>5. ASSUME AddRole(r), uid[r] = i, <<i, role>> \in userRoles' \ userRoles
      PROVE  r \in Adders(i, role)'
  <2>1. PICK x \in adds[r] : Added(r, x)
    BY <1>5, AddsRole
  <2>2. role \in adds[r]
    BY <1>5, <2>1 DEF Added
  <2>3. pc[r] \in {"adding", "error"} /\ sets(r)
    BY <2>2 DEF PlacesOK, QueueOK
  <2>4. req[r] # Nil /\ role \in req[r].target
    BY <2>2, <2>3 DEF PlacesOK, PlaceOK, SetsOK
  <2>5. r \in Adders(i, role)
    BY <1>5, <2>3, <2>4 DEF Adders, Setters, sets, kind
  <2> QED
    BY <1>3, <2>5
<1> QED
  BY <1>2, <1>3, <1>4, <1>5

\* A role comes by AddRole only.
LEMMA RolesCome ==
    ASSUME TypeOK, NEW r \in Requests, Receive(r) \/ Handle(r),
           NEW i, NEW role, <<i, role>> \in userRoles', <<i, role>> \notin userRoles
    PROVE  AddRole(r) /\ uid[r] = i /\ adds[r] # {}
<1>1. CASE AddRole(r)
  <2>1. PICK x \in adds[r] : Added(r, x)
    BY <1>1, AddsRole
  <2> QED
    BY <1>1, <2>1 DEF Added
<1>2. CASE Insert(r) \/ Update(r)
  BY <1>2, InsertRow, UpdateRow
<1>3. CASE Delete(r) \/ RemoveRole(r)
  <2>1. userRoles' \subseteq userRoles
    BY <1>3 DEF Delete, RemoveRole
  <2> QED
    BY <2>1
<1> QED
  BY <1>1, <1>2, <1>3, Readers

LEMMA RoleStep ==
    ASSUME TypeOK, PlacesOK, BeforeOK, RowsOK, SetsOK, NEW r \in Requests,
           Receive(r) \/ Handle(r), NEW i \in Nat, byId(i)' # {}, NEW role,
           byId(i) # {} => RoleOK(i, role)
    PROVE  RoleOK(i, role)'
<1>1. ASSUME <<i, role>> \notin userRoles', NEW r0 \in Requests, gave(r0, i, role)'
      PROVE  \E s \in Removers(i, role)' :
                \A t \in Requests : gave(t, i, role)' => s \notin before'[t]
  <2>1. i <= seq
    BY <1>1, SettingKnown DEF gave
  <2>2. byId(i) # {} /\ (<<i, role>> \in userRoles => RemoveRole(r) /\ uid[r] = i)
    BY <1>1, <2>1, RolesLost
  <2>3. ASSUME NEW t \in Requests, gave(t, i, role)'
        PROVE  gave(t, i, role) /\ before'[t] = before[t]
    <3>1. Setting(t, i)'
      BY <2>3 DEF gave
    <3> QED
      BY <1>1, <2>3, <3>1, GivesTakes, SettingKnown
  <2>4. CASE <<i, role>> \notin userRoles
    <3>1. PICK s \in Removers(i, role) : \A t \in Requests : gave(t, i, role) => s \notin before[t]
      BY <1>1, <2>2, <2>3, <2>4 DEF RoleOK
    <3>2. s \in Removers(i, role)'
      BY <3>1, WitnessStays
    <3> QED
      BY <2>3, <3>1, <3>2
  <2>5. CASE <<i, role>> \in userRoles
    <3>1. r \in Removers(i, role)'
      BY <1>1, <2>2, <2>5, WitnessStays
    <3>2. pc[r] = "removing"
      BY <2>2, <2>5 DEF RemoveRole, PlacesOK, QueueOK
    <3>3. \A t \in Requests : r \notin before[t]
      BY <3>2 DEF BeforeOK, Ended, Answers
    <3> QED
      BY <2>3, <3>1, <3>3
  <2> QED
    BY <2>4, <2>5
<1>2. ASSUME <<i, role>> \in userRoles', NEW r0 \in Requests, took(r0, i, role)'
      PROVE  \E s \in Adders(i, role)' :
                \A t \in Requests : took(t, i, role)' => s \notin before'[t]
  <2>1. i <= seq
    BY <1>2, SettingKnown DEF took
  <2>2. byId(i) # {}
    BY <2>1, RolesLost
  <2>3. ASSUME NEW t \in Requests, took(t, i, role)'
        PROVE  took(t, i, role) /\ before'[t] = before[t]
    <3>1. Setting(t, i)'
      BY <2>3 DEF took
    <3> QED
      BY <1>2, <2>3, <3>1, GivesTakes, SettingKnown
  <2>4. CASE <<i, role>> \in userRoles
    <3>1. PICK s \in Adders(i, role) : \A t \in Requests : took(t, i, role) => s \notin before[t]
      BY <1>2, <2>2, <2>3, <2>4 DEF RoleOK
    <3>2. s \in Adders(i, role)'
      BY <3>1, WitnessStays
    <3> QED
      BY <2>3, <3>1, <3>2
  <2>5. CASE <<i, role>> \notin userRoles
    <3>1. AddRole(r) /\ uid[r] = i /\ adds[r] # {}
      BY <1>2, <2>5, RolesCome
    <3>2. r \in Adders(i, role)'
      BY <1>2, <2>5, <3>1, WitnessStays
    <3>3. \A t \in Requests : r \notin before[t]
      BY <3>1 DEF BeforeOK
    <3> QED
      BY <2>3, <3>2, <3>3
  <2> QED
    BY <2>4, <2>5
<1> QED
  BY <1>1, <1>2 DEF RoleOK

LEMMA AgreeInit == Init => AgreeInv
<1> SUFFICES ASSUME Init PROVE AgreeInv
  OBVIOUS
<1>1. \A r \in Requests : pc[r] = "idle" /\ req[r] = Nil /\ before[r] = {}
  BY DEF Init
<1>2. OrderOK
  <2>1. Received = {}
    BY <1>1 DEF Received
  <2> QED
    BY <1>1, <2>1, FS_EmptySet DEF OrderOK
<1>3. \A i, role : RoleOK(i, role)
  BY <1>1 DEF RoleOK, gave, took, Setting
<1> QED
  BY <1>1, <1>2, <1>3 DEF AgreeInv, SetsOK

LEMMA AgreeStep == IInv /\ IInv' /\ AgreeInv /\ [Next]_vars => AgreeInv'
<1> SUFFICES ASSUME IInv, IInv', AgreeInv, [Next]_vars PROVE AgreeInv'
  OBVIOUS
<1> USE DEF IInv
<1>1. CASE UNCHANGED vars
  <2>1. OrderOK' /\ SetsOK'
    BY <1>1 DEF AgreeInv, OrderOK, Received, SetsOK, sets, kind, vars, local
  <2>2. ASSUME NEW i, NEW role, RoleOK(i, role) PROVE RoleOK(i, role)'
    <3> USE <1>1 DEF vars, local, sets, kind
    <3>1. Removers(i, role)' = Removers(i, role) /\ Adders(i, role)' = Adders(i, role)
      BY DEF Removers, Adders, Setters
    <3>2. \A t \in Requests : (gave(t, i, role)' <=> gave(t, i, role))
                              /\ (took(t, i, role)' <=> took(t, i, role))
      BY DEF gave, took, Setting
    <3> QED
      BY <2>2, <3>1, <3>2 DEF RoleOK
  <2> QED
    BY <1>1, <2>1, <2>2 DEF AgreeInv, vars
<1>2. ASSUME NEW r \in Requests, Receive(r) \/ Handle(r) PROVE AgreeInv'
  <2>1. OrderOK' /\ SetsOK'
    BY <1>2, OrderStep, SetsStep DEF AgreeInv
  <2>2. ASSUME NEW u \in users', NEW role \in Roles PROVE RoleOK(u.id, role)'
    <3>1. PICK i \in Nat : i = u.id
      BY <2>2 DEF TypeOK, User
    <3>2. byId(i)' # {}
      BY <2>2, <3>1 DEF byId
    <3>3. byId(i) # {} => RoleOK(i, role)
      BY DEF byId, AgreeInv
    <3>4. RoleOK(i, role)'
      BY <1>2, <3>2, <3>3, RoleStep DEF AgreeInv
    <3>5. RoleOK(i, role)' <=> RoleOK(u.id, role)'
      BY <3>1
    <3> QED
      BY <3>4, <3>5
  <2> QED
    BY <2>1, <2>2 DEF AgreeInv
<1> QED
  BY <1>1, <1>2 DEF Next

\* Among requests that were received, some ended before none of the others.
LEMMA LastExists ==
    ASSUME PlacesOK, BeforeOK, TypeOK, OrderOK, NEW D \in SUBSET Received, D # {}
    PROVE  \E m \in D : \A t \in D : m \notin before[t]
<1> DEFINE n == Cardinality(Received)
           c(t) == n - Cardinality(before[t])
           S == {c(t) : t \in D}
<1>1. ASSUME NEW t \in D
      PROVE  /\ IsFiniteSet(before[t]) /\ Cardinality(before[t]) \in Nat
             /\ Cardinality(before[t]) <= n
  <2>1. t \in Requests
    BY DEF Received
  <2>2. before[t] \in SUBSET Received
    BY <2>1 DEF BeforeOK, PlacesOK, PlaceOK, Received, Ended, Answers, TypeOK
  <2> QED
    BY <2>2, FS_Subset, FS_CardinalityType DEF OrderOK
<1>2. n \in Nat
  BY FS_CardinalityType DEF OrderOK
<1> HIDE DEF n
<1>3. S \in SUBSET Nat /\ S # {}
  BY <1>1, <1>2
<1>4. PICK k \in S : \A x \in S : k <= x
  BY <1>3, SmallestNat
<1>5. PICK m \in D : c(m) = k
  BY <1>4
<1>6. ASSUME NEW t \in D, m \in before[t] PROVE FALSE
  <2>1. before[m] \in SUBSET before[t] /\ m \in before[t] \ before[m]
    BY <1>6 DEF OrderOK, Received
  <2>2. Cardinality(before[m]) <= Cardinality(before[t])
        /\ Cardinality(before[m]) # Cardinality(before[t])
    BY <1>1, <2>1, FS_Subset
  <2>3. c(m) <= c(t)
    BY <1>4, <1>5
  <2> QED
    BY <1>1, <1>2, <2>2, <2>3
<1> QED
  BY <1>6

\* The setters of a user that succeeded, and those after which none did.
Done(i) == {r \in Setters(i) : pc[r] = "ok"}
Last(i) == {r \in Done(i) : \A s \in Done(i) : r \notin before[s]}

\* After a request that succeeded, or in its place, comes one of the last.
LEMMA LastFollows ==
    ASSUME PlacesOK, BeforeOK, TypeOK, OrderOK, NEW i, NEW s \in Done(i)
    PROVE  \E m \in Last(i) : m = s \/ s \in before[m]
<1> DEFINE D == {t \in Done(i) : t = s \/ s \in before[t]}
<1>1. D \in SUBSET Received /\ D # {}
  BY DEF Received, Done, Setters
<1>2. PICK m \in D : \A t \in D : m \notin before[t]
  BY <1>1, LastExists
<1>3. ASSUME NEW t \in Done(i), m \in before[t] PROVE FALSE
  <2>1. s \in before[t]
    BY <1>2, <1>3 DEF OrderOK, Done, Setters
  <2> QED
    BY <1>2, <1>3, <2>1
<1> QED
  BY <1>2, <1>3 DEF Last

\* What succeeded has given what it asked for, and taken the rest.
LEMMA DoneSettled ==
    ASSUME PlacesOK, NEW i, NEW r \in Done(i), NEW role
    PROVE  /\ role \in req[r].target => gave(r, i, role)
           /\ role \notin req[r].target => took(r, i, role)
<1>1. r \in Requests /\ pc[r] = "ok" /\ Setting(r, i)
  BY DEF Done, Setters, Setting, sets, kind
<1>2. adds[r] = {} /\ dels[r] = {}
  BY <1>1 DEF PlacesOK, QueueOK
<1> QED
  BY <1>1, <1>2 DEF gave, took

\* dbUpdateUserRoles, however many requests set the roles of a user at a time and
\* whatever order their queries take, leaves what the last that succeeded agree on,
\* and nothing that neither they nor one that failed asked for.
THEOREM RolesAreAgreed == Spec => []RolesAgreed
<1>1. ASSUME IInv, AgreeInv, NEW u \in users, Done(u.id) # {},
             \A r \in Setters(u.id) : pc[r] \in Answers /\ adds[r] = {}
      PROVE  /\ \A role \in Roles :
                   (\A r \in Last(u.id) : role \in req[r].target) => role \in rolesOf(u.id)
             /\ rolesOf(u.id) \subseteq
                  UNION {req[r].target :
                           r \in Last(u.id) \cup {s \in Setters(u.id) : pc[s] = "error"}}
  <2> DEFINE i == u.id
             asked == UNION {req[r].target :
                               r \in Last(i) \cup {s \in Setters(i) : pc[s] = "error"}}
  <2> USE <1>1 DEF IInv
  <2>1. \A role \in Roles : RoleOK(i, role)
    BY DEF AgreeInv
  <2>2. OrderOK
    BY DEF AgreeInv
  <2>3. PICK d \in Last(i) : TRUE
    BY <2>2, LastFollows
  <2>4. Last(i) \subseteq Done(i) /\ Done(i) \subseteq Requests
    BY DEF Last, Done, Setters
  <2> HIDE DEF i
  <2>5. ASSUME NEW role \in Roles, \A r \in Last(i) : role \in req[r].target,
               role \notin rolesOf(i)
        PROVE  FALSE
    <3>1. gave(d, i, role) /\ d \in Requests
      BY <2>3, <2>4, <2>5, DoneSettled
    <3>2. <<i, role>> \notin userRoles
      BY <2>5, RolesOfRows
    <3>3. PICK s \in Removers(i, role) : \A t \in Requests : gave(t, i, role) => s \notin before[t]
      BY <2>1, <3>1, <3>2 DEF RoleOK
    <3>4. s \in Done(i) /\ role \notin req[s].target
      BY <3>3 DEF Removers, Done, Answers, i
    <3>5. PICK m \in Last(i) : m = s \/ s \in before[m]
      BY <2>2, <3>4, LastFollows
    <3>6. m # s /\ gave(m, i, role)
      BY <2>4, <2>5, <3>4, DoneSettled
    <3> QED
      BY <2>4, <3>3, <3>5, <3>6
  <2>6. ASSUME NEW role \in rolesOf(i), role \notin asked PROVE FALSE
    <3>1. role \in Roles /\ <<i, role>> \in userRoles
      BY <2>6, RolesOfRows, RolesOfType
    <3>2. \A r \in Last(i) : role \notin req[r].target
      BY <2>6
    <3>3. took(d, i, role) /\ d \in Requests
      BY <2>3, <2>4, <3>2, DoneSettled
    <3>4. PICK s \in Adders(i, role) : \A t \in Requests : took(t, i, role) => s \notin before[t]
      BY <2>1, <3>1, <3>3 DEF RoleOK
    <3>5. s \in Setters(i) /\ role \in req[s].target /\ pc[s] \in {"ok", "error"}
      BY <3>4 DEF Adders, Answers, i
    <3>6. s \in Done(i)
      BY <2>6, <3>5 DEF Done
    <3>7. PICK m \in Last(i) : m = s \/ s \in before[m]
      BY <2>2, <3>6, LastFollows
    <3>8. m # s /\ took(m, i, role)
      BY <2>4, <3>2, <3>5, DoneSettled
    <3> QED
      BY <2>4, <3>4, <3>7, <3>8
  <2> QED
    BY <2>5, <2>6 DEF i
<1>2. IInv /\ AgreeInv => RolesAgreed
  BY <1>1 DEF RolesAgreed, Done, Last
<1>3. IInv /\ IInv' /\ AgreeInv /\ [Next]_vars => AgreeInv'
  BY AgreeStep
<1>4. Init => AgreeInv
  BY AgreeInit
<1> QED
  BY <1>2, <1>3, <1>4, Invariance, PTL DEF Spec

=============================================================================
