---------------------------- MODULE UserAccounts ----------------------------
(***************************************************************************)
(* The accounts of rudi-manager and their roles: an administrator creates, *)
(* edits and deletes users, users register and log in.                     *)
(*                                                                         *)
(* A handler makes its requests to SQLite one after the other, those of    *)
(* other handlers in between: a request is a step.  The roles of a user    *)
(* are added all at once, then removed all at once, in any order.          *)
(***************************************************************************)
EXTENDS Naturals, FiniteSets

CONSTANTS
    Requests,   \* each used at most once
    Names, Emails,
    Boss,       \* the name in the token of the administrator
    Roles,      \* the rows of the table Roles
    RoleArgs,   \* the roles that requests name, of which some may be unknown
    ADMIN,      \* ROLE_ADMIN
    Nil,
    Kinds,      \* the kinds of requests made, see AllKinds
    MaxId       \* bound on the identifiers that requests name

AllKinds == {"create", "edit", "delete", "register", "login"}

ASSUME ConstantsAssumption ==
    /\ Boss \in Names /\ ADMIN \in Roles
    /\ Kinds \subseteq AllKinds
    /\ MaxId \in Nat \ {0}

VARIABLES
    users,      \* the table Users
    seq,        \* the last identifier that was given
    userRoles,  \* the table User_Roles
    req,        \* what is asked
    pc,         \* the next request to SQLite of its handler
    uid,        \* the identifier of the user that it found or inserted
    orig,       \* origRoles, as it was read
    adds, dels, \* the roles whose addition, or removal, is queued
    losses,     \* (history) what users lost while the request ran: a name, a role
    before      \* (history) the requests that had ended when it was received

local == <<req, uid, orig, before>>
vars == <<users, seq, userRoles, pc, adds, dels, losses, local>>

-----------------------------------------------------------------------------
(* Data *)

Ids == 1 .. MaxId
User == [id : Nat, name : Names, email : Emails]

\* "ok", "refused" and "error": 200; 400, 401, 403 or 404; 500.
Answers == {"ok", "refused", "error"}
PC == {"idle", "perm", "self", "byId", "name", "email", "insert", "update", "select", "find",
       "read", "adding", "removing", "delete", "hash", "check", "again", "threw", "lost"}
      \cup Answers

\* What a request is given, Nil where it has no such parameter.
Request ==
    {q \in [kind : Kinds, id : Ids \cup {Nil}, name : Names \cup {Nil},
            email : Emails \cup {Nil}, target : SUBSET RoleArgs] :
        /\ q.id = Nil    <=> q.kind \notin {"edit", "delete"}
        /\ q.name = Nil  <=> q.kind = "delete"
        /\ q.email = Nil <=> q.kind \in {"delete", "login"}
        /\ q.target # {}  => q.kind \in {"create", "edit"}
        /\ q.target = {}  => q.kind # "create"}

ASSUME NilAssumption == Nil \notin Nat \cup Names \cup Emails \cup Request

byName(n)  == {u \in users : u.name = n}
byId(i)    == {u \in users : u.id = i}
byEmail(e) == {u \in users : u.email = e}
rolesOf(i) == {ur[2] : ur \in {g \in userRoles : g[1] = i}}
rolesOfName(n) == UNION {rolesOf(u.id) : u \in byName(n)}

Ended == {"threw", "lost"} \cup Answers
isRunning(r) == pc[r] \notin {"idle"} \cup Ended \/ adds[r] # {}

at(r, place) == pc[r] = place
goto(r, place) == pc' = [pc EXCEPT ![r] = place]

\* A read, after which the handler goes on, or ends.
reads(r, place) == goto(r, place) /\ UNCHANGED <<users, seq, userRoles, adds, dels, losses>>

\* The users of these identifiers lose their names, or one of their roles.
loses(ids, what) ==
    losses' = [r \in Requests |->
                 IF isRunning(r) /\ \E u \in users : u.id \in ids
                   THEN losses[r] \cup {what} ELSE losses[r]]

\* An exception in a callback that nothing catches, or a promise whose rejection
\* nothing handles: the process ends, is started again, and the requests that were
\* under way are lost.
throws(r) ==
    /\ pc' = [s \in Requests |-> CASE s = r        -> "threw"
                                   [] isRunning(s) /\ s # r -> "lost"
                                   [] OTHER        -> pc[s]]
    /\ adds' = [s \in Requests |-> {}]
    /\ dels' = [s \in Requests |-> {}]
    /\ UNCHANGED <<users, seq, userRoles, losses>>

-----------------------------------------------------------------------------
(* The requests *)

Receive(r) ==
    /\ at(r, "idle")
    /\ \E q \in Request :
         /\ req' = [req EXCEPT ![r] = q]
         /\ goto(r, CASE q.kind = "register" -> "name"
                      [] q.kind = "login"    -> "hash"
                      [] OTHER               -> "perm")
    /\ before' = [before EXCEPT ![r] = {s \in Requests : pc[s] \in Ended /\ ~isRunning(s)}]
    /\ UNCHANGED <<users, seq, userRoles, adds, dels, losses, uid, orig>>

\* checkRolePerm, of the requests of the administrator.
CheckPerm(r) ==
    /\ at(r, "perm")
    /\ reads(r, IF ADMIN \notin rolesOfName(Boss) THEN "refused"
                ELSE CASE req[r].kind = "create" -> "name"
                       [] req[r].kind = "edit"   -> "self"
                       [] OTHER                  -> "byId")
    /\ UNCHANGED local

\* editUser: "An admin user can't change their own name".
ReadSelf(r) ==
    /\ at(r, "self")
    /\ reads(r, IF byName(Boss) = {} THEN "error" ELSE "byId")
    /\ req' = [req EXCEPT ![r].name =
                  IF \E u \in byName(Boss) : u.id = req[r].id THEN Boss ELSE @]
    /\ UNCHANGED <<uid, orig, before>>

ReadById(r) ==
    LET found == byId(req[r].id) # {}
    IN  /\ at(r, "byId")
        /\ reads(r, CASE req[r].kind = "edit"            -> "name"
                      [] req[r].kind # "edit" /\ found -> "delete"
                      [] OTHER                          -> "refused")
        /\ uid' = [uid EXCEPT ![r] = IF found THEN req[r].id ELSE Nil]
        /\ UNCHANGED <<req, orig, before>>

\* Another user has it: a TypeError where the one to edit was not found.
isTaken(r, others) == \E u \in others : u.id # uid[r]
refusal(r) == IF req[r].kind = "edit" /\ uid[r] = Nil THEN "error" ELSE "refused"

CheckName(r) ==
    /\ at(r, "name")
    /\ reads(r, IF isTaken(r, byName(req[r].name)) THEN refusal(r)
                ELSE IF req[r].kind = "register" THEN "insert" ELSE "email")
    /\ UNCHANGED local

\* The first user with that e-mail is read.
first(us) == {u \in us : \A v \in us : u.id <= v.id}

\* Faulty: the e-mail is not looked for.
CheckEmail_skip(r) ==
    /\ at(r, "email")
    /\ reads(r, IF req[r].kind = "edit" THEN "update" ELSE "insert")
    /\ UNCHANGED local

CheckEmail(r) ==
    /\ at(r, "email")
    /\ reads(r, IF isTaken(r, first(byEmail(req[r].email))) THEN refusal(r)
                ELSE IF req[r].kind = "edit" THEN "update" ELSE "insert")
    /\ UNCHANGED local

\* Faulty: the violation of the constraint is not handled.
Insert_unhandled(r) ==
    /\ at(r, "insert")
    /\ IF byName(req[r].name) # {}
         THEN throws(r)
         ELSE /\ users' = users \cup {[id |-> seq + 1, name |-> req[r].name, email |-> req[r].email]}
              /\ seq' = seq + 1
              /\ goto(r, "select")
              /\ UNCHANGED <<userRoles, adds, dels, losses>>
    /\ UNCHANGED local

\* dbCreateUser, dbCreateUserCheckExists: the name is UNIQUE.
Insert(r) ==
    /\ at(r, "insert")
    /\ IF byName(req[r].name) # {}
         THEN reads(r, "error")
         ELSE /\ users' = users \cup {[id |-> seq + 1, name |-> req[r].name, email |-> req[r].email]}
              /\ seq' = seq + 1
              /\ goto(r, "select")
              /\ UNCHANGED <<userRoles, adds, dels, losses>>
    /\ UNCHANGED local

\* dbUpdateUser, which changes nothing where the user is gone.
Update(r) ==
    LET q == req[r]
    IN  /\ at(r, "update")
        /\ IF byId(q.id) # {} /\ \E u \in byName(q.name) : u.id # q.id
             THEN reads(r, "error")
             ELSE /\ users' = {IF u.id = q.id THEN [u EXCEPT !.name = q.name, !.email = q.email]
                                              ELSE u : u \in users}
                  /\ goto(r, "select")
                  /\ loses({u.id : u \in {v \in byId(q.id) : v.name # q.name}}, "name")
                  /\ UNCHANGED <<seq, userRoles, adds, dels>>
        /\ UNCHANGED local

\* The user is read again, by its name, which nobody may bear now.
Select(r) ==
    LET found == byName(req[r].name)
    IN  /\ at(r, "select")
        /\ CASE found = {} /\ req[r].kind = "edit" -> reads(r, "error") /\ UNCHANGED uid
             [] found = {} /\ req[r].kind # "edit" -> throws(r) /\ UNCHANGED uid
             [] OTHER ->
                  /\ reads(r, IF req[r].kind = "register" THEN "ok" ELSE "find")
                  /\ uid' = [uid EXCEPT ![r] = IF req[r].kind = "edit" THEN req[r].id
                                               ELSE CHOOSE i \in {u.id : u \in found} : TRUE]
        /\ UNCHANGED <<req, orig, before>>

\* Faulty: the connection does not enforce the foreign keys.
Delete_orphans(r) ==
    /\ at(r, "delete")
    /\ users' = users \ byId(req[r].id)
    /\ loses({req[r].id}, "name")
    /\ goto(r, "ok")
    /\ UNCHANGED <<seq, userRoles, adds, dels, local>>

\* The roles of the user go with it: ON DELETE CASCADE.
Delete(r) ==
    /\ at(r, "delete")
    /\ users' = users \ byId(req[r].id)
    /\ userRoles' = {ur \in userRoles : ur[1] # req[r].id}
    /\ loses({req[r].id}, "name")
    /\ goto(r, "ok")
    /\ UNCHANGED <<seq, adds, dels, local>>

-----------------------------------------------------------------------------
(* dbUpdateUserRoles *)

FindUser(r) ==
    /\ at(r, "find")
    /\ reads(r, IF byId(uid[r]) = {} THEN "error" ELSE "read")
    /\ UNCHANGED local

\* Where the additions, then the removals, are done.
afterAdds(toAdd, toDrop) ==
    IF toAdd # {} THEN "adding" ELSE IF toDrop # {} THEN "removing" ELSE "ok"

\* Faulty: the roles that are kept are not taken out of origRoles.
ReadRoles_all(r) ==
    LET had    == rolesOf(uid[r])
        target == req[r].target
    IN  /\ at(r, "read")
        /\ orig' = [orig EXCEPT ![r] = had]
        /\ adds' = [adds EXCEPT ![r] = target \ had]
        /\ dels' = [dels EXCEPT ![r] = IF target \subseteq had THEN had ELSE {}]
        /\ goto(r, afterAdds(target \ had, had))
        /\ UNCHANGED <<users, seq, userRoles, losses, req, uid, before>>

\* Faulty: the removals do not await the additions.
ReadRoles_together(r) ==
    LET had    == rolesOf(uid[r])
        target == req[r].target
    IN  /\ at(r, "read")
        /\ orig' = [orig EXCEPT ![r] = had]
        /\ adds' = [adds EXCEPT ![r] = target \ had]
        /\ dels' = [dels EXCEPT ![r] = had \ target]
        /\ goto(r, afterAdds(target \ had, had \ target))
        /\ UNCHANGED <<users, seq, userRoles, losses, req, uid, before>>

ReadRoles(r) ==
    LET had    == rolesOf(uid[r])
        target == req[r].target
    IN  /\ at(r, "read")
        /\ orig' = [orig EXCEPT ![r] = had]
        /\ adds' = [adds EXCEPT ![r] = target \ had]
        /\ dels' = [dels EXCEPT ![r] = IF target \subseteq had THEN had \ target ELSE {}]
        /\ goto(r, afterAdds(target \ had, had \ target))
        /\ UNCHANGED <<users, seq, userRoles, losses, req, uid, before>>

\* Faulty: the role is not a foreign key.
isInsertable_any(r, role) ==
    /\ <<uid[r], role>> \notin userRoles
    /\ byId(uid[r]) # {}

\* The row is not there yet, its user and its role are.
isInsertable(r, role) ==
    /\ <<uid[r], role>> \notin userRoles
    /\ byId(uid[r]) # {}
    /\ role \in Roles

\* The handler has answered an error, the other additions go on.
AddRole(r) ==
    /\ \E role \in adds[r] :
         LET left == adds[r] \ {role}
             drop == orig[r] \ req[r].target
         IN  /\ adds' = [adds EXCEPT ![r] = left]
             /\ IF isInsertable(r, role)
                  THEN /\ userRoles' = userRoles \cup {<<uid[r], role>>}
                       /\ IF pc[r] = "adding" THEN goto(r, afterAdds(left, drop)) ELSE UNCHANGED pc
                       /\ dels' = [dels EXCEPT ![r] = IF left = {} /\ pc[r] = "adding" THEN drop ELSE {}]
                  ELSE goto(r, "error") /\ UNCHANGED <<userRoles, dels>>
    /\ UNCHANGED <<users, seq, losses, local>>

RemoveRole(r) ==
    /\ \E role \in dels[r] :
         /\ dels' = [dels EXCEPT ![r] = @ \ {role}]
         /\ userRoles' = userRoles \ {<<uid[r], role>>}
         /\ loses({ur[1] : ur \in {<<uid[r], role>>} \cap userRoles}, "role")
         /\ IF dels[r] = {role} THEN goto(r, "ok") ELSE UNCHANGED pc
    /\ UNCHANGED <<users, seq, adds, local>>

-----------------------------------------------------------------------------
(* Login: checkPassport, of a right password, then postLogin *)

GetHash(r) ==
    /\ at(r, "hash")
    /\ reads(r, IF byName(req[r].name) = {} THEN "refused" ELSE "check")
    /\ UNCHANGED local

CheckRoles(r) ==
    /\ at(r, "check")
    /\ reads(r, IF rolesOfName(req[r].name) = {} THEN "refused" ELSE "again")
    /\ UNCHANGED local

\* The roles are read again, for the token.  Where the user is gone, or has no role any
\* more (the answer is then sent twice), the exception is handled by a call of logout
\* without its parameters, which throws another.
ReadAgain(r) ==
    /\ at(r, "again")
    /\ IF rolesOfName(req[r].name) = {} THEN throws(r) ELSE reads(r, "ok")
    /\ UNCHANGED local

-----------------------------------------------------------------------------

\* The administrator, and a user that may have been given a role.
Init ==
    /\ \E n \in Names \ {Boss} : \E e, f \in Emails :
         /\ e # f
         /\ users = {[id |-> 1, name |-> Boss, email |-> e], [id |-> 2, name |-> n, email |-> f]}
    /\ seq = 2
    /\ \E given \in SUBSET (Roles \ {ADMIN}) :
         userRoles = {<<1, ADMIN>>} \cup {<<2, role>> : role \in given}
    /\ req = [r \in Requests |-> Nil]
    /\ pc = [r \in Requests |-> "idle"]
    /\ uid = [r \in Requests |-> Nil]
    /\ orig = [r \in Requests |-> {}]
    /\ adds = [r \in Requests |-> {}]
    /\ dels = [r \in Requests |-> {}]
    /\ losses = [r \in Requests |-> {}]
    /\ before = [r \in Requests |-> {}]

Handle(r) ==
    \/ CheckPerm(r) \/ ReadSelf(r) \/ ReadById(r) \/ CheckName(r) \/ CheckEmail(r)
    \/ Insert(r) \/ Update(r) \/ Select(r) \/ Delete(r)
    \/ FindUser(r) \/ ReadRoles(r) \/ AddRole(r) \/ RemoveRole(r)
    \/ GetHash(r) \/ CheckRoles(r) \/ ReadAgain(r)

Next == \E r \in Requests : Receive(r) \/ Handle(r)

Spec == Init /\ [][Next]_vars

-----------------------------------------------------------------------------
(* Properties *)

TypeOK ==
    /\ users \in SUBSET User
    /\ seq \in Nat
    /\ userRoles \in SUBSET (Nat \X Roles)
    /\ req \in [Requests -> Request \cup {Nil}]
    /\ pc \in [Requests -> PC]
    /\ uid \in [Requests -> Nat \cup {Nil}]
    /\ orig \in [Requests -> SUBSET Roles]
    /\ adds \in [Requests -> SUBSET RoleArgs]
    /\ dels \in [Requests -> SUBSET Roles]
    /\ losses \in [Requests -> SUBSET {"name", "role"}]
    /\ before \in [Requests -> SUBSET Requests]

overlap(r, s) == r # s /\ req[r] # Nil /\ req[s] # Nil /\ r \notin before[s] /\ s \notin before[r]

\* The requests that set the roles of a user.
Setters(i) == {r \in Requests : req[r] # Nil /\ req[r].kind \in {"create", "edit"} /\ uid[r] = i}

\* No role outlives its user, nor is given to somebody else later: what is added while
\* the user is deleted is refused or removed with it, and an identifier serves once.
RowsRefer ==
    /\ \A ur \in userRoles : byId(ur[1]) # {}
    /\ \A u, v \in users : u # v => u.id # v.id /\ u.name # v.name

\* Once the requests that set the roles of a user have ended, and none was cut short,
\* the user has the roles that the last ones that succeeded agree on, and no role that
\* neither they nor one that failed asked for.
RolesAgreed ==
    \A u \in users :
        LET all  == Setters(u.id)
            done == {r \in all : pc[r] = "ok"}
            last == {r \in done : \A s \in done : r \notin before[s]}
        IN  done # {} /\ (\A r \in all : pc[r] \in Answers /\ adds[r] = {}) =>
                /\ \A role \in Roles : (\A r \in last : role \in req[r].target) => role \in rolesOf(u.id)
                /\ rolesOf(u.id) \subseteq
                     UNION {req[r].target : r \in last \cup {s \in all : pc[s] = "error"}}

\* An edit that leaves a role to a user never leaves it without any meanwhile, even
\* when it fails or is cut short, provided that no other edit of that user overlaps.
NeverBare ==
    \A r \in Requests :
        LET s == req[r]
        IN  /\ s # Nil /\ s.kind = "edit" /\ uid[r] # Nil /\ byId(uid[r]) # {}
            /\ orig[r] # {} /\ s.target # {}
            /\ \A t \in Setters(uid[r]) \ {r} : t \in before[r]
            => rolesOf(uid[r]) # {}

\* Two users share an e-mail only where one registered, for which it is not looked for,
\* or where the requests that set it overlap: the column is not UNIQUE.
EmailsDistinct ==
    \A u, v \in users :
        u # v /\ u.email = v.email =>
            LET setters == {r \in Requests : req[r] # Nil /\ req[r].email = u.email}
            IN  \/ \E r \in setters : req[r].kind = "register"
                \/ \E r, s \in setters :
                     /\ overlap(r, s)
                     /\ {req[r].kind, req[s].kind} \subseteq {"create", "edit"}

\* The process ends for a request only where a user lost its name while that request
\* was handled, or a role while that request was a login: one after the other, requests
\* never end it.
EndsByRace ==
    \A r \in Requests :
        pc[r] = "threw" =>
            "name" \in losses[r] \/ (req[r].kind = "login" /\ "role" \in losses[r])
=============================================================================
