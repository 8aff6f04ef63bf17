------------------------- MODULE ObjectReferences -------------------------
(***************************************************************************)
(* How rudi-api creates, replaces and deletes what its metadata refer to:  *)
(* organizations and contacts (genericController.js), created on the way   *)
(* when a metadata names one that is missing (metadataController.js), and  *)
(* kept as long as a metadata refers to them.  Each request is a chain of  *)
(* awaited requests to MongoDB, which the chains of the others cut.        *)
(*                                                                         *)
(* A metadata refers to documents by their _id, a request names them by    *)
(* their identifiers.  The medias of a metadata, what is done once it is   *)
(* saved (MetadataStorage, PortalSync) and the uniqueness of the emails of *)
(* contacts are left out.                                                  *)
(***************************************************************************)
EXTENDS Naturals, FiniteSets

CONSTANTS
    Requests,
    Organizations, Contacts, Metas,     \* identifiers
    Bodies,                             \* the metadata that clients send, see Body
    Old,                                \* for what was there before
    Nil

\* What a metadata names in each of its fields that refer to objects.
Body ==
    [producer : {{o} : o \in Organizations}, contacts : (SUBSET Contacts) \ {{}},
     provider : {{}} \cup {{o} : o \in Organizations}, metaContacts : SUBSET Contacts]

ASSUME ConstantsAssumption ==
    /\ Organizations \cap Contacts = {}
    /\ Metas \cap (Organizations \cup Contacts) = {}
    /\ Bodies \subseteq Body
    /\ Old \notin Requests
    /\ Nil \notin Requests \cup Organizations \cup Contacts \cup Metas \cup Bodies \cup {Old}

VARIABLES
    doc,        \* the documents of the collections
    request,    \* what a client asked
    step,       \* where its handler is
    found,      \* the _id of the document it found
    tasks,      \* the objects it looks up or creates at the same time
    refs,       \* the documents that the metadata it sends will refer to
    answer,
    \* history: the requests that were handled at the same time, what was there
    \* when a request came, which documents were deleted and by
    \* whom, whose content was stored
    overlap, seen, deletions, stored

history == <<overlap, seen, deletions, stored>>
vars    == <<doc, request, step, found, tasks, refs, answer, history>>

-----------------------------------------------------------------------------
(* Data *)

Objects == Organizations \cup Contacts
Ids     == Objects \cup Metas
Author  == Requests \cup {Old}

\* In the order of rudiToDbFormat.
Fields == <<"producer", "contacts", "provider", "metaContacts">>
FieldNames == {Fields[f] : f \in 1..4}

\* A new _id is that of the request, and of the field for which it creates an object.
DbIds == (Requests \X (FieldNames \cup {"itself"})) \cup {Old}

Reference == FieldNames \X Objects \X DbIds
Document  == [db : DbIds, by : Author, valid : BOOLEAN, refs : SUBSET Reference]

\* bad: the identifier of what its schema refuses.
Kinds == {"post", "put", "delete", "deletion"}
Request == [kind : Kinds, id : Ids, body : Bodies \cup {Nil}, bad : Ids \cup {Nil}]

Steps ==
    FieldNames \cup {"idle", "exists", "new", "save", "overwrite", "saveAgain",
                     "ensured", "dbId", "referenced", "delete", "deletion", "done"}

Answer == {"ok", "exists", "notFound", "used", "error"}

ASSUME NilAssumption ==
    /\ Old \notin Requests \X (FieldNames \cup {"itself"})
    /\ Nil \notin DbIds \cup Document \cup Answer

id(r)   == request[r].id
body(r) == request[r].body
isBad(r, i) == request[r].bad = i

named(b) == UNION {b[f] : f \in FieldNames}

\* Faulty: only the first field of a kind is looked at.
isReferenced_first(i, db) ==
    \E m \in Metas : doc[m] # Nil /\
        \E f \in {"producer", "contacts"} : <<f, i, db>> \in doc[m].refs

isReferenced(i, db) ==
    \E m \in Metas : doc[m] # Nil /\ \E f \in FieldNames : <<f, i, db>> \in doc[m].refs

\* The document is not deleted, nor one created again with its identifier.
isThere(i, db) == doc[i] # Nil /\ doc[i].db = db

isUnderWay(r) == step[r] \notin {"idle", "done"} \/ tasks[r] # {}

-----------------------------------------------------------------------------
(* Steps that handlers share *)

goto(r, s) == step' = [step EXCEPT ![r] = s]

reply(r, a) ==
    /\ answer' = [answer EXCEPT ![r] = a]
    /\ goto(r, "done")

\* What a create or a replacement stores.
put(r, i, db, rs) ==
    /\ doc' = [doc EXCEPT ![i] = [db |-> db, by |-> r, valid |-> ~isBad(r, i), refs |-> rs]]
    /\ stored' = stored \cup {r}

remove(r, i) ==
    /\ doc' = [doc EXCEPT ![i] = Nil]
    /\ deletions' = IF doc[i] = Nil THEN deletions
                    ELSE deletions \cup {<<i, doc[i].db, r>>}

\* The field to treat after field f, or what comes after the last one.
fieldAfter(r, f) ==
    LET left == {g \in 1..4 : body(r)[Fields[g]] # {} /\ \E h \in 1 .. g - 1 : Fields[h] = f}
    IN  IF left = {} THEN (IF found[r] = Nil THEN "save" ELSE "overwrite")
        ELSE Fields[CHOOSE g \in left : \A h \in left : g <= h]

\* Faulty: the fields are treated all at once.
startFields_together(r, s) ==
    IF s \in FieldNames
      THEN /\ goto(r, "metaContacts")
           /\ tasks' = [tasks EXCEPT ![r] = UNION {{<<f, i, "find">> : i \in body(r)[f]} : f \in FieldNames}]
      ELSE goto(r, s) /\ tasks' = [tasks EXCEPT ![r] = {}]

\* The objects of a field are looked up all at once.
startFields(r, s) ==
    /\ goto(r, s)
    /\ tasks' = [tasks EXCEPT ![r] = IF s \in FieldNames THEN {<<s, i, "find">> : i \in body(r)[s]}
                                     ELSE {}]

-----------------------------------------------------------------------------
(* Creating and replacing: addSingleObject, upsertSingleObject *)

Receive(r, kind, i, b, bad) ==
    LET q == [kind |-> kind, id |-> i, body |-> b, bad |-> bad]
    IN  /\ step[r] = "idle"
        /\ b \in IF i \in Metas /\ kind \in {"post", "put"} THEN Bodies ELSE {Nil}
        /\ bad = Nil \/ (kind \in {"post", "put"} /\ (bad = i \/ (b # Nil /\ bad \in named(b))))
        /\ request' = [request EXCEPT ![r] = q]
        /\ goto(r, CASE kind \in {"post", "put"} -> "exists"
                     [] kind = "delete"          -> "ensured"
                     [] kind = "deletion"        -> "deletion")
        /\ overlap' = overlap \cup {{r, o} : o \in {x \in Requests : isUnderWay(x)}}
        /\ seen' = [seen EXCEPT ![r] =
                       [there |-> doc[i] # Nil,
                        used  |-> doc[i] # Nil /\ i \in Objects /\ isReferenced(i, doc[i].db),
                        badIsMissing |-> bad # Nil /\ doc[bad] = Nil]]
        /\ UNCHANGED <<doc, found, tasks, refs, answer, deletions, stored>>

\* Faulty: what is there is not replaced.
Exists_create(r) ==
    /\ step[r] = "exists"
    /\ startFields(r, IF id(r) \in Metas THEN "producer" ELSE "new")
    /\ UNCHANGED <<doc, request, found, refs, answer, history>>

\* doesObjectExistWithJson of a POST, doesObjectExistWithRudiId of a PUT.
Exists(r) ==
    LET there == doc[id(r)] # Nil
        next  == IF id(r) \in Metas THEN "producer" ELSE IF there THEN "overwrite" ELSE "new"
    IN  /\ step[r] = "exists"
        /\ \/ /\ request[r].kind = "post" /\ there
              /\ reply(r, "exists")
              /\ UNCHANGED <<found, tasks>>
           \/ /\ request[r].kind = "put" \/ ~there
              /\ found' = [found EXCEPT ![r] = IF there THEN doc[id(r)].db ELSE Nil]
              /\ startFields(r, next)
              /\ UNCHANGED answer
        /\ UNCHANGED <<doc, request, refs, history>>

\* newOrganization and newContact give what is there by now, as it is.
New(r) ==
    /\ step[r] = "new"
    /\ IF doc[id(r)] # Nil THEN reply(r, "ok")
                           ELSE goto(r, "save") /\ UNCHANGED answer
    /\ UNCHANGED <<doc, request, found, tasks, refs, history>>

\* Faulty: nothing is checked.
Save_unchecked(r) ==
    /\ step[r] = "save"
    /\ reply(r, "ok")
    /\ put(r, id(r), <<r, "itself">>, refs[r])
    /\ UNCHANGED <<request, found, tasks, refs, overlap, seen, deletions>>

\* The schema is checked, then the uniqueness of the identifier.
Save(r) ==
    /\ step[r] = "save"
    /\ IF doc[id(r)] # Nil \/ isBad(r, id(r))
         THEN reply(r, "error") /\ UNCHANGED <<doc, stored>>
         ELSE reply(r, "ok") /\ put(r, id(r), <<r, "itself">>, refs[r])
    /\ UNCHANGED <<request, found, tasks, refs, overlap, seen, deletions>>

\* findOneAndUpdate of overwriteDbObject: it checks nothing, and creates the document
\* when it is gone.
Overwrite(r) ==
    LET db == IF doc[id(r)] = Nil THEN <<r, "itself">> ELSE doc[id(r)].db
    IN  /\ step[r] = "overwrite"
        /\ put(r, id(r), db, refs[r])
        /\ found' = [found EXCEPT ![r] = db]
        /\ goto(r, "saveAgain")
        /\ UNCHANGED <<request, tasks, refs, answer, overlap, seen, deletions>>

\* The save that follows checks what was stored.
SaveAgain(r) ==
    LET d == doc[id(r)]
    IN  /\ step[r] = "saveAgain"
        /\ reply(r, IF d = Nil \/ isBad(r, id(r)) THEN "error"
                    ELSE IF d.db # found[r] THEN "error" ELSE "ok")
        /\ UNCHANGED <<doc, request, found, tasks, refs, history>>

-----------------------------------------------------------------------------
(* The objects that a metadata refers to: organizationRudiToDbFormat, *)
(* contactListRudiToDbFormat                                          *)

\* A task ends with the _id of its object; the handler goes on when all those of
\* the field have, unless one failed.
resolved(r, task, db) ==
    IF step[r] = "done"
      THEN /\ tasks' = [tasks EXCEPT ![r] = @ \ {task}]
           /\ UNCHANGED <<refs, step>>
      ELSE /\ refs' = [refs EXCEPT ![r] = @ \cup {<<task[1], task[2], db>>}]
           /\ IF tasks[r] = {task} THEN startFields(r, fieldAfter(r, step[r]))
              ELSE tasks' = [tasks EXCEPT ![r] = @ \ {task}] /\ UNCHANGED step

\* Faulty: what is missing is referred to.
FindObject_missing(r, f, i) ==
    /\ <<f, i, "find">> \in tasks[r]
    /\ resolved(r, <<f, i, "find">>, IF doc[i] # Nil THEN doc[i].db ELSE Nil)
    /\ UNCHANGED <<doc, request, found, answer, history>>

FindObject(r, f, i) ==
    /\ <<f, i, "find">> \in tasks[r]
    /\ IF doc[i] # Nil
         THEN resolved(r, <<f, i, "find">>, doc[i].db)
         ELSE /\ tasks' = [tasks EXCEPT ![r] = (@ \ {<<f, i, "find">>}) \cup {<<f, i, "save">>}]
              /\ UNCHANGED <<refs, step>>
    /\ UNCHANGED <<doc, request, found, answer, history>>

\* What one task creates stays when another fails, or when the metadata is refused; a
\* task goes on when the answer was given.
CreateObject(r, f, i) ==
    /\ <<f, i, "save">> \in tasks[r]
    /\ IF doc[i] # Nil \/ isBad(r, i)
         THEN /\ tasks' = [tasks EXCEPT ![r] = @ \ {<<f, i, "save">>}]
              /\ answer' = IF step[r] = "done" THEN answer ELSE [answer EXCEPT ![r] = "error"]
              /\ goto(r, "done")
              /\ UNCHANGED <<doc, refs>>
         ELSE /\ doc' = [doc EXCEPT ![i] = [db |-> <<r, f>>, by |-> r, valid |-> TRUE, refs |-> {}]]
              /\ resolved(r, <<f, i, "save">>, <<r, f>>)
              /\ UNCHANGED answer
    /\ UNCHANGED <<request, found, history>>

-----------------------------------------------------------------------------
(* Deleting: deleteSingleObject, deleteObjectList, deleteManyObjects *)

Ensured(r) ==
    /\ step[r] = "ensured"
    /\ IF doc[id(r)] = Nil THEN reply(r, "notFound")
       ELSE goto(r, IF id(r) \in Metas THEN "delete" ELSE "dbId") /\ UNCHANGED answer
    /\ UNCHANGED <<doc, request, found, tasks, refs, history>>

\* isReferencedInMetadata looks for the document, then for a metadata.
DbId(r) ==
    /\ step[r] = "dbId"
    /\ IF doc[id(r)] = Nil THEN reply(r, "notFound") /\ UNCHANGED found
       ELSE /\ found' = [found EXCEPT ![r] = doc[id(r)].db]
            /\ goto(r, "referenced")
            /\ UNCHANGED answer
    /\ UNCHANGED <<doc, request, tasks, refs, history>>

Referenced(r) ==
    /\ step[r] = "referenced"
    /\ IF isReferenced(id(r), found[r]) THEN reply(r, "used")
       ELSE goto(r, "delete") /\ UNCHANGED answer
    /\ UNCHANGED <<doc, request, found, tasks, refs, history>>

\* By its identifier, whichever document has it now, if any.
Delete(r) ==
    /\ step[r] = "delete"
    /\ remove(r, id(r))
    /\ reply(r, "ok")
    /\ UNCHANGED <<request, found, tasks, refs, overlap, seen, stored>>

\* deleteMany checks no reference.
Deletion(r) ==
    /\ step[r] = "deletion"
    /\ remove(r, id(r))
    /\ reply(r, "ok")
    /\ UNCHANGED <<request, found, tasks, refs, overlap, seen, stored>>

-----------------------------------------------------------------------------

oldDocument(rs) == [db |-> Old, by |-> Old, valid |-> TRUE, refs |-> rs]
oldRefs(b) == {t \in Reference : t[2] \in b[t[1]] /\ t[3] = Old}

\* Organizations and contacts were there, and the metadata refer to some of them.
Init ==
    /\ \E there \in SUBSET Objects, b \in [Metas -> Bodies \cup {Nil}] :
         /\ \A m \in Metas : b[m] # Nil => named(b[m]) \subseteq there
         /\ doc = [i \in Ids |-> IF i \in there THEN oldDocument({})
                               ELSE IF i \in Metas /\ b[i] # Nil THEN oldDocument(oldRefs(b[i]))
                               ELSE Nil]
    /\ request = [r \in Requests |-> Nil]
    /\ step = [r \in Requests |-> "idle"]
    /\ found = [r \in Requests |-> Nil]
    /\ tasks = [r \in Requests |-> {}]
    /\ refs = [r \in Requests |-> {}]
    /\ answer = [r \in Requests |-> Nil]
    /\ overlap = {}
    /\ seen = [r \in Requests |-> Nil]
    /\ deletions = {}
    /\ stored = {}

Handle(r) ==
    \/ Exists(r) \/ New(r) \/ Save(r) \/ Overwrite(r) \/ SaveAgain(r)
    \/ \E f \in FieldNames, i \in Objects : FindObject(r, f, i) \/ CreateObject(r, f, i)
    \/ Ensured(r) \/ DbId(r) \/ Referenced(r) \/ Delete(r) \/ Deletion(r)

Next ==
    \E r \in Requests :
        \/ \E kind \in Kinds, i \in Ids, b \in Bodies \cup {Nil}, bad \in Ids \cup {Nil} :
              Receive(r, kind, i, b, bad)
        \/ Handle(r)

Spec == Init /\ [][Next]_vars

-----------------------------------------------------------------------------
(* Properties *)

TypeOK ==
    /\ doc \in [Ids -> Document \cup {Nil}]
    /\ request \in [Requests -> Request \cup {Nil}]
    /\ step \in [Requests -> Steps]
    /\ found \in [Requests -> DbIds \cup {Nil}]
    /\ tasks \in [Requests -> SUBSET (FieldNames \X Objects \X {"find", "save"})]
    /\ refs \in [Requests -> SUBSET Reference]
    /\ answer \in [Requests -> Answer \cup {Nil}]
    /\ overlap \in SUBSET SUBSET Requests
    /\ seen \in [Requests -> [there : BOOLEAN, used : BOOLEAN, badIsMissing : BOOLEAN] \cup {Nil}]
    /\ deletions \in SUBSET (Ids \X DbIds \X Requests)
    /\ stored \in SUBSET Requests

\* A metadata refers to a document that is gone only if it was deleted with a list of
\* others, or by a request handled at the same time as the last one that stored the
\* metadata: the check of the references cannot be passed any other way.
DanglesByRace ==
    \A m \in Metas : doc[m] # Nil =>
        \A t \in doc[m].refs :
            isThere(t[2], t[3]) \/ \E q \in Requests :
                /\ <<t[2], t[3], q>> \in deletions
                /\ request[q].kind = "deletion" \/ {q, doc[m].by} \in overlap

\* What a request asks of the documents that it found, when no other runs.
expected(r) ==
    LET q == request[r]
    IN  CASE q.kind = "post" /\ seen[r].there -> "exists"
          [] q.kind = "put" \/ (q.kind = "post" /\ ~seen[r].there) ->
                IF q.bad = q.id \/ seen[r].badIsMissing THEN "error" ELSE "ok"
          [] q.kind = "delete" -> IF ~seen[r].there THEN "notFound"
                                  ELSE IF seen[r].used THEN "used" ELSE "ok"
          [] q.kind = "deletion" -> "ok"

\* A request that no other was handled with gets the answer that the documents it found
\* call for, even where a metadata names a missing object in several of its fields.
AloneAsExpected ==
    \A r \in Requests :
        answer[r] # Nil /\ (\A q \in Requests : {r, q} \notin overlap) => answer[r] = expected(r)

\* A POST or a PUT that succeeds stored its content, unless another request was handled
\* at the same time: an object that was created meanwhile is given as it is.
SuccessStored ==
    \A r \in Requests :
        answer[r] = "ok" /\ request[r].kind \in {"post", "put"} =>
            r \in stored \/ \E q \in Requests : q # r /\ {r, q} \in overlap

\* What its schema refuses is stored only by a PUT that replaces a document: a POST, or
\* an object created for a metadata, is checked before it is stored.
InvalidIsReplaced ==
    \A i \in Ids :
        doc[i] # Nil /\ ~doc[i].valid =>
            /\ request[doc[i].by].kind = "put" /\ id(doc[i].by) = i
            /\ answer[doc[i].by] \in {Nil, "error"}
=============================================================================
