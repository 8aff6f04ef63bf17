----------------------- MODULE ObjectReferencesProofs -----------------------
(***************************************************************************)
(* Proofs about ObjectReferences, for any sets of requests, organizations, *)
(* contacts and metadata.                                                  *)
(***************************************************************************)
EXTENDS ObjectReferences, TLAPS

(***************************************************************************)
(* The inductive invariant.                                                *)
(***************************************************************************)

Writing == FieldNames \cup {"exists", "new", "save", "overwrite", "saveAgain"}

\* A step belongs to requests of a kind, and its tasks to the field it treats.
StepOK(r) ==
    /\ step[r] # "idle" => request[r] \in Request
    /\ step[r] \in Writing => request[r].kind \in {"post", "put"}
    /\ step[r] \in Writing /\ id(r) \in Metas => body(r) \in Bodies
    /\ step[r] \in FieldNames => id(r) \in Metas
    /\ step[r] \in FieldNames \cup {"new", "save", "overwrite"}
          /\ found[r] # Nil => request[r].kind = "put"
    /\ step[r] \in {"overwrite", "saveAgain"} => request[r].kind = "put"
    /\ step[r] \in {"ensured", "dbId", "referenced", "delete"} => request[r].kind = "delete"
    /\ step[r] \in {"dbId", "referenced"} => id(r) \in Objects
    /\ step[r] = "deletion" => request[r].kind = "deletion"
    /\ step[r] \notin FieldNames \cup {"done"} => tasks[r] = {}
    /\ step[r] \in FieldNames => \A f \in FieldNames, i \in Objects, s \in {"find", "save"} :
          <<f, i, s>> \in tasks[r] => f = step[r]
    /\ answer[r] # Nil => step[r] = "done"
    /\ step[r] = "idle" => refs[r] = {}

StepsOK == \A r \in Requests : StepOK(r)

\* Two requests that are under way were handled at the same time.
OverlapOK ==
    \A r, q \in Requests : r # q /\ isUnderWay(r) /\ isUnderWay(q) => {r, q} \in overlap

StoredOK ==
    \A r \in Requests :
        /\ step[r] = "saveAgain" => r \in stored
        /\ step[r] = "new" /\ doc[id(r)] # Nil => \E q \in Requests : q # r /\ {r, q} \in overlap
        /\ answer[r] = "ok" /\ request[r].kind \in {"post", "put"} =>
              r \in stored \/ \E q \in Requests : q # r /\ {r, q} \in overlap

ValidOK ==
    \A i \in Ids :
        doc[i] # Nil /\ ~doc[i].valid =>
            LET r == doc[i].by
            IN  /\ r \in Requests
                /\ step[r] \in {"saveAgain", "done"}
                /\ request[r].kind = "put" /\ id(r) = i /\ isBad(r, i)
                /\ answer[r] \in {Nil, "error"}

\* An _id that a request may still give to a document was never given.
isNew(i, db) == ~isThere(i, db) /\ \A q \in Requests : <<i, db, q>> \notin deletions

\* The fields that are treated after f.
later(f, g) == \E h, k \in 1..4 : Fields[h] = f /\ Fields[k] = g /\ h < k

mayCreate(r, f, i) ==
    \/ step[r] \in {"idle", "exists"}
    \/ step[r] \in FieldNames /\ later(step[r], f)
    \/ <<f, i, "find">> \in tasks[r]
    \/ <<f, i, "save">> \in tasks[r]

NewOK ==
    /\ \A r \in Requests, i \in Ids :
          step[r] \in {"idle", "exists", "new", "save", "overwrite"} \cup FieldNames =>
              isNew(i, <<r, "itself">>)
    /\ \A r \in Requests, f \in FieldNames, i \in Objects :
          mayCreate(r, f, i) => isNew(i, <<r, f>>)
    /\ \A r \in Requests, f \in FieldNames, i \in Objects :
          <<f, i, "find">> \in tasks[r] => <<f, i, "save">> \notin tasks[r]

\* The document is there, or gone by a list or at the same time as r was handled.
isExcused(i, db, r) ==
    isThere(i, db) \/ \E q \in Requests :
        /\ <<i, db, q>> \in deletions
        /\ step[q] # "idle"
        /\ request[q].kind = "deletion" \/ {q, r} \in overlap

RefsOK ==
    /\ \A m \in Metas : doc[m] # Nil =>
          \A f \in FieldNames, i \in Objects, db \in DbIds :
              <<f, i, db>> \in doc[m].refs => isExcused(i, db, doc[m].by)
    /\ \A r \in Requests : step[r] \notin {"idle", "done"} =>
          \A f \in FieldNames, i \in Objects, db \in DbIds :
              <<f, i, db>> \in refs[r] => isExcused(i, db, r)

\* The metadata that refer to a document about to be deleted were stored meanwhile.
DeleteOK ==
    \A q \in Requests, m \in Metas, f \in FieldNames :
        /\ step[q] \in {"referenced", "delete"} /\ id(q) \in Objects
        /\ doc[id(q)] # Nil /\ doc[m] # Nil
        /\ step[q] = "delete" \/ doc[id(q)].db # found[q]
        /\ <<f, id(q), doc[id(q)].db>> \in doc[m].refs
        => {q, doc[m].by} \in overlap

IInv ==
    /\ TypeOK /\ StepsOK /\ OverlapOK
    /\ StoredOK /\ ValidOK
    /\ NewOK /\ RefsOK /\ DeleteOK

(***************************************************************************)
(* The fields of a metadata.                                               *)
(***************************************************************************)

LEMMA FieldNamesAre ==
    FieldNames = {"producer", "contacts", "provider", "metaContacts"}
BY DEF FieldNames, Fields

LEMMA LaterTransitive ==
    ASSUME NEW f, NEW g, NEW h, later(f, g), later(g, h)
    PROVE  later(f, h)
BY DEF later, Fields

\* The first field is before the others.
LEMMA ProducerFirst ==
    ASSUME NEW f \in FieldNames
    PROVE  f = "producer" \/ later("producer", f)
BY DEF later, FieldNames, Fields

\* What comes after a field is a later one that is not empty, or the end.
LEMMA FieldAfter ==
    ASSUME NEW r \in Requests, NEW f \in FieldNames
    PROVE  LET n == fieldAfter(r, f)
           IN  \/ n = "save" /\ found[r] = Nil
               \/ n = "overwrite" /\ found[r] # Nil
               \/ n \in FieldNames /\ later(f, n)
<1> DEFINE left == {g \in 1..4 : body(r)[Fields[g]] # {} /\ \E h \in 1 .. g - 1 : Fields[h] = f}
<1>1. CASE left = {}
  BY <1>1 DEF fieldAfter
<1>2. CASE left # {}
  <2> DEFINE isFirst(g) == \A h \in left : g <= h
  <2>1. \E g \in left : isFirst(g)
    <3>1. CASE 1 \in left
      BY <3>1
    <3>2. CASE 1 \notin left /\ 2 \in left
      BY <3>2
    <3>3. CASE 1 \notin left /\ 2 \notin left /\ 3 \in left
      BY <3>3
    <3>4. CASE 1 \notin left /\ 2 \notin left /\ 3 \notin left
      <4>1. left = {4}
        BY <1>2, <3>4
      <4>2. QED
        BY <4>1
    <3>5. QED
      BY <3>1, <3>2, <3>3, <3>4
  <2>2. PICK g \in left : fieldAfter(r, f) = Fields[g]
    BY <2>1, <1>2 DEF fieldAfter
  <2>3. PICK h \in 1 .. g - 1 : Fields[h] = f
    OBVIOUS
  <2>4. g \in 1..4 /\ h \in 1..4 /\ h < g
    OBVIOUS
  <2>5. QED
    BY <2>2, <2>3, <2>4 DEF FieldNames, later
<1>3. QED
  BY <1>1, <1>2

(***************************************************************************)
(* Types, and what a step says of its request.                             *)
(***************************************************************************)

TInv == TypeOK /\ StepsOK

LEMMA BodyType ==
    ASSUME NEW r \in Requests, NEW f \in FieldNames, StepsOK, step[r] \in Writing, id(r) \in Metas
    PROVE  body(r)[f] \subseteq Objects
<1>1. body(r) \in Body
  BY ConstantsAssumption DEF StepsOK, StepOK
<1>2. QED
  BY <1>1, FieldNamesAre DEF Body, Objects

\* What startFields does, whatever comes next.
LEMMA StartType ==
    ASSUME TypeOK, NEW r \in Requests, NEW s \in Steps, startFields(r, s),
           s \in FieldNames => body(r)[s] \subseteq Objects
    PROVE  /\ step' \in [Requests -> Steps] /\ step'[r] = s
           /\ \A q \in Requests : q # r => step'[q] = step[q] /\ tasks'[q] = tasks[q]
           /\ tasks' \in [Requests -> SUBSET (FieldNames \X Objects \X {"find", "save"})]
           /\ s \notin FieldNames => tasks'[r] = {}
           /\ s \in FieldNames => \A f \in FieldNames, i \in Objects, k \in {"find", "save"} :
                 <<f, i, k>> \in tasks'[r] => f = s /\ k = "find"
BY DEF TypeOK, startFields, goto

\* What resolved does of a task that belongs to the field treated.
Resolved(r, f, i, k, db) ==
    /\ step' \in [Requests -> Steps]
    /\ refs' \in [Requests -> SUBSET Reference]
    /\ tasks' \in [Requests -> SUBSET (FieldNames \X Objects \X {"find", "save"})]
    /\ \A q \in Requests : q # r => step'[q] = step[q] /\ tasks'[q] = tasks[q] /\ refs'[q] = refs[q]
    /\ step[r] = "done" => step'[r] = "done" /\ refs'[r] = refs[r]
    /\ step[r] = "done" => tasks'[r] = tasks[r] \ {<<f, i, k>>}
    /\ step[r] # "done" => step[r] = f /\ refs'[r] = refs[r] \cup {<<f, i, db>>}
    /\ step[r] # "done" =>
         \/ step'[r] = f /\ tasks'[r] = tasks[r] \ {<<f, i, k>>}
         \/ step'[r] = "save" /\ found[r] = Nil /\ tasks'[r] = {}
         \/ step'[r] = "overwrite" /\ found[r] # Nil /\ tasks'[r] = {}
         \/ /\ step'[r] \in FieldNames /\ later(f, step'[r])
            /\ \A g \in FieldNames, j \in Objects, s \in {"find", "save"} :
                 <<g, j, s>> \in tasks'[r] => g = step'[r] /\ s = "find"

LEMMA ResolvedType ==
    ASSUME TInv, NEW r \in Requests, NEW f \in FieldNames, NEW i \in Objects,
           NEW k \in {"find", "save"}, NEW db \in DbIds,
           <<f, i, k>> \in tasks[r], resolved(r, <<f, i, k>>, db)
    PROVE  Resolved(r, f, i, k, db)
<1> USE DEF Resolved
<1>1. CASE step[r] = "done"
  BY <1>1 DEF TInv, TypeOK, resolved
<1>2. CASE step[r] # "done"
  <2>1. step[r] = f /\ id(r) \in Metas /\ f \in Steps
    BY <1>2 DEF TInv, TypeOK, StepsOK, StepOK, Steps
  <2>2. <<f, i, db>> \in Reference
    BY DEF Reference
  <2>3. refs' = [refs EXCEPT ![r] = @ \cup {<<f, i, db>>}]
    BY <1>2 DEF resolved
  <2>4. /\ refs' \in [Requests -> SUBSET Reference] /\ refs'[r] = refs[r] \cup {<<f, i, db>>}
        /\ \A q \in Requests : q # r => refs'[q] = refs[q]
    BY <2>2, <2>3 DEF TInv, TypeOK
  <2>5. CASE tasks[r] = {<<f, i, k>>}
    <3> DEFINE n == fieldAfter(r, f)
    <3>1. startFields(r, n)
      BY <1>2, <2>1, <2>5 DEF resolved
    <3>2. \/ n = "save" /\ found[r] = Nil
          \/ n = "overwrite" /\ found[r] # Nil
          \/ n \in FieldNames /\ later(f, n)
      BY FieldAfter
    <3> HIDE DEF n
    <3>3. n \in Steps
      BY <3>2 DEF Steps
    <3>4. n \in FieldNames => body(r)[n] \subseteq Objects
      BY <2>1, BodyType DEF TInv, Writing
    <3>5. "save" \notin FieldNames /\ "overwrite" \notin FieldNames
      BY FieldNamesAre
    <3>6. QED
      BY <1>2, <2>1, <2>4, <3>1, <3>2, <3>3, <3>4, <3>5, StartType DEF TInv
  <2>6. CASE tasks[r] # {<<f, i, k>>}
    <3>1. tasks' = [tasks EXCEPT ![r] = @ \ {<<f, i, k>>}] /\ UNCHANGED step
      BY <1>2, <2>6 DEF resolved
    <3>2. QED
      BY <1>2, <2>1, <2>4, <3>1 DEF TInv, TypeOK
  <2>7. QED
    BY <2>5, <2>6
<1>3. QED
  BY <1>1, <1>2

LEMMA PutType ==
    ASSUME TypeOK, NEW r \in Requests, NEW i \in Ids, NEW db \in DbIds,
           NEW rs \in SUBSET Reference, put(r, i, db, rs)
    PROVE  /\ doc' \in [Ids -> Document \cup {Nil}] /\ doc'[i] \in Document /\ doc'[i] # Nil
           /\ doc'[i].db = db /\ doc'[i].by = r /\ doc'[i].refs = rs
           /\ doc'[i].valid = ~isBad(r, i)
           /\ \A j \in Ids : j # i => doc'[j] = doc[j]
           /\ stored' = stored \cup {r} /\ stored' \in SUBSET Requests
<1> DEFINE d == [db |-> db, by |-> r, valid |-> ~isBad(r, i), refs |-> rs]
<1>1. d \in Document
  BY DEF Document, Author, isBad
<1>2. d.db = db /\ d.by = r /\ d.refs = rs /\ d.valid = ~isBad(r, i)
  OBVIOUS
<1>3. doc' = [doc EXCEPT ![i] = d] /\ stored' = stored \cup {r}
  BY DEF put
<1> HIDE DEF d
<1>4. QED
  BY <1>1, <1>2, <1>3, NilAssumption DEF TypeOK

LEMMA RemoveType ==
    ASSUME TypeOK, NEW r \in Requests, NEW i \in Ids, remove(r, i)
    PROVE  /\ doc' \in [Ids -> Document \cup {Nil}] /\ doc'[i] = Nil
           /\ \A j \in Ids : j # i => doc'[j] = doc[j]
           /\ deletions' \in SUBSET (Ids \X DbIds \X Requests)
           /\ deletions \subseteq deletions'
<1>1. doc[i] # Nil => <<i, doc[i].db, r>> \in Ids \X DbIds \X Requests
  BY DEF TypeOK, Document
<1>2. QED
  BY <1>1 DEF TypeOK, remove

LEMMA TypeInit == Init => TInv
<1> SUFFICES ASSUME Init PROVE TInv
  OBVIOUS
<1>1. doc \in [Ids -> Document \cup {Nil}]
  <2>1. \A rs \in SUBSET Reference : oldDocument(rs) \in Document
    BY DEF oldDocument, Document, DbIds, Author
  <2>2. oldDocument({}) \in Document /\ \A b : oldDocument(oldRefs(b)) \in Document
    BY <2>1 DEF oldRefs
  <2>3. PICK there \in SUBSET Objects, b \in [Metas -> Bodies \cup {Nil}] :
           doc = [i \in Ids |-> IF i \in there THEN oldDocument({})
                               ELSE IF i \in Metas /\ b[i] # Nil THEN oldDocument(oldRefs(b[i]))
                               ELSE Nil]
    BY DEF Init
  <2>4. QED
    BY <2>2, <2>3
<1>2. TypeOK
  BY <1>1, FieldNamesAre DEF Init, TypeOK, Steps
<1>3. StepsOK
  BY FieldNamesAre DEF Init, StepsOK, StepOK, Writing
<1>4. QED
  BY <1>2, <1>3 DEF TInv

LEMMA TypeStep == TInv /\ [Next]_vars => TInv'
<1> SUFFICES ASSUME TInv, [Next]_vars PROVE TInv'
  OBVIOUS
<1> USE DEF id, body
<1>0. FieldNames \subseteq Steps /\ "producer" \in FieldNames
  BY FieldNamesAre DEF Steps
<1>1. ASSUME NEW r \in Requests, NEW kind \in Kinds, NEW i \in Ids, NEW b \in Bodies \cup {Nil},
             NEW bad \in Ids \cup {Nil}, Receive(r, kind, i, b, bad)
      PROVE  TInv'
  <2> DEFINE q == [kind |-> kind, id |-> i, body |-> b, bad |-> bad]
             s == [there |-> doc[i] # Nil,
                   used  |-> doc[i] # Nil /\ i \in Objects /\ isReferenced(i, doc[i].db),
                   badIsMissing |-> bad # Nil /\ doc[bad] = Nil]
             n == CASE kind \in {"post", "put"} -> "exists"
                    [] kind = "delete"          -> "ensured"
                    [] kind = "deletion"        -> "deletion"
  <2>1. q \in Request /\ q.kind = kind /\ q.id = i /\ q.body = b
    BY DEF Request
  <2>2. s \in [there : BOOLEAN, used : BOOLEAN, badIsMissing : BOOLEAN]
    OBVIOUS
  <2>3. /\ n \in Steps
        /\ \/ kind \in {"post", "put"} /\ n = "exists"
           \/ kind = "delete" /\ n = "ensured"
           \/ kind = "deletion" /\ n = "deletion"
    BY DEF Kinds, Steps
  <2>4. /\ request' = [request EXCEPT ![r] = q] /\ seen' = [seen EXCEPT ![r] = s]
        /\ step' = [step EXCEPT ![r] = n]
        /\ step[r] = "idle" /\ b \in IF i \in Metas
              /\ kind \in {"post", "put"} THEN Bodies ELSE {Nil}
        /\ UNCHANGED <<doc, found, tasks, refs, answer, deletions, stored>>
        /\ overlap' = overlap \cup {{r, o} : o \in {x \in Requests : isUnderWay(x)}}
    BY <1>1 DEF Receive, goto
  <2> HIDE DEF q, s, n
  <2>5. TypeOK'
    BY <2>1, <2>2, <2>3, <2>4 DEF TInv, TypeOK
  <2>6. StepsOK'
    BY <2>1, <2>3, <2>4, FieldNamesAre DEF TInv, TypeOK, StepsOK, StepOK, Writing
  <2>7. QED
    BY <2>5, <2>6 DEF TInv
<1>2. ASSUME NEW r \in Requests, Exists(r) PROVE TInv'
  <2> DEFINE there == doc[id(r)] # Nil
             next  == IF id(r) \in Metas THEN "producer" ELSE IF there THEN "overwrite" ELSE "new"
  <2>1. CASE request[r].kind = "post" /\ there
    <3>1. reply(r, "exists") /\ UNCHANGED <<doc, request, found, tasks, refs, history>>
      BY <1>2, <2>1, FieldNamesAre DEF Exists, startFields, goto, TInv, StepsOK, StepOK
    <3>2. TypeOK'
      BY <3>1 DEF TInv, TypeOK, reply, goto, Steps, Answer, history
    <3>3. StepsOK'
      BY <1>2, <3>1, FieldNamesAre
         DEF TInv, TypeOK, StepsOK, StepOK, Writing, reply, goto, history, Exists
    <3>4. QED
      BY <3>2, <3>3 DEF TInv
  <2>2. CASE ~(request[r].kind = "post" /\ there)
    <3>1. /\ step[r] = "exists" /\ request[r].kind \in {"post", "put"}
          /\ there => request[r].kind = "put"
          /\ found' = [found EXCEPT ![r] = IF there THEN doc[id(r)].db ELSE Nil]
          /\ startFields(r, next)
          /\ UNCHANGED <<doc, request, refs, answer, history>>
      BY <1>2, <2>2 DEF Exists, TInv, StepsOK, StepOK, Writing
    <3>2. next \in Steps
      BY <1>0 DEF Steps
    <3>3. next \in FieldNames => body(r)[next] \subseteq Objects
      BY <3>1, BodyType, FieldNamesAre DEF TInv, Writing
    <3>4. request[r] \in Request /\ id(r) \in Ids
      BY <3>1 DEF TInv, StepsOK, StepOK, Request
    <3>5. found' \in [Requests -> DbIds \cup {Nil}]
      BY <3>1, <3>4 DEF TInv, TypeOK, Document
    <3> DEFINE n == next
    <3>6. /\ \/ n = "producer" /\ id(r) \in Metas
             \/ n = "new"
             \/ n = "overwrite" /\ there
          /\ startFields(r, n) /\ n \in Steps
          /\ n \in FieldNames => body(r)[n] \subseteq Objects
      BY <3>1, <3>2, <3>3
    <3> HIDE DEF n, next
    <3>7. TypeOK'
      BY <3>1, <3>5, <3>6, StartType DEF TInv, TypeOK, history
    <3>8. StepsOK'
      BY <3>1, <3>4, <3>6, StartType, FieldNamesAre
         DEF TInv, TypeOK, StepsOK, StepOK, Writing, history
    <3>9. QED
      BY <3>7, <3>8 DEF TInv
  <2>3. QED
    BY <2>1, <2>2
<1>3. ASSUME NEW r \in Requests, New(r) PROVE TInv'
  <2>1. TypeOK'
    BY <1>3 DEF TInv, TypeOK, New, goto, reply, Steps, Answer,
           history
  <2>2. StepsOK'
    BY <1>3, FieldNamesAre
       DEF TInv, TypeOK, StepsOK, StepOK, Writing, New, goto, reply, Steps, Answer,
           history
  <2>3. QED
    BY <2>1, <2>2 DEF TInv
<1>4. ASSUME NEW r \in Requests, Save(r) PROVE TInv'
  <2>1. request[r] \in Request /\ id(r) \in Ids /\ refs[r] \in SUBSET Reference
    BY <1>4 DEF Save, TInv, TypeOK, StepsOK, StepOK, Request
  <2>2. CASE doc[id(r)] # Nil \/ isBad(r, id(r))
    <3>1. reply(r, "error") /\ UNCHANGED <<doc, request, found, tasks, refs, history>>
      BY <1>4, <2>2 DEF Save, history
    <3>2. TypeOK'
      BY <3>1 DEF TInv, TypeOK, reply, goto, Steps, Answer, history
    <3>3. StepsOK'
      BY <1>4, <3>1, FieldNamesAre
         DEF TInv, TypeOK, StepsOK, StepOK, Writing, reply, goto, history, Save
    <3>4. QED
      BY <3>2, <3>3 DEF TInv
  <2>3. CASE ~(doc[id(r)] # Nil \/ isBad(r, id(r)))
    <3>1. /\ reply(r, "ok") /\ put(r, id(r), <<r, "itself">>, refs[r])
          /\ UNCHANGED <<request, found, tasks, refs, overlap, seen, deletions>>
      BY <1>4, <2>3 DEF Save
    <3>2. <<r, "itself">> \in DbIds
      BY DEF DbIds
    <3>3. doc' \in [Ids -> Document \cup {Nil}] /\ stored' \in SUBSET Requests
      BY <2>1, <3>1, <3>2, PutType DEF TInv
    <3>4. TypeOK'
      BY <3>1, <3>3 DEF TInv, TypeOK, reply, goto, Steps, Answer
    <3>5. StepsOK'
      BY <1>4, <3>1, FieldNamesAre DEF TInv, TypeOK, StepsOK, StepOK, Writing, reply, goto, Save
    <3>6. QED
      BY <3>4, <3>5 DEF TInv
  <2>4. QED
    BY <2>2, <2>3
<1>5. ASSUME NEW r \in Requests, Overwrite(r) PROVE TInv'
  <2> DEFINE db == IF doc[id(r)] = Nil THEN <<r, "itself">> ELSE doc[id(r)].db
  <2>1. request[r] \in Request /\ id(r) \in Ids /\ refs[r] \in SUBSET Reference
    BY <1>5 DEF Overwrite, TInv, TypeOK, StepsOK, StepOK, Request
  <2>2. db \in DbIds
    BY <2>1 DEF DbIds, TInv, TypeOK, Document
  <2>3. /\ step[r] = "overwrite"
        /\ put(r, id(r), db, refs[r])
        /\ found' = [found EXCEPT ![r] = db]
        /\ step' = [step EXCEPT ![r] = "saveAgain"]
        /\ UNCHANGED <<request, tasks, refs, answer, overlap, seen, deletions>>
    BY <1>5 DEF Overwrite, goto
  <2> HIDE DEF db
  <2>4. doc' \in [Ids -> Document \cup {Nil}] /\ stored' \in SUBSET Requests
    BY <2>1, <2>2, <2>3, PutType DEF TInv
  <2>5. TypeOK'
    BY <2>2, <2>3, <2>4 DEF TInv, TypeOK, Steps
  <2>6. StepsOK'
    BY <2>3, FieldNamesAre DEF TInv, TypeOK, StepsOK, StepOK, Writing
  <2>7. QED
    BY <2>5, <2>6 DEF TInv
<1>6. ASSUME NEW r \in Requests, SaveAgain(r) PROVE TInv'
  <2>1. TypeOK'
    BY <1>6 DEF TInv, TypeOK, SaveAgain, goto, reply, Steps, Answer,
           history
  <2>2. StepsOK'
    BY <1>6, FieldNamesAre
       DEF TInv, TypeOK, StepsOK, StepOK, Writing, SaveAgain, goto, reply, Steps, Answer,
           history
  <2>3. QED
    BY <2>1, <2>2 DEF TInv
<1>7. ASSUME NEW r \in Requests, NEW f \in FieldNames, NEW i \in Objects, FindObject(r, f, i)
      PROVE  TInv'
  <2>1. CASE doc[i] # Nil
    <3>1. /\ <<f, i, "find">> \in tasks[r] /\ resolved(r, <<f, i, "find">>, doc[i].db)
          /\ doc[i].db \in DbIds
          /\ UNCHANGED <<doc, request, found, answer, history>>
      BY <1>7, <2>1 DEF FindObject, TInv, TypeOK, Document, Ids
    <3> DEFINE db == doc[i].db
    <3>2. resolved(r, <<f, i, "find">>, db) /\ db \in DbIds
      BY <3>1
    <3>6. Resolved(r, f, i, "find", db)
      BY <3>1, <3>2, ResolvedType
    <3> HIDE DEF db
    <3>3. TypeOK'
      BY <3>1, <3>6 DEF TInv, TypeOK, history, Resolved
    <3>4. StepsOK'
      <4>1. StepOK(r)'
        BY <3>1, <3>2, <3>6, FieldNamesAre DEF TInv, TypeOK, StepsOK, StepOK, Writing, Resolved
      <4>2. ASSUME NEW q \in Requests, q # r PROVE StepOK(q)'
        BY <3>1, <3>2, <3>6, <4>2 DEF TInv, TypeOK, StepsOK, StepOK, Resolved
      <4>3. QED
        BY <4>1, <4>2 DEF StepsOK
    <3>5. QED
      BY <3>3, <3>4 DEF TInv
  <2>2. CASE doc[i] = Nil
    <3>1. /\ <<f, i, "find">> \in tasks[r]
          /\ tasks' = [tasks EXCEPT ![r] = (@ \ {<<f, i, "find">>}) \cup {<<f, i, "save">>}]
          /\ UNCHANGED <<doc, request, step, found, refs, answer, history>>
      BY <1>7, <2>2 DEF FindObject
    <3>2. TypeOK'
      BY <3>1 DEF TInv, TypeOK, history
    <3>3. StepsOK'
      BY <3>1 DEF TInv, TypeOK, StepsOK, StepOK, Writing, history
    <3>4. QED
      BY <3>2, <3>3 DEF TInv
  <2>3. QED
    BY <2>1, <2>2
<1>8. ASSUME NEW r \in Requests, NEW f \in FieldNames, NEW i \in Objects, CreateObject(r, f, i)
      PROVE  TInv'
  <2>1. CASE doc[i] # Nil \/ isBad(r, i)
    <3>1. /\ <<f, i, "save">> \in tasks[r]
          /\ tasks' = [tasks EXCEPT ![r] = @ \ {<<f, i, "save">>}]
          /\ answer' = IF step[r] = "done" THEN answer ELSE [answer EXCEPT ![r] = "error"]
          /\ step' = [step EXCEPT ![r] = "done"]
          /\ UNCHANGED <<doc, request, found, refs, history>>
      BY <1>8, <2>1 DEF CreateObject, goto
    <3>2. TypeOK'
      BY <3>1 DEF TInv, TypeOK, history, Steps, Answer
    <3>3. StepsOK'
      BY <3>1, FieldNamesAre DEF TInv, TypeOK, StepsOK, StepOK, Writing, history
    <3>4. QED
      BY <3>2, <3>3 DEF TInv
  <2>2. CASE ~(doc[i] # Nil \/ isBad(r, i))
    <3> DEFINE d == [db |-> <<r, f>>, by |-> r, valid |-> TRUE, refs |-> {}]
    <3>1. d \in Document /\ <<r, f>> \in DbIds
      BY DEF Document, DbIds, Author
    <3>2. /\ <<f, i, "save">> \in tasks[r]
          /\ doc' = [doc EXCEPT ![i] = d]
          /\ resolved(r, <<f, i, "save">>, <<r, f>>)
          /\ UNCHANGED <<request, found, answer, history>>
      BY <1>8, <2>2 DEF CreateObject
    <3>6. Resolved(r, f, i, "save", <<r, f>>)
      BY <3>1, <3>2, ResolvedType
    <3> HIDE DEF d
    <3>3. TypeOK'
      BY <3>1, <3>2, <3>6 DEF TInv, TypeOK, history, Resolved, Ids
    <3>4. StepsOK'
      <4>1. StepOK(r)'
        BY <3>1, <3>2, <3>6, FieldNamesAre DEF TInv, TypeOK, StepsOK, StepOK, Writing, Resolved
      <4>2. ASSUME NEW q \in Requests, q # r PROVE StepOK(q)'
        BY <3>1, <3>2, <3>6, <4>2 DEF TInv, TypeOK, StepsOK, StepOK, Resolved
      <4>3. QED
        BY <4>1, <4>2 DEF StepsOK
    <3>5. QED
      BY <3>3, <3>4 DEF TInv
  <2>3. QED
    BY <2>1, <2>2
<1>9. ASSUME NEW r \in Requests, Ensured(r) PROVE TInv'
  <2>1. TypeOK'
    BY <1>9 DEF TInv, TypeOK, Ensured, goto, reply, Steps, Answer,
           history
  <2>2. StepsOK'
    BY <1>9, FieldNamesAre
       DEF TInv, TypeOK, StepsOK, StepOK, Writing, Ensured, goto, reply, history,
           Request, Ids
  <2>3. QED
    BY <2>1, <2>2 DEF TInv
<1>10. ASSUME NEW r \in Requests, DbId(r) PROVE TInv'
  <2>1. CASE doc[id(r)] = Nil
    <3>1. reply(r, "notFound") /\ UNCHANGED <<doc, request, found, tasks, refs, history>>
      BY <1>10, <2>1 DEF DbId
    <3>2. TypeOK'
      BY <3>1 DEF TInv, TypeOK, reply, goto, Steps, Answer, history
    <3>3. StepsOK'
      BY <1>10, <3>1, FieldNamesAre
         DEF TInv, TypeOK, StepsOK, StepOK, Writing, reply, goto, history, DbId
    <3>4. QED
      BY <3>2, <3>3 DEF TInv
  <2>2. CASE doc[id(r)] # Nil
    <3>1. id(r) \in Ids /\ doc[id(r)].db \in DbIds
      BY <1>10, <2>2 DEF DbId, TInv, TypeOK, StepsOK, StepOK, Ids, Document
    <3>2. /\ step[r] = "dbId" /\ found' = [found EXCEPT ![r] = doc[id(r)].db]
          /\ step' = [step EXCEPT ![r] = "referenced"]
          /\ UNCHANGED <<doc, request, tasks, refs, answer, history>>
      BY <1>10, <2>2 DEF DbId, goto
    <3>3. TypeOK'
      BY <3>1, <3>2 DEF TInv, TypeOK, Steps, history
    <3>4. StepsOK'
      BY <3>2, FieldNamesAre DEF TInv, TypeOK, StepsOK, StepOK, Writing, history
    <3>5. QED
      BY <3>3, <3>4 DEF TInv
  <2>3. QED
    BY <2>1, <2>2
<1>11. ASSUME NEW r \in Requests, Referenced(r) PROVE TInv'
  <2>1. TypeOK'
    BY <1>11 DEF TInv, TypeOK, Referenced, goto, reply, Steps, Answer,
           history
  <2>2. StepsOK'
    BY <1>11, FieldNamesAre
       DEF TInv, TypeOK, StepsOK, StepOK, Writing, Referenced, goto, reply, Steps, Answer,
           history
  <2>3. QED
    BY <2>1, <2>2 DEF TInv
<1>12. ASSUME NEW r \in Requests, Delete(r) PROVE TInv'
  <2>1. id(r) \in Ids
    BY <1>12 DEF Delete, TInv, TypeOK, StepsOK, StepOK, Request
  <2>2. /\ remove(r, id(r)) /\ reply(r, "ok")
        /\ UNCHANGED <<request, found, tasks, refs, overlap, seen, stored>>
    BY <1>12 DEF Delete
  <2>3. doc' \in [Ids -> Document \cup {Nil}] /\ deletions' \in SUBSET (Ids \X DbIds \X Requests)
    BY <2>1, <2>2, RemoveType DEF TInv
  <2>4. TypeOK'
    BY <2>2, <2>3 DEF TInv, TypeOK, reply, goto, Steps, Answer
  <2>5. StepsOK'
    BY <1>12, <2>2, FieldNamesAre DEF TInv, TypeOK, StepsOK, StepOK, Writing, reply, goto, Delete
  <2>6. QED
    BY <2>4, <2>5 DEF TInv
<1>13. ASSUME NEW r \in Requests, Deletion(r) PROVE TInv'
  <2>1. id(r) \in Ids
    BY <1>13 DEF Deletion, TInv, TypeOK, StepsOK, StepOK, Request
  <2>2. /\ remove(r, id(r)) /\ reply(r, "ok")
        /\ UNCHANGED <<request, found, tasks, refs, overlap, seen, stored>>
    BY <1>13 DEF Deletion
  <2>3. doc' \in [Ids -> Document \cup {Nil}] /\ deletions' \in SUBSET (Ids \X DbIds \X Requests)
    BY <2>1, <2>2, RemoveType DEF TInv
  <2>4. TypeOK'
    BY <2>2, <2>3 DEF TInv, TypeOK, reply, goto, Steps, Answer
  <2>5. StepsOK'
    BY <1>13, <2>2, FieldNamesAre DEF TInv, TypeOK, StepsOK, StepOK, Writing, reply, goto, Deletion
  <2>6. QED
    BY <2>4, <2>5 DEF TInv
<1>14. CASE UNCHANGED vars
  <2>1. TypeOK'
    BY <1>14 DEF vars, history, TInv, TypeOK
  <2>2. StepsOK'
    BY <1>14 DEF vars, history, TInv, StepsOK, StepOK
  <2>3. QED
    BY <2>1, <2>2 DEF TInv
<1>15. QED
  BY <1>1, <1>2, <1>3, <1>4, <1>5, <1>6, <1>7, <1>8, <1>9, <1>10, <1>11, <1>12, <1>13, <1>14
     DEF Next, Handle

(***************************************************************************)
(* What a step of a handler does, in the terms of the invariant.           *)
(***************************************************************************)

\* The request r stores a document, a new one or one that was there.
Stores(r, i, db, rs) ==
    /\ doc'[i] # Nil /\ doc'[i].db = db /\ doc'[i].by = r /\ doc'[i].refs = rs
    /\ \A j \in Ids : j # i => doc'[j] = doc[j]
    /\ UNCHANGED deletions
    /\ i \in Metas => rs = refs[r] /\ step[r] \in {"save", "overwrite"}
    /\ \/ doc'[i].valid
       \/ step[r] = "overwrite" /\ step'[r] = "saveAgain" /\ isBad(r, i) /\ id(r) = i
    /\ \/ doc[i] # Nil /\ doc[i].db = db
       \/ /\ doc[i] = Nil /\ isNew(i, db)
          /\ \/ db = <<r, "itself">> /\ step'[r] \in {"done", "saveAgain"}
             \/ \E f \in FieldNames : db = <<r, f>> /\ ~mayCreate(r, f, i)'

Removes(r, i) ==
    /\ step[r] \in {"delete", "deletion"} /\ id(r) = i
    /\ doc'[i] = Nil
    /\ \A j \in Ids : j # i => doc'[j] = doc[j]
    /\ deletions \subseteq deletions'
    /\ \A j \in Ids, db \in DbIds, q \in Requests :
          <<j, db, q>> \in deletions' => <<j, db, q>> \in deletions \/ (j = i /\ isThere(i, db))
    /\ doc[i] # Nil => <<i, doc[i].db, r>> \in deletions'

LEMMA LaterIrreflexive ==
    ASSUME NEW f
    PROVE  ~later(f, f)
BY DEF later, Fields

LEMMA StoresPut ==
    ASSUME TInv, NewOK, NEW r \in Requests, NEW db \in DbIds,
           step[r] \in {"save", "overwrite"}, step'[r] \in {"done", "saveAgain"},
           put(r, id(r), db, refs[r]), UNCHANGED deletions,
           \/ doc[id(r)] = Nil /\ db = <<r, "itself">>
           \/ doc[id(r)] # Nil /\ doc[id(r)].db = db,
           ~isBad(r, id(r)) \/ (step[r] = "overwrite" /\ step'[r] = "saveAgain")
    PROVE  Stores(r, id(r), db, refs[r]) /\ id(r) \in Ids /\ stored' = stored \cup {r}
<1>1. id(r) \in Ids /\ refs[r] \in SUBSET Reference
  BY DEF TInv, StepsOK, StepOK, TypeOK, Request, id
<1>2. isNew(id(r), <<r, "itself">>)
  BY <1>1 DEF NewOK
<1>3. /\ doc'[id(r)] # Nil /\ doc'[id(r)].db = db /\ doc'[id(r)].by = r
      /\ doc'[id(r)].refs = refs[r] /\ doc'[id(r)].valid = ~isBad(r, id(r))
      /\ \A j \in Ids : j # id(r) => doc'[j] = doc[j]
      /\ stored' = stored \cup {r}
  <2> DEFINE i == id(r)
             rs == refs[r]
  <2>1. i \in Ids /\ rs \in SUBSET Reference /\ put(r, i, db, rs)
    BY <1>1
  <2> HIDE DEF i, rs
  <2>2. /\ doc'[i] # Nil /\ doc'[i].db = db /\ doc'[i].by = r
        /\ doc'[i].refs = rs /\ doc'[i].valid = ~isBad(r, i)
        /\ \A j \in Ids : j # i => doc'[j] = doc[j]
        /\ stored' = stored \cup {r}
    BY <2>1, PutType DEF TInv
  <2>3. QED
    BY <2>2 DEF i, rs
<1>4. QED
  BY <1>1, <1>2, <1>3 DEF Stores

LEMMA HandleRemoves ==
    ASSUME TInv, NEW r \in Requests, Delete(r) \/ Deletion(r)
    PROVE  \E i \in Ids : Removes(r, i)
<1>1. id(r) \in Ids
  BY DEF Delete, Deletion, TInv, TypeOK, StepsOK, StepOK, Request, id
<1>2. remove(r, id(r)) /\ step[r] \in {"delete", "deletion"}
  BY DEF Delete, Deletion
<1>3. QED
  BY <1>1, <1>2, RemoveType DEF TInv, TypeOK, remove, Removes, isThere

LEMMA CreateStores ==
    ASSUME TInv, NewOK, NEW r \in Requests, NEW f \in FieldNames, NEW i \in Objects,
           CreateObject(r, f, i), doc[i] = Nil, ~isBad(r, i)
    PROVE  Stores(r, i, <<r, f>>, {}) /\ i \in Ids /\ <<r, f>> \in DbIds
<1> DEFINE d == [db |-> <<r, f>>, by |-> r, valid |-> TRUE, refs |-> {}]
<1>1. /\ <<f, i, "save">> \in tasks[r]
      /\ doc' = [doc EXCEPT ![i] = d]
      /\ resolved(r, <<f, i, "save">>, <<r, f>>)
      /\ UNCHANGED <<request, found, answer, history>>
  BY DEF CreateObject
<1>2. d \in Document /\ <<r, f>> \in DbIds
  BY DEF Document, DbIds, Author
<1>3. d.db = <<r, f>> /\ d.by = r /\ d.valid /\ d.refs = {}
  OBVIOUS
<1> HIDE DEF d
<1>4. /\ doc'[i] # Nil /\ doc'[i].db = <<r, f>> /\ doc'[i].by = r /\ doc'[i].refs = {}
      /\ doc'[i].valid /\ \A j \in Ids : j # i => doc'[j] = doc[j]
  BY <1>1, <1>2, <1>3, NilAssumption DEF TInv, TypeOK, Ids
<1>5. isNew(i, <<r, f>>)
  BY <1>1 DEF NewOK, mayCreate
<1>6. ~mayCreate(r, f, i)'
  <2>1. Resolved(r, f, i, "save", <<r, f>>)
    BY <1>1, <1>2, ResolvedType
  <2>2. <<f, i, "find">> \notin tasks[r]
    BY <1>1 DEF NewOK
  <2>3. step'[r] \notin {"idle", "exists"}
    BY <2>1, FieldNamesAre DEF Resolved
  <2>4. step'[r] \in FieldNames => ~later(step'[r], f)
    BY <2>1, LaterIrreflexive, LaterTransitive, FieldNamesAre DEF Resolved
  <2>5. <<f, i, "find">> \notin tasks'[r] /\ <<f, i, "save">> \notin tasks'[r]
    BY <2>1, <2>2, LaterIrreflexive DEF Resolved
  <2>6. QED
    BY <2>3, <2>4, <2>5 DEF mayCreate
<1>7. i \in Ids /\ i \notin Metas
  BY ConstantsAssumption DEF Ids, Objects
<1>8. UNCHANGED deletions
  BY <1>1 DEF history
<1>9. QED
  BY <1>2, <1>4, <1>5, <1>6, <1>7, <1>8 DEF Stores

\* What the handler of r leaves alone.
Frame(r) ==
    /\ UNCHANGED <<request, overlap>>
    /\ stored \subseteq stored' /\ deletions \subseteq deletions'
    /\ step[r] # "idle" /\ step'[r] # "idle" /\ isUnderWay(r)
    /\ \A q \in Requests : q # r =>
          /\ step'[q] = step[q] /\ tasks'[q] = tasks[q] /\ found'[q] = found[q]
          /\ refs'[q] = refs[q] /\ answer'[q] = answer[q]

\* How the handler of r goes on.
Progress(r) ==
    /\ step[r] = "done" => step'[r] = "done" /\ answer'[r] = answer[r]
    /\ step[r] = "saveAgain" => step'[r] = "done" /\ (isBad(r, id(r)) => answer'[r] = "error")
    /\ step[r] \in {"delete", "deletion"} => step'[r] = "done"
    /\ step'[r] = "saveAgain" => r \in stored'
    /\ step'[r] = "new" => doc[id(r)] = Nil /\ UNCHANGED doc
    /\ step'[r] \in FieldNames \cup {"exists", "new", "save", "overwrite"} =>
          step[r] \in FieldNames \cup {"exists", "new"}
    /\ step'[r] = "referenced" => UNCHANGED doc /\ found'[r] = doc[id(r)].db
    /\ step'[r] = "delete" =>
          /\ UNCHANGED doc
          /\ \/ id(r) \in Metas
             \/ step[r] = "referenced" /\ ~isReferenced(id(r), found[r])
    /\ answer'[r] = "ok" /\ request[r].kind \in {"post", "put"} =>
          answer[r] = "ok" \/ r \in stored' \/ (step[r] = "new" /\ doc[id(r)] # Nil)

\* What the tasks of r may still do, and what it refers to.
TaskProgress(r) ==
    /\ \A f \in FieldNames, i \in Objects : mayCreate(r, f, i)' => mayCreate(r, f, i)
    /\ \A f \in FieldNames, i \in Objects :
          <<f, i, "find">> \in tasks'[r] => <<f, i, "save">> \notin tasks'[r]
    /\ \A f \in FieldNames, i \in Objects, db \in DbIds :
          <<f, i, db>> \in refs'[r] => <<f, i, db>> \in refs[r] \/ isThere(i, db)'

DocEffect(r) ==
    \/ UNCHANGED <<doc, deletions>>
    \/ \E i \in Ids, db \in DbIds, rs \in SUBSET Reference : Stores(r, i, db, rs)
    \/ \E i \in Ids : Removes(r, i)

LEMMA HandleFrame ==
    ASSUME TInv, NewOK, NEW r \in Requests, Handle(r)
    PROVE  Frame(r)
<1>1. CASE Exists(r)
  BY <1>1, FieldNamesAre
     DEF Exists, TInv, TypeOK, history, goto, reply, Frame, isUnderWay, startFields, put, remove,
         StepsOK, StepOK
<1>2. CASE New(r)
  BY <1>2, FieldNamesAre
     DEF New, TInv, TypeOK, history, goto, reply, Frame, isUnderWay, startFields, put, remove,
         StepsOK, StepOK
<1>3. CASE Save(r)
  BY <1>3, FieldNamesAre
     DEF Save, TInv, TypeOK, history, goto, reply, Frame, isUnderWay, startFields, put, remove,
         StepsOK, StepOK
<1>4. CASE Overwrite(r)
  BY <1>4, FieldNamesAre
     DEF Overwrite, TInv, TypeOK, history, goto, reply, Frame, isUnderWay, startFields, put, remove,
         StepsOK, StepOK
<1>5. CASE SaveAgain(r)
  BY <1>5, FieldNamesAre
     DEF SaveAgain, TInv, TypeOK, history, goto, reply, Frame, isUnderWay, startFields, put, remove,
         StepsOK, StepOK
<1>6. CASE Ensured(r)
  BY <1>6, FieldNamesAre
     DEF Ensured, TInv, TypeOK, history, goto, reply, Frame, isUnderWay, startFields, put, remove,
         StepsOK, StepOK
<1>7. CASE DbId(r)
  BY <1>7, FieldNamesAre
     DEF DbId, TInv, TypeOK, history, goto, reply, Frame, isUnderWay, startFields, put, remove,
         StepsOK, StepOK
<1>8. CASE Referenced(r)
  BY <1>8, FieldNamesAre
     DEF Referenced, TInv, TypeOK, history, goto, reply, Frame, isUnderWay, startFields, put,
         remove, StepsOK, StepOK
<1>9. CASE Delete(r)
  BY <1>9, FieldNamesAre
     DEF Delete, TInv, TypeOK, history, goto, reply, Frame, isUnderWay, startFields, put, remove,
         StepsOK, StepOK
<1>10. CASE Deletion(r)
  BY <1>10, FieldNamesAre
     DEF Deletion, TInv, TypeOK, history, goto, reply, Frame, isUnderWay, startFields, put, remove,
         StepsOK, StepOK
<1>11. ASSUME NEW f \in FieldNames, NEW i \in Objects, FindObject(r, f, i) PROVE Frame(r)
  <2>1. CASE doc[i] # Nil
    <3> DEFINE db == doc[i].db
    <3>1. db \in DbIds /\ <<f, i, "find">> \in tasks[r] /\ resolved(r, <<f, i, "find">>, db)
      BY <1>11, <2>1 DEF FindObject, TInv, TypeOK, Document, Ids
    <3>2. Resolved(r, f, i, "find", db)
      BY <3>1, ResolvedType
    <3> HIDE DEF db
    <3>3. QED
      BY <1>11, <3>1, <3>2, FieldNamesAre
         DEF FindObject, TInv, StepsOK, StepOK, Frame, TypeOK, history, goto, isUnderWay, put,
             remove, Resolved
  <2>2. CASE doc[i] = Nil
    BY <1>11, <2>2, FieldNamesAre
       DEF FindObject, TInv, StepsOK, StepOK, Frame, TypeOK, history, goto, isUnderWay, put, remove
  <2>3. QED
    BY <2>1, <2>2
<1>12. ASSUME NEW f \in FieldNames, NEW i \in Objects, CreateObject(r, f, i) PROVE Frame(r)
  <2>1. CASE doc[i] # Nil \/ isBad(r, i)
    BY <1>12, <2>1, FieldNamesAre
       DEF CreateObject, TInv, TypeOK, StepsOK, StepOK, Frame, history, goto, isUnderWay, put,
           remove
  <2>2. CASE ~(doc[i] # Nil \/ isBad(r, i))
    <3>1. <<r, f>> \in DbIds
      BY DEF DbIds
    <3>2. Resolved(r, f, i, "save", <<r, f>>)
      BY <1>12, <2>2, <3>1, ResolvedType DEF CreateObject
    <3>3. QED
      BY <1>12, <2>2, <3>2, FieldNamesAre
         DEF CreateObject, TInv, StepsOK, StepOK, Frame, TypeOK, history, goto, isUnderWay, put,
             remove, Resolved
  <2>3. QED
    BY <2>1, <2>2
<1>13. QED
  BY <1>1, <1>2, <1>3, <1>4, <1>5, <1>6, <1>7, <1>8, <1>9, <1>10, <1>11, <1>12 DEF Handle

LEMMA HandleProgress ==
    ASSUME TInv, StoredOK, NEW r \in Requests, Handle(r)
    PROVE  Progress(r)
<1>1. CASE Exists(r)
  BY <1>1, FieldNamesAre
     DEF Exists, TInv, TypeOK, history, goto, reply, Progress, startFields, put, remove, StepsOK,
         StepOK
<1>2. CASE New(r)
  BY <1>2, FieldNamesAre
     DEF New, TInv, TypeOK, history, goto, reply, Progress, startFields, put, remove, StepsOK,
         StepOK
<1>3. CASE Save(r)
  BY <1>3, FieldNamesAre
     DEF Save, TInv, TypeOK, history, goto, reply, Progress, startFields, put, remove, StepsOK,
         StepOK
<1>4. CASE Overwrite(r)
  BY <1>4, FieldNamesAre
     DEF Overwrite, TInv, TypeOK, history, goto, reply, Progress, startFields, put, remove, StepsOK,
         StepOK
<1>5. CASE SaveAgain(r)
  BY <1>5, FieldNamesAre
     DEF SaveAgain, TInv, TypeOK, history, goto, reply, Progress, StoredOK, StepsOK, StepOK
<1>6. CASE Ensured(r)
  BY <1>6, FieldNamesAre
     DEF Ensured, TInv, TypeOK, history, goto, reply, Progress, startFields, put, remove, StepsOK,
         StepOK
<1>7. CASE DbId(r)
  BY <1>7, FieldNamesAre
     DEF DbId, TInv, TypeOK, history, goto, reply, Progress, startFields, put, remove, StepsOK,
         StepOK
<1>8. CASE Referenced(r)
  BY <1>8, FieldNamesAre
     DEF Referenced, TInv, TypeOK, history, goto, reply, Progress, startFields, put, remove,
         StepsOK, StepOK
<1>9. CASE Delete(r)
  BY <1>9, FieldNamesAre
     DEF Delete, TInv, TypeOK, history, goto, reply, Progress, startFields, put, remove, StepsOK,
         StepOK
<1>10. CASE Deletion(r)
  BY <1>10, FieldNamesAre
     DEF Deletion, TInv, TypeOK, history, goto, reply, Progress, startFields, put, remove, StepsOK,
         StepOK
<1>11. ASSUME NEW f \in FieldNames, NEW i \in Objects, FindObject(r, f, i) PROVE Progress(r)
  <2>1. CASE doc[i] # Nil
    <3> DEFINE db == doc[i].db
    <3>1. db \in DbIds /\ <<f, i, "find">> \in tasks[r] /\ resolved(r, <<f, i, "find">>, db)
      BY <1>11, <2>1 DEF FindObject, TInv, TypeOK, Document, Ids
    <3>2. Resolved(r, f, i, "find", db)
      BY <3>1, ResolvedType
    <3> HIDE DEF db
    <3>3. QED
      BY <1>11, <3>1, <3>2, FieldNamesAre DEF FindObject, TInv, StepsOK, StepOK, Progress, Resolved
  <2>2. CASE doc[i] = Nil
    BY <1>11, <2>2, FieldNamesAre DEF FindObject, TInv, StepsOK, StepOK, Progress
  <2>3. QED
    BY <2>1, <2>2
<1>12. ASSUME NEW f \in FieldNames, NEW i \in Objects, CreateObject(r, f, i) PROVE Progress(r)
  <2>1. CASE doc[i] # Nil \/ isBad(r, i)
    BY <1>12, <2>1, FieldNamesAre DEF CreateObject, TInv, TypeOK, StepsOK, StepOK, Progress, goto
  <2>2. CASE ~(doc[i] # Nil \/ isBad(r, i))
    <3>1. <<r, f>> \in DbIds
      BY DEF DbIds
    <3>2. Resolved(r, f, i, "save", <<r, f>>)
      BY <1>12, <2>2, <3>1, ResolvedType DEF CreateObject
    <3>3. QED
      BY <1>12, <2>2, <3>2, FieldNamesAre
         DEF CreateObject, TInv, StepsOK, StepOK, Progress, Resolved
  <2>3. QED
    BY <2>1, <2>2
<1>13. QED
  BY <1>1, <1>2, <1>3, <1>4, <1>5, <1>6, <1>7, <1>8, <1>9, <1>10, <1>11, <1>12 DEF Handle

LEMMA HandleTasks ==
    ASSUME TInv, NewOK, NEW r \in Requests, Handle(r)
    PROVE  TaskProgress(r)
<1>1. CASE Exists(r)
  <2>1. step[r] = "exists" /\ tasks[r] = {}
    BY <1>1, FieldNamesAre DEF Exists, TInv, StepsOK, StepOK
  <2>2. refs' = refs /\ \A f \in FieldNames, i \in Objects : mayCreate(r, f, i)
    BY <1>1, <2>1 DEF Exists, mayCreate
  <2>3. \A f \in FieldNames, i \in Objects : <<f, i, "save">> \notin tasks'[r]
    BY <1>1, <2>1 DEF Exists, TInv, TypeOK, startFields, goto
  <2>4. QED
    BY <2>2, <2>3 DEF TaskProgress
<1>2. CASE New(r)
  BY <1>2, FieldNamesAre
     DEF New, TInv, TypeOK, history, goto, reply, TaskProgress, mayCreate, StepsOK, StepOK
<1>3. CASE Save(r)
  BY <1>3, FieldNamesAre
     DEF Save, TInv, TypeOK, history, goto, reply, TaskProgress, mayCreate, StepsOK, StepOK
<1>4. CASE Overwrite(r)
  BY <1>4, FieldNamesAre
     DEF Overwrite, TInv, TypeOK, history, goto, reply, TaskProgress, mayCreate, StepsOK, StepOK
<1>5. CASE SaveAgain(r)
  BY <1>5, FieldNamesAre
     DEF SaveAgain, TInv, TypeOK, history, goto, reply, TaskProgress, mayCreate, StepsOK, StepOK
<1>6. CASE Ensured(r)
  BY <1>6, FieldNamesAre
     DEF Ensured, TInv, TypeOK, history, goto, reply, TaskProgress, mayCreate, StepsOK, StepOK
<1>7. CASE DbId(r)
  BY <1>7, FieldNamesAre
     DEF DbId, TInv, TypeOK, history, goto, reply, TaskProgress, mayCreate, StepsOK, StepOK
<1>8. CASE Referenced(r)
  BY <1>8, FieldNamesAre
     DEF Referenced, TInv, TypeOK, history, goto, reply, TaskProgress, mayCreate, StepsOK, StepOK
<1>9. CASE Delete(r)
  BY <1>9, FieldNamesAre
     DEF Delete, TInv, TypeOK, history, goto, reply, TaskProgress, mayCreate, StepsOK, StepOK
<1>10. CASE Deletion(r)
  BY <1>10, FieldNamesAre
     DEF Deletion, TInv, TypeOK, history, goto, reply, TaskProgress, mayCreate, StepsOK, StepOK
<1>11. ASSUME NEW f \in FieldNames, NEW i \in Objects, FindObject(r, f, i) PROVE TaskProgress(r)
  <2>0. <<f, i, "find">> \in tasks[r] /\ <<f, i, "save">> \notin tasks[r]
    BY <1>11 DEF FindObject, NewOK
  <2>1. CASE doc[i] # Nil
    <3> PICK db \in DbIds : db = doc[i].db
      BY <2>1 DEF TInv, TypeOK, Document, Ids
    <3>1. resolved(r, <<f, i, "find">>, db) /\ isThere(i, db)'
      BY <1>11, <2>1 DEF FindObject, isThere
    <3>2. Resolved(r, f, i, "find", db)
      BY <2>0, <3>1, ResolvedType
    <3>3. ASSUME NEW g \in FieldNames, NEW j \in Objects, mayCreate(r, g, j)'
          PROVE  mayCreate(r, g, j)
      BY <2>0, <3>2, <3>3, LaterTransitive, FieldNamesAre DEF Resolved, mayCreate
    <3>4. ASSUME NEW g \in FieldNames, NEW j \in Objects
          PROVE  <<g, j, "find">> \in tasks'[r] => <<g, j, "save">> \notin tasks'[r]
      BY <3>2, FieldNamesAre DEF Resolved, NewOK
    <3>5. ASSUME NEW g \in FieldNames, NEW j \in Objects, NEW x \in DbIds, <<g, j, x>> \in refs'[r]
          PROVE  <<g, j, x>> \in refs[r] \/ isThere(j, x)'
      BY <3>1, <3>2, <3>5 DEF Resolved
    <3>6. QED
      BY <3>3, <3>4, <3>5 DEF TaskProgress
  <2>2. CASE doc[i] = Nil
    <3>1. /\ tasks'[r] = (tasks[r] \ {<<f, i, "find">>}) \cup {<<f, i, "save">>}
          /\ UNCHANGED <<step, refs>>
      BY <1>11, <2>2 DEF FindObject, TInv, TypeOK
    <3>2. ASSUME NEW g \in FieldNames, NEW j \in Objects, mayCreate(r, g, j)'
          PROVE  mayCreate(r, g, j)
      BY <2>0, <3>1, <3>2 DEF mayCreate
    <3>3. ASSUME NEW g \in FieldNames, NEW j \in Objects
          PROVE  <<g, j, "find">> \in tasks'[r] => <<g, j, "save">> \notin tasks'[r]
      BY <3>1 DEF NewOK
    <3>4. QED
      BY <3>1, <3>2, <3>3 DEF TaskProgress
  <2>3. QED
    BY <2>1, <2>2
<1>12. ASSUME NEW f \in FieldNames, NEW i \in Objects, CreateObject(r, f, i) PROVE TaskProgress(r)
  <2>0. <<f, i, "save">> \in tasks[r]
    BY <1>12 DEF CreateObject
  <2>1. CASE doc[i] # Nil \/ isBad(r, i)
    <3>1. tasks'[r] = tasks[r] \ {<<f, i, "save">>} /\ step'[r] = "done" /\ UNCHANGED refs
      BY <1>12, <2>1 DEF CreateObject, TInv, TypeOK, goto
    <3>2. ASSUME NEW g \in FieldNames, NEW j \in Objects, mayCreate(r, g, j)'
          PROVE  mayCreate(r, g, j)
      BY <3>1, <3>2, FieldNamesAre DEF mayCreate
    <3>3. QED
      BY <3>1, <3>2 DEF TaskProgress, NewOK
  <2>2. CASE ~(doc[i] # Nil \/ isBad(r, i))
    <3>1. <<r, f>> \in DbIds
      BY DEF DbIds
    <3>2. Resolved(r, f, i, "save", <<r, f>>)
      BY <1>12, <2>2, <3>1, ResolvedType DEF CreateObject
    <3>3. isThere(i, <<r, f>>)'
      BY <1>12, <2>2, CreateStores DEF Stores, isThere
    <3>4. ASSUME NEW g \in FieldNames, NEW j \in Objects, mayCreate(r, g, j)'
          PROVE  mayCreate(r, g, j)
      BY <2>0, <3>2, <3>4, LaterTransitive, FieldNamesAre DEF Resolved, mayCreate
    <3>5. ASSUME NEW g \in FieldNames, NEW j \in Objects
          PROVE  <<g, j, "find">> \in tasks'[r] => <<g, j, "save">> \notin tasks'[r]
      BY <3>2, FieldNamesAre DEF Resolved, NewOK
    <3>6. ASSUME NEW g \in FieldNames, NEW j \in Objects, NEW x \in DbIds, <<g, j, x>> \in refs'[r]
          PROVE  <<g, j, x>> \in refs[r] \/ isThere(j, x)'
      BY <3>2, <3>3, <3>6 DEF Resolved
    <3>7. QED
      BY <3>4, <3>5, <3>6 DEF TaskProgress
  <2>3. QED
    BY <2>1, <2>2
<1>13. QED
  BY <1>1, <1>2, <1>3, <1>4, <1>5, <1>6, <1>7, <1>8, <1>9, <1>10, <1>11, <1>12 DEF Handle

LEMMA HandleEffect ==
    ASSUME TInv, NewOK, NEW r \in Requests, Handle(r)
    PROVE  DocEffect(r)
<1>1. CASE Exists(r)
  BY <1>1 DEF Exists, history, DocEffect
<1>2. CASE New(r)
  BY <1>2 DEF New, history, DocEffect
<1>3. CASE Save(r)
  <2>1. CASE doc[id(r)] # Nil \/ isBad(r, id(r))
    BY <1>3, <2>1 DEF Save, history, DocEffect
  <2>2. CASE ~(doc[id(r)] # Nil \/ isBad(r, id(r)))
    <3>1. <<r, "itself">> \in DbIds /\ refs[r] \in SUBSET Reference
      BY DEF DbIds, TInv, TypeOK
    <3>2. /\ put(r, id(r), <<r, "itself">>, refs[r]) /\ UNCHANGED deletions
          /\ step[r] = "save" /\ step'[r] = "done"
      BY <1>3, <2>2 DEF Save, reply, goto, TInv, TypeOK
    <3>3. Stores(r, id(r), <<r, "itself">>, refs[r]) /\ id(r) \in Ids
      BY <2>2, <3>1, <3>2, StoresPut
    <3>4. QED
      BY <3>1, <3>3 DEF DocEffect
  <2>3. QED
    BY <2>1, <2>2
<1>4. CASE Overwrite(r)
  <2> DEFINE db == IF doc[id(r)] = Nil THEN <<r, "itself">> ELSE doc[id(r)].db
  <2>1. id(r) \in Ids /\ refs[r] \in SUBSET Reference
    BY <1>4 DEF Overwrite, TInv, TypeOK, StepsOK, StepOK, Request, id
  <2>2. db \in DbIds
    BY <2>1 DEF DbIds, TInv, TypeOK, Document
  <2>3. /\ put(r, id(r), db, refs[r]) /\ UNCHANGED deletions
        /\ step[r] = "overwrite" /\ step'[r] = "saveAgain"
    BY <1>4 DEF Overwrite, goto, TInv, TypeOK
  <2>4. \/ doc[id(r)] = Nil /\ db = <<r, "itself">>
        \/ doc[id(r)] # Nil /\ doc[id(r)].db = db
    OBVIOUS
  <2> HIDE DEF db
  <2>5. Stores(r, id(r), db, refs[r])
    BY <2>1, <2>2, <2>3, <2>4, StoresPut
  <2>6. QED
    BY <2>1, <2>2, <2>5 DEF DocEffect
<1>5. CASE SaveAgain(r)
  BY <1>5 DEF SaveAgain, history, DocEffect
<1>6. CASE Ensured(r)
  BY <1>6 DEF Ensured, history, DocEffect
<1>7. CASE DbId(r)
  BY <1>7 DEF DbId, history, DocEffect
<1>8. CASE Referenced(r)
  BY <1>8 DEF Referenced, history, DocEffect
<1>9. CASE Delete(r)
  BY <1>9, HandleRemoves DEF DocEffect
<1>10. CASE Deletion(r)
  BY <1>10, HandleRemoves DEF DocEffect
<1>11. ASSUME NEW f \in FieldNames, NEW i \in Objects, FindObject(r, f, i) PROVE DocEffect(r)
  BY <1>11 DEF FindObject, history, DocEffect
<1>12. ASSUME NEW f \in FieldNames, NEW i \in Objects, CreateObject(r, f, i) PROVE DocEffect(r)
  <2>1. CASE doc[i] # Nil \/ isBad(r, i)
    BY <1>12, <2>1 DEF CreateObject, history, DocEffect
  <2>2. CASE ~(doc[i] # Nil \/ isBad(r, i))
    <3>1. Stores(r, i, <<r, f>>, {}) /\ i \in Ids /\ <<r, f>> \in DbIds
      BY <1>12, <2>2, CreateStores
    <3>2. {} \in SUBSET Reference
      OBVIOUS
    <3>3. QED
      BY <3>1, <3>2 DEF DocEffect
  <2>3. QED
    BY <2>1, <2>2
<1>13. QED
  BY <1>1, <1>2, <1>3, <1>4, <1>5, <1>6, <1>7, <1>8, <1>9, <1>10, <1>11, <1>12 DEF Handle

(***************************************************************************)
(* The invariant is kept.                                                  *)
(***************************************************************************)

LEMMA IInit == Init => IInv
<1> SUFFICES ASSUME Init PROVE IInv
  OBVIOUS
<1>1. TInv
  BY TypeInit
<1>2. OverlapOK /\ StoredOK
  BY NilAssumption DEF Init, OverlapOK, StoredOK, isUnderWay, Answer
<1>3. PICK there \in SUBSET Objects, b \in [Metas -> Bodies \cup {Nil}] :
        /\ \A m \in Metas : b[m] # Nil => named(b[m]) \subseteq there
        /\ doc = [i \in Ids |-> IF i \in there THEN oldDocument({})
                               ELSE IF i \in Metas /\ b[i] # Nil THEN oldDocument(oldRefs(b[i]))
                               ELSE Nil]
  BY DEF Init
<1>4. \A i \in Ids : doc[i] # Nil => doc[i].db = Old /\ doc[i].valid
  BY <1>3 DEF oldDocument
<1>5. ValidOK
  BY <1>4 DEF ValidOK
<1>6. \A r \in Requests : Old # <<r, "itself">> /\ \A f \in FieldNames : Old # <<r, f>>
  BY NilAssumption
<1>7. NewOK
  <2>1. \A i \in Ids, r \in Requests : isNew(i, <<r, "itself">>)
    BY <1>4, <1>6 DEF Init, isNew, isThere
  <2>2. \A i \in Objects, r \in Requests, f \in FieldNames : isNew(i, <<r, f>>)
    BY <1>4, <1>6 DEF Init, isNew, isThere, Ids
  <2>3. QED
    BY <2>1, <2>2 DEF Init, NewOK
<1>8. \A m \in Metas : doc[m] # Nil =>
         \A f \in FieldNames, i \in Objects, db \in DbIds :
            <<f, i, db>> \in doc[m].refs => isThere(i, db)
  <2> SUFFICES ASSUME NEW m \in Metas, doc[m] # Nil, NEW f \in FieldNames, NEW i \in Objects,
                      NEW db \in DbIds, <<f, i, db>> \in doc[m].refs
               PROVE  isThere(i, db)
    OBVIOUS
  <2>1. m \in Ids /\ m \notin there /\ i \in Ids /\ i \notin Metas
    BY ConstantsAssumption DEF Ids, Objects
  <2>2. b[m] # Nil /\ doc[m] = oldDocument(oldRefs(b[m]))
    BY <1>3, <2>1
  <2>3. <<f, i, db>> \in oldRefs(b[m])
    BY <2>2 DEF oldDocument
  <2>4. i \in b[m][f] /\ db = Old
    BY <2>3 DEF oldRefs
  <2>5. i \in there
    BY <1>3, <2>2, <2>4 DEF named
  <2>6. doc[i] = oldDocument({}) /\ doc[i] \in Document
    BY <1>3, <2>1, <2>5 DEF oldDocument, Document, DbIds, Author
  <2>7. doc[i].db = Old /\ doc[i] # Nil
    <3>1. oldDocument({}).db = Old
      BY DEF oldDocument
    <3>2. doc[i] # Nil
      BY <2>6, NilAssumption
    <3>3. QED
      BY <2>6, <3>1, <3>2
  <2>8. QED
    BY <2>4, <2>7 DEF isThere
<1>9. RefsOK
  BY <1>8 DEF Init, RefsOK, isExcused
<1>10. DeleteOK
  BY DEF Init, DeleteOK
<1>11. QED
  BY <1>1, <1>2, <1>5, <1>7, <1>9, <1>10 DEF IInv, TInv

\* What is excused stays so, unless the document is deleted without an excuse.
LEMMA ExcusedStays ==
    ASSUME TInv, NEW r \in Requests, Frame(r), DocEffect(r),
           NEW i \in Objects, NEW db \in DbIds, NEW o, isExcused(i, db, o),
           isThere(i, db) /\ step[r] = "delete" /\ id(r) = i => {r, o} \in overlap
    PROVE  isExcused(i, db, o)'
<1>0. i \in Ids
  BY DEF Ids
<1>1. CASE UNCHANGED <<doc, deletions>>
  BY <1>1 DEF isExcused, isThere, Frame
<1>2. ASSUME NEW j \in Ids, NEW x \in DbIds, NEW rs \in SUBSET Reference, Stores(r, j, x, rs)
      PROVE  isExcused(i, db, o)'
  <2>1. isThere(i, db) => isThere(i, db)'
    BY <1>0, <1>2 DEF Stores, isThere
  <2>2. UNCHANGED deletions
    BY <1>2 DEF Stores
  <2>3. QED
    BY <2>1, <2>2 DEF isExcused, Frame
<1>3. ASSUME NEW j \in Ids, Removes(r, j) PROVE isExcused(i, db, o)'
  <2>1. CASE isThere(i, db) /\ i # j
    BY <1>0, <1>3, <2>1 DEF isExcused, isThere, Removes
  <2>2. CASE isThere(i, db) /\ i = j
    <3>1. <<i, db, r>> \in deletions' /\ step'[r] # "idle" /\ request' = request
             /\ overlap' = overlap
      BY <1>3, <2>2 DEF isThere, Removes, Frame
    <3>2. request[r].kind = "deletion" \/ {r, o} \in overlap
      BY <1>3, <2>2 DEF Removes, TInv, StepsOK, StepOK
    <3>3. QED
      BY <3>1, <3>2 DEF isExcused
  <2>3. CASE ~isThere(i, db)
    BY <2>3 DEF isExcused, Frame
  <2>4. QED
    BY <2>1, <2>2, <2>3
<1>4. QED
  BY <1>1, <1>2, <1>3 DEF DocEffect

LEMMA HandleStep ==
    ASSUME IInv, TInv', NEW r \in Requests, Handle(r)
    PROVE  IInv'
<1>1. TInv /\ OverlapOK /\ StoredOK /\ ValidOK /\ NewOK /\ RefsOK /\ DeleteOK
  BY DEF IInv, TInv
<1>2. Frame(r)
  BY <1>1, HandleFrame
<1>3. Progress(r)
  BY <1>1, HandleProgress
<1>4. TaskProgress(r)
  BY <1>1, HandleTasks
<1>5. DocEffect(r)
  BY <1>1, HandleEffect
<1>6. OverlapOK'
  BY <1>1, <1>2 DEF Frame, OverlapOK, isUnderWay
<1>a. \A q \in Requests : q # r /\ isUnderWay(q) => {q, r} \in overlap /\ {r, q} \in overlap
  BY <1>1, <1>2 DEF Frame, OverlapOK
<1>b. \A q \in Requests : step'[q] \notin {"idle", "done"} => step[q] \notin {"idle", "done"}
  BY <1>2, <1>3 DEF Frame, Progress
<1>7. StoredOK'
  <2> SUFFICES ASSUME NEW q \in Requests
               PROVE  /\ step'[q] = "saveAgain" => q \in stored'
                      /\ step'[q] = "new" /\ doc'[request[q].id] # Nil =>
                           \E o \in Requests : o # q /\ {q, o} \in overlap
                      /\ answer'[q] = "ok" /\ request[q].kind \in {"post", "put"} =>
                           q \in stored' \/ \E o \in Requests : o # q /\ {q, o} \in overlap
    BY <1>2 DEF StoredOK, id, Frame
  <2>1. CASE q = r
    <3>1. /\ step'[q] = "saveAgain" => q \in stored'
          /\ step'[q] = "new" => doc'[request[q].id] = Nil
      BY <1>3, <2>1, FieldNamesAre DEF Progress, id
    <3>2. answer'[q] = "ok" /\ request[q].kind \in {"post", "put"} =>
             q \in stored' \/ \E o \in Requests : o # q /\ {q, o} \in overlap
      BY <1>1, <1>2, <1>3, <2>1 DEF Progress, StoredOK, Frame
    <3>3. QED
      BY <3>1, <3>2
  <2>2. CASE q # r
    <3>1. /\ step'[q] = "saveAgain" => q \in stored'
          /\ answer'[q] = "ok" /\ request[q].kind \in {"post", "put"} =>
               q \in stored' \/ \E o \in Requests : o # q /\ {q, o} \in overlap
      BY <1>1, <1>2, <2>2 DEF StoredOK, Frame
    <3>2. step'[q] = "new" => {q, r} \in overlap
      BY <1>2, <1>a, <2>2 DEF Frame, isUnderWay
    <3>3. QED
      BY <2>2, <3>1, <3>2
  <2>3. QED
    BY <2>1, <2>2
<1>8. ValidOK'
  <2> SUFFICES ASSUME NEW i \in Ids, doc'[i] # Nil, ~doc'[i].valid
               PROVE  /\ doc'[i].by \in Requests
                      /\ step'[doc'[i].by] \in {"saveAgain", "done"}
                      /\ request'[doc'[i].by].kind = "put" /\ request'[doc'[i].by].id = i
                      /\ request'[doc'[i].by].bad = i
                      /\ answer'[doc'[i].by] \in {Nil, "error"}
    BY DEF ValidOK, id, isBad
  <2>1. CASE doc'[i] = doc[i]
    <3> PICK p : p = doc[i].by
      OBVIOUS
    <3>1. /\ p \in Requests /\ step[p] \in {"saveAgain", "done"} /\ answer[p] \in {Nil, "error"}
          /\ request[p].kind = "put" /\ request[p].id = i /\ request[p].bad = i
      BY <1>1, <2>1 DEF ValidOK, id, isBad
    <3>2. step'[p] \in {"saveAgain", "done"} /\ answer'[p] \in {Nil, "error"}
      BY <1>2, <1>3, <3>1 DEF Frame, Progress, id, isBad
    <3>3. QED
      BY <1>2, <2>1, <3>1, <3>2 DEF Frame
  <2>2. CASE doc'[i] # doc[i]
    <3>1. PICK db \in DbIds, rs \in SUBSET Reference : Stores(r, i, db, rs)
      BY <1>5, <2>2 DEF DocEffect, Stores, Removes
    <3>2. /\ doc'[i].by = r /\ step[r] = "overwrite" /\ step'[r] = "saveAgain"
          /\ request[r].bad = i /\ request[r].id = i
      BY <3>1 DEF Stores, id, isBad
    <3>3. request[r].kind = "put"
      BY <1>1, <3>2 DEF TInv, StepsOK, StepOK
    <3>4. answer'[r] = Nil
      BY <3>2 DEF TInv, StepsOK, StepOK
    <3>5. QED
      BY <1>2, <3>2, <3>3, <3>4 DEF Frame
  <2>3. QED
    BY <2>1, <2>2
<1>9. NewOK'
  <2>1. ASSUME NEW i \in Ids, NEW db \in DbIds, isNew(i, db), ~isNew(i, db)'
        PROVE  /\ db = <<r, "itself">> => step'[r] \in {"done", "saveAgain"}
               /\ \A f \in FieldNames : db = <<r, f>> => ~mayCreate(r, f, i)'
               /\ \/ db = <<r, "itself">>
                  \/ \E f \in FieldNames : db = <<r, f>>
    <3>1. CASE UNCHANGED <<doc, deletions>>
      BY <2>1, <3>1 DEF isNew, isThere
    <3>2. ASSUME NEW j \in Ids, NEW x \in DbIds, NEW rs \in SUBSET Reference, Stores(r, j, x, rs)
          PROVE  /\ i = j /\ db = x
                 /\ \/ db = <<r, "itself">> /\ step'[r] \in {"done", "saveAgain"}
                    \/ \E f \in FieldNames : db = <<r, f>> /\ ~mayCreate(r, f, i)'
      <4>1. UNCHANGED deletions /\ isThere(i, db)'
        BY <2>1, <3>2 DEF Stores, isNew
      <4>2. i = j /\ db = x
        BY <2>1, <3>2, <4>1 DEF Stores, isNew, isThere
      <4>3. ~(doc[j] # Nil /\ doc[j].db = x)
        BY <2>1, <4>2 DEF isNew, isThere
      <4>4. QED
        BY <3>2, <4>2, <4>3 DEF Stores
    <3>3. ASSUME NEW j \in Ids, Removes(r, j) PROVE FALSE
      <4>1. ~isThere(i, db)'
        BY <2>1, <3>3 DEF Removes, isNew, isThere
      <4>2. PICK q \in Requests : <<i, db, q>> \in deletions'
        BY <2>1, <4>1 DEF isNew
      <4>3. QED
        BY <2>1, <3>3, <4>2 DEF Removes, isNew
    <3>4. "itself" \notin FieldNames
      BY FieldNamesAre
    <3>5. CASE \E j \in Ids, x \in DbIds, rs \in SUBSET Reference : Stores(r, j, x, rs)
      BY <3>2, <3>4, <3>5
    <3>6. QED
      BY <1>5, <3>1, <3>3, <3>5 DEF DocEffect
  <2>2. ASSUME NEW q \in Requests, NEW i \in Ids,
               step'[q] \in {"idle", "exists", "new", "save", "overwrite"} \cup FieldNames
        PROVE  isNew(i, <<q, "itself">>)'
    <3>1. step[q] \in {"idle", "exists", "new", "save", "overwrite"} \cup FieldNames
      BY <1>2, <1>3, <2>2 DEF Frame, Progress
    <3>2. isNew(i, <<q, "itself">>) /\ <<q, "itself">> \in DbIds
      BY <1>1, <3>1 DEF NewOK, DbIds
    <3>3. q = r => step'[r] \notin {"done", "saveAgain"}
      BY <2>2, FieldNamesAre
    <3>4. \A f \in FieldNames : <<q, "itself">> # <<r, f>>
      BY FieldNamesAre
    <3>5. QED
      BY <2>1, <3>2, <3>3, <3>4
  <2>3. ASSUME NEW q \in Requests, NEW f \in FieldNames, NEW i \in Objects, mayCreate(q, f, i)'
        PROVE  isNew(i, <<q, f>>)'
    <3>1. mayCreate(q, f, i)
      BY <1>2, <1>4, <2>3 DEF Frame, TaskProgress, mayCreate
    <3>2. isNew(i, <<q, f>>) /\ <<q, f>> \in DbIds /\ i \in Ids
      BY <1>1, <3>1 DEF NewOK, DbIds, Ids
    <3>3. <<q, f>> # <<r, "itself">>
      BY FieldNamesAre
    <3>4. q = r => mayCreate(r, f, i)'
      BY <2>3
    <3>5. QED
      BY <2>1, <3>2, <3>3, <3>4
  <2>4. ASSUME NEW q \in Requests, NEW f \in FieldNames, NEW i \in Objects
        PROVE  <<f, i, "find">> \in tasks'[q] => <<f, i, "save">> \notin tasks'[q]
    BY <1>1, <1>2, <1>4 DEF NewOK, Frame, TaskProgress
  <2>5. QED
    BY <2>2, <2>3, <2>4 DEF NewOK
<1>10. RefsOK'
  <2>1. ASSUME NEW m \in Metas, doc'[m] # Nil, NEW f \in FieldNames, NEW i \in Objects,
               NEW db \in DbIds, <<f, i, db>> \in doc'[m].refs
        PROVE  isExcused(i, db, doc[m].by)'
    <3>0. m \in Ids /\ i \in Ids /\ i # m
      BY ConstantsAssumption DEF Ids, Objects
    <3>1. CASE doc'[m] = doc[m]
      <4> PICK o : o = doc[m].by
        OBVIOUS
      <4>1. isExcused(i, db, o)
        BY <1>1, <2>1, <3>1 DEF RefsOK
      <4>2. isThere(i, db) /\ step[r] = "delete" /\ id(r) = i => {r, o} \in overlap
        BY <1>1, <2>1, <3>1 DEF DeleteOK, isThere
      <4>3. isExcused(i, db, o)'
        BY <1>1, <1>2, <1>5, <4>1, <4>2, ExcusedStays
      <4>4. QED
        BY <3>1, <4>3 DEF isExcused
    <3>2. CASE doc'[m] # doc[m]
      <4>1. PICK x \in DbIds, rs \in SUBSET Reference : Stores(r, m, x, rs)
        BY <1>5, <2>1, <3>0, <3>2 DEF DocEffect, Stores, Removes
      <4>2. doc'[m].by = r /\ <<f, i, db>> \in refs[r] /\ step[r] \in {"save", "overwrite"}
        BY <2>1, <4>1 DEF Stores
      <4>3. isExcused(i, db, r)
        BY <1>1, <4>2 DEF RefsOK
      <4>4. isExcused(i, db, r)'
        BY <1>1, <1>2, <1>5, <4>2, <4>3, ExcusedStays
      <4>5. QED
        BY <4>2, <4>4 DEF isExcused
    <3>3. QED
      BY <3>1, <3>2
  <2>2. ASSUME NEW q \in Requests, step'[q] \notin {"idle", "done"}, NEW f \in FieldNames,
               NEW i \in Objects, NEW db \in DbIds, <<f, i, db>> \in refs'[q]
        PROVE  isExcused(i, db, q)'
    <3>1. CASE <<f, i, db>> \in refs[q]
      <4>1. isExcused(i, db, q)
        BY <1>1, <1>b, <2>2, <3>1 DEF RefsOK
      <4>2. step[r] = "delete" => {r, q} \in overlap
        <5>1. step[r] = "delete" => q # r
          BY <1>3, <1>b, <2>2, FieldNamesAre DEF Progress
        <5>2. QED
          BY <1>a, <1>b, <2>2, <5>1 DEF isUnderWay
      <4>3. QED
        BY <1>1, <1>2, <1>5, <4>1, <4>2, ExcusedStays
    <3>2. CASE <<f, i, db>> \notin refs[q]
      BY <1>2, <1>4, <2>2, <3>2 DEF Frame, TaskProgress, isExcused
    <3>3. QED
      BY <3>1, <3>2
  <2>3. QED
    BY <2>1, <2>2 DEF RefsOK
<1>11. DeleteOK'
  <2> SUFFICES ASSUME NEW q \in Requests, NEW m \in Metas, NEW f \in FieldNames, NEW i,
                      i = request[q].id,
                      step'[q] \in {"referenced", "delete"}, i \in Objects,
                      doc'[i] # Nil, doc'[m] # Nil,
                      step'[q] = "delete" \/ doc'[i].db # found'[q],
                      <<f, i, doc'[i].db>> \in doc'[m].refs
               PROVE  {q, doc'[m].by} \in overlap
    BY <1>2 DEF DeleteOK, Frame, id
  <2>0. i \in Ids /\ m \in Ids /\ i # m /\ i \notin Metas /\ doc'[i].db \in DbIds
    BY ConstantsAssumption DEF Ids, Objects, TInv, TypeOK, Document
  <2>1. CASE q = r
    <3>1. UNCHANGED doc /\ id(r) = i
      BY <1>3, <2>1 DEF Progress, id
    <3>2. CASE step'[r] = "referenced"
      BY <1>3, <2>1, <3>1, <3>2 DEF Progress
    <3>3. CASE step'[r] = "delete"
      <4>1. step[r] = "referenced" /\ ~isReferenced(i, found[r])
        BY <1>3, <2>0, <3>1, <3>3 DEF Progress
      <4>2. doc[i].db # found[r]
        BY <3>1, <4>1 DEF isReferenced
      <4>3. QED
        BY <1>1, <2>1, <3>1, <4>1, <4>2 DEF DeleteOK
    <3>4. QED
      BY <2>1, <3>2, <3>3
  <2>2. CASE q # r
    <3>1. step'[q] = step[q] /\ found'[q] = found[q] /\ id(q) = i /\ {q, r} \in overlap
      BY <1>2, <1>a, <2>2 DEF Frame, isUnderWay, id
    <3>2. CASE doc'[m] # doc[m]
      <4>1. PICK x \in DbIds, rs \in SUBSET Reference : Stores(r, m, x, rs)
        BY <1>5, <2>0, <3>2 DEF DocEffect, Stores, Removes
      <4>2. QED
        BY <3>1, <4>1 DEF Stores
    <3>3. CASE doc'[m] = doc[m] /\ doc[i] # Nil
      <4>1. doc'[i].db = doc[i].db
        BY <1>5, <2>0, <3>3 DEF DocEffect, Stores, Removes
      <4>2. QED
        BY <1>1, <3>1, <3>3, <4>1 DEF DeleteOK
    <3>4. CASE doc'[m] = doc[m] /\ doc[i] = Nil
      <4>1. PICK x \in DbIds, rs \in SUBSET Reference : Stores(r, i, x, rs)
        BY <1>5, <2>0, <3>4 DEF DocEffect, Stores, Removes
      <4>2. doc'[i].db = x /\ isNew(i, x)
        BY <3>4, <4>1 DEF Stores
      <4>3. isExcused(i, x, doc[m].by)
        BY <1>1, <3>4, <4>2 DEF RefsOK
      <4>4. QED
        BY <4>2, <4>3 DEF isExcused, isNew
    <3>5. QED
      BY <3>2, <3>3, <3>4
  <2>3. QED
    BY <2>1, <2>2
<1>12. QED
  BY <1>6, <1>7, <1>8, <1>9, <1>10, <1>11 DEF IInv, TInv

LEMMA ReceiveStep ==
    ASSUME IInv, TInv', NEW r \in Requests, NEW kind \in Kinds, NEW i \in Ids,
           NEW b \in Bodies \cup {Nil}, NEW bad \in Ids \cup {Nil}, Receive(r, kind, i, b, bad)
    PROVE  IInv'
<1>1. TInv /\ OverlapOK /\ StoredOK /\ ValidOK /\ NewOK /\ RefsOK /\ DeleteOK
  BY DEF IInv, TInv
<1>2. /\ step[r] = "idle" /\ step'[r] \in {"exists", "ensured", "deletion"}
      /\ \A q \in Requests : q # r => step'[q] = step[q] /\ request'[q] = request[q]
      /\ overlap' = overlap \cup {{r, o} : o \in {x \in Requests : isUnderWay(x)}}
      /\ UNCHANGED <<doc, found, tasks, refs, answer, deletions, stored>>
  BY <1>1 DEF Receive, goto, TInv, TypeOK, Kinds
<1>3. OverlapOK'
  <2>1. \A q \in Requests : q # r => isUnderWay(q)' = isUnderWay(q)
    BY <1>2 DEF isUnderWay
  <2>2. \A q \in Requests : isUnderWay(q) => {r, q} \in overlap' /\ {q, r} \in overlap'
    BY <1>2
  <2>3. overlap \subseteq overlap'
    BY <1>2
  <2>4. QED
    BY <1>1, <2>1, <2>2, <2>3 DEF OverlapOK
<1>4. StoredOK'
  <2>1. answer[r] = Nil /\ Nil # "ok"
    BY <1>1, <1>2, NilAssumption DEF TInv, StepsOK, StepOK, Answer
  <2>2. QED
    BY <1>1, <1>2, <2>1 DEF StoredOK, id
<1>5. ValidOK'
  BY <1>1, <1>2 DEF ValidOK, id, isBad
<1>6. NewOK'
  BY <1>1, <1>2, FieldNamesAre DEF NewOK, mayCreate, isNew, isThere
<1>7. \A j \in Objects, db \in DbIds, o \in Author : isExcused(j, db, o) => isExcused(j, db, o)'
  BY <1>2 DEF isExcused, isThere
<1>8. RefsOK'
  <2>1. \A m \in Metas : doc[m] # Nil => doc[m].by \in Author
    BY <1>1 DEF TInv, TypeOK, Ids, Document
  <2>2. \A q \in Requests : step'[q] \notin {"idle", "done"}
           /\ step[q] \in {"idle", "done"} => refs'[q] = {}
    BY <1>1, <1>2 DEF TInv, StepsOK, StepOK
  <2>3. QED
    BY <1>1, <1>2, <1>7, <2>1, <2>2 DEF RefsOK, Author
<1>9. DeleteOK'
  BY <1>1, <1>2 DEF DeleteOK, id
<1>10. QED
  BY <1>3, <1>4, <1>5, <1>6, <1>8, <1>9 DEF IInv, TInv

LEMMA IStep == IInv /\ [Next]_vars => IInv'
<1> SUFFICES ASSUME IInv, [Next]_vars PROVE IInv'
  OBVIOUS
<1>1. TInv'
  BY TypeStep DEF IInv, TInv
<1>2. ASSUME NEW r \in Requests, NEW kind \in Kinds, NEW i \in Ids, NEW b \in Bodies \cup {Nil},
             NEW bad \in Ids \cup {Nil}, Receive(r, kind, i, b, bad)
      PROVE  IInv'
  BY <1>1, <1>2, ReceiveStep
<1>3. ASSUME NEW r \in Requests, Handle(r) PROVE IInv'
  BY <1>1, <1>3, HandleStep
<1>4. CASE UNCHANGED vars
  <2>1. OverlapOK' /\ StoredOK'
    BY <1>4 DEF IInv, vars, history, OverlapOK, isUnderWay, StoredOK, id
  <2>3. ValidOK' /\ NewOK'
    BY <1>4 DEF IInv, vars, history, ValidOK, NewOK, mayCreate, isNew, isThere, id, isBad
  <2>2. RefsOK' /\ DeleteOK'
    BY <1>4 DEF IInv, vars, history, RefsOK, isExcused, isThere, DeleteOK, id
  <2>4. QED
    BY <1>1, <2>1, <2>2, <2>3 DEF IInv, TInv
<1>5. QED
  BY <1>2, <1>3, <1>4 DEF Next

\* What the other theorems follow from.
THEOREM Invariance == Spec => []IInv
<1>1. QED
  BY IInit, IStep, PTL DEF Spec

(***************************************************************************)
(* Correctness.                                                            *)
(***************************************************************************)

\* Every variable keeps its type.
THEOREM TypeCorrect == Spec => []TypeOK
<1>1. IInv => TypeOK
  BY DEF IInv
<1>2. QED
  BY <1>1, Invariance, PTL

LEMMA DanglesInv == IInv => DanglesByRace
<1> SUFFICES ASSUME IInv, NEW m \in Metas, doc[m] # Nil, NEW t \in doc[m].refs
             PROVE  isThere(t[2], t[3]) \/ \E q \in Requests :
                       /\ <<t[2], t[3], q>> \in deletions
                       /\ request[q].kind = "deletion" \/ {q, doc[m].by} \in overlap
  BY DEF DanglesByRace
<1>1. t \in Reference
  BY DEF IInv, TypeOK, Ids, Document
<1>2. PICK f \in FieldNames, i \in Objects, db \in DbIds : t = <<f, i, db>>
  BY <1>1 DEF Reference
<1>3. isExcused(i, db, doc[m].by)
  BY <1>2 DEF IInv, RefsOK
<1>4. QED
  BY <1>2, <1>3 DEF isExcused

\* A metadata refers to what is gone only after a deletion of a list, or after one that
\* was handled at the same time as the metadata was stored: for any number of requests,
\* isReferencedInMetadata lets no other deletion pass.
THEOREM NeverDanglesOtherwise == Spec => []DanglesByRace
<1>1. QED
  BY DanglesInv, Invariance, PTL

\* What its schema refuses is stored by a PUT that replaces a document, and only so.
THEOREM InvalidOnlyReplaced == Spec => []InvalidIsReplaced
<1>1. IInv => InvalidIsReplaced
  BY DEF IInv, ValidOK, InvalidIsReplaced, id
<1>2. QED
  BY <1>1, Invariance, PTL

\* A POST or a PUT that succeeds stored what it was given, whatever went before, unless
\* another request was handled at the same time.
THEOREM SuccessIsStored == Spec => []SuccessStored
<1>1. IInv => SuccessStored
  BY DEF IInv, StoredOK, SuccessStored
<1>2. QED
  BY <1>1, Invariance, PTL

(***************************************************************************)
(* What a request gets that no other was handled with.                     *)
(***************************************************************************)

isAlone(r) == \A q \in Requests : {r, q} \notin overlap

\* What the schema refuses is what is stored, or an object that the metadata names.
BadOK(r) ==
    request[r].bad # Nil =>
        \/ request[r].bad = id(r)
        \/ /\ id(r) \in Metas /\ request[r].bad \in Objects
           /\ \E f \in FieldNames : request[r].bad \in body(r)[f]

\* The object that its schema refuses is still to be looked up or created.
badIsAhead(r) ==
    \E f \in FieldNames :
        /\ request[r].bad \in body(r)[f]
        /\ \/ later(step[r], f)
           \/ <<f, request[r].bad, "find">> \in tasks[r]
           \/ <<f, request[r].bad, "save">> \in tasks[r]

Storing == FieldNames \cup {"new", "save", "overwrite"}

\* The database is as the request found it, but for what it has done itself.
AloneOK(r) ==
    LET s == seen[r]
        i == request[r].id
        b == request[r].bad
    IN  /\ step[r] \in Storing \cup {"exists", "ensured", "dbId", "referenced"} =>
              (s.there <=> doc[i] # Nil)
        /\ step[r] \in FieldNames \cup {"exists"} =>
              (s.badIsMissing <=> b # Nil /\ doc[b] = Nil)
        /\ step[r] \in Storing \cup {"saveAgain"} => (request[r].kind = "post" => ~s.there)
        /\ step[r] \in FieldNames => (found[r] = Nil <=> ~s.there)
        /\ step[r] \in {"new", "save"} => ~s.there
        /\ step[r] = "overwrite" => s.there
        /\ step[r] \in {"new", "save", "overwrite", "saveAgain"} => (s.badIsMissing => b = i)
        /\ step[r] = "saveAgain" => doc[i] # Nil /\ doc[i].db = found[r]
        /\ step[r] \in FieldNames =>
              \A f \in FieldNames, j \in Objects : <<f, j, "save">> \in tasks[r] => doc[j] = Nil
        /\ step[r] \in FieldNames /\ s.badIsMissing /\ b # i => badIsAhead(r)
        /\ step[r] \in {"ensured", "dbId", "referenced"} =>
              (s.used <=> doc[i] # Nil /\ i \in Objects /\ isReferenced(i, doc[i].db))
        /\ step[r] = "referenced" => doc[i] # Nil /\ found[r] = doc[i].db
        /\ step[r] = "delete" => s.there /\ ~s.used
        /\ answer[r] # Nil => answer[r] = expected(r)

Seen == [there : BOOLEAN, used : BOOLEAN, badIsMissing : BOOLEAN]

AloneInv ==
    \A r \in Requests : step[r] # "idle" =>
        seen[r] \in Seen /\ BadOK(r) /\ (isAlone(r) => AloneOK(r))

\* A field that is later than f and not empty is not passed over.
LEMMA FieldNext ==
    ASSUME NEW r \in Requests, NEW f \in FieldNames, NEW g \in FieldNames,
           later(f, g), body(r)[g] # {}
    PROVE  /\ fieldAfter(r, f) \in FieldNames
           /\ g = fieldAfter(r, f) \/ later(fieldAfter(r, f), g)
<1> DEFINE left == {k \in 1..4 : body(r)[Fields[k]] # {} /\ \E h \in 1 .. k - 1 : Fields[h] = f}
<1>1. PICK k \in 1..4 : Fields[k] = g /\ k \in left
  <2>1. PICK h, k \in 1..4 : Fields[h] = f /\ Fields[k] = g /\ h < k
    BY DEF later
  <2>2. h \in 1 .. k - 1
    BY <2>1
  <2>3. QED
    BY <2>1, <2>2
<1>2. \E n \in left : \A h \in left : n <= h
  <2>1. CASE 1 \in left
    BY <2>1
  <2>2. CASE 1 \notin left /\ 2 \in left
    BY <2>2
  <2>3. CASE 1 \notin left /\ 2 \notin left /\ 3 \in left
    BY <2>3
  <2>4. CASE 1 \notin left /\ 2 \notin left /\ 3 \notin left
    <3>1. left = {4}
      BY <1>1, <2>4
    <3>2. QED
      BY <3>1
  <2>5. QED
    BY <2>1, <2>2, <2>3, <2>4
<1>3. PICK n \in left : fieldAfter(r, f) = Fields[n] /\ \A h \in left : n <= h
  BY <1>1, <1>2 DEF fieldAfter
<1>4. n \in 1..4 /\ n <= k
  BY <1>1, <1>3
<1>5. n = k \/ n < k
  BY <1>1, <1>4
<1>6. QED
  BY <1>1, <1>3, <1>4, <1>5 DEF FieldNames, later

\* What a request asks for is settled when it comes.
LEMMA ExpectedStays ==
    ASSUME NEW r \in Requests, request'[r] = request[r], seen'[r] = seen[r]
    PROVE  expected(r)' = expected(r)
BY DEF expected

\* An answer that is the one expected.
LEMMA Replies ==
    ASSUME TInv, NEW r \in Requests, step'[r] = "done", UNCHANGED <<request, seen>>,
           answer'[r] # Nil => answer'[r] = expected(r)
    PROVE  AloneOK(r)'
<1>1. expected(r)' = expected(r)
  BY ExpectedStays
<1>2. QED
  BY <1>1, FieldNamesAre DEF AloneOK, Storing

\* What a handler leaves alone.
LEMMA HandleKeeps ==
    ASSUME NEW r \in Requests, Handle(r)
    PROVE  UNCHANGED <<request, seen, overlap>>
BY DEF Handle, Exists, New, Save, Overwrite, SaveAgain, FindObject, CreateObject, Ensured,
       DbId, Referenced, Delete, Deletion, history

\* The kind, the identifier and the body of a request whose step is known.
LEMMA RequestIs ==
    ASSUME TInv, AloneInv, NEW r \in Requests, step[r] # "idle"
    PROVE  /\ request[r] \in Request /\ request[r].id \in Ids /\ id(r) = request[r].id
           /\ seen[r] \in Seen
           /\ BadOK(r)
<1>1. request[r] \in Request
  BY DEF TInv, StepsOK, StepOK
<1>2. QED
  BY <1>1 DEF TInv, TypeOK, AloneInv, Request, id

LEMMA AloneExists ==
    ASSUME TInv, AloneInv, NEW r \in Requests, AloneOK(r), Exists(r)
    PROVE  AloneOK(r)'
<1> DEFINE there == doc[id(r)] # Nil
           next  == IF id(r) \in Metas THEN "producer" ELSE IF there THEN "overwrite" ELSE "new"
<1>1. /\ step[r] = "exists" /\ UNCHANGED <<doc, request, seen>>
      /\ request[r].kind \in {"post", "put"} /\ answer[r] = Nil
  BY FieldNamesAre DEF Exists, history, TInv, StepsOK, StepOK, Writing
<1>2. BadOK(r) /\ id(r) = request[r].id /\ id(r) \in Ids
  BY <1>1, RequestIs
<1>3. /\ seen[r].there <=> there
      /\ seen[r].badIsMissing <=> request[r].bad # Nil /\ doc[request[r].bad] = Nil
  BY <1>1, <1>2 DEF AloneOK
<1>4. CASE request[r].kind = "post" /\ there
  <2>1. step'[r] = "done" /\ answer'[r] = "exists"
    BY <1>1, <1>4, FieldNamesAre DEF Exists, startFields, reply, goto, TInv, TypeOK
  <2>2. expected(r) = "exists"
    BY <1>3, <1>4 DEF expected
  <2>3. QED
    BY <1>1, <2>1, <2>2, Replies
<1>5. CASE ~(request[r].kind = "post" /\ there)
  <2>1. /\ found' = [found EXCEPT ![r] = IF there THEN doc[id(r)].db ELSE Nil]
        /\ startFields(r, next) /\ answer' = answer
    BY <1>1, <1>5 DEF Exists
  <2>2. expected(r)' = expected(r)
    BY <1>1, ExpectedStays
  <2>3. CASE id(r) \in Metas
    <3>1. /\ step'[r] = "producer" /\ "producer" \in FieldNames
          /\ tasks'[r] = {<<"producer", j, "find">> : j \in body(r)["producer"]}
      BY <2>1, <2>3, FieldNamesAre DEF startFields, goto, TInv, TypeOK
    <3>2. found'[r] = Nil <=> ~there
      <4>1. there => doc[id(r)].db # Nil
        <5>1. there => doc[id(r)].db \in DbIds
          BY <1>2 DEF TInv, TypeOK, Document
        <5>2. QED
          BY <5>1, NilAssumption
      <4>2. QED
        BY <2>1, <4>1 DEF TInv, TypeOK
    <3>3. seen[r].badIsMissing /\ request[r].bad # id(r) => badIsAhead(r)'
      <4> SUFFICES ASSUME seen[r].badIsMissing, request[r].bad # id(r) PROVE badIsAhead(r)'
        OBVIOUS
      <4>1. PICK f \in FieldNames : request[r].bad \in body(r)[f]
        BY <1>2, <1>3 DEF BadOK
      <4>2. CASE f = "producer"
        BY <1>1, <3>1, <4>1, <4>2 DEF badIsAhead, body
      <4>3. CASE f # "producer"
        BY <1>1, <3>1, <4>1, <4>3, ProducerFirst DEF badIsAhead, body
      <4>4. QED
        BY <4>2, <4>3
    <3>4. \A f \in FieldNames, j \in Objects : <<f, j, "save">> \notin tasks'[r]
      BY <3>1
    <3>5. QED
      BY <1>1, <1>2, <1>3, <1>5, <2>1, <2>2, <3>1, <3>2, <3>3, <3>4, FieldNamesAre
         DEF AloneOK, Storing
  <2>4. CASE id(r) \notin Metas
    <3>1. step'[r] = IF there THEN "overwrite" ELSE "new"
      BY <2>1, <2>4 DEF startFields, goto, TInv, TypeOK
    <3>2. seen[r].badIsMissing => request[r].bad = request[r].id
      BY <1>2, <1>3, <2>4 DEF BadOK
    <3>3. QED
      BY <1>1, <1>2, <1>3, <1>5, <2>1, <2>2, <3>1, <3>2, FieldNamesAre DEF AloneOK, Storing
  <2>5. QED
    BY <2>3, <2>4
<1>6. QED
  BY <1>4, <1>5

LEMMA AloneNew ==
    ASSUME TInv, AloneInv, NEW r \in Requests, AloneOK(r), New(r)
    PROVE  AloneOK(r)'
<1>1. /\ step[r] = "new" /\ UNCHANGED <<doc, request, seen>>
      /\ request[r].kind \in {"post", "put"} /\ answer[r] = Nil
  BY FieldNamesAre DEF New, history, TInv, StepsOK, StepOK, Writing
<1>2. id(r) = request[r].id
  BY DEF id
<1>3. doc[id(r)] = Nil
  BY <1>1, <1>2 DEF AloneOK, Storing
<1>4. step' = [step EXCEPT ![r] = "save"] /\ answer' = answer
  BY <1>3 DEF New, goto
<1>5. expected(r)' = expected(r) /\ step'[r] = "save"
  BY <1>1, <1>4, ExpectedStays DEF TInv, TypeOK
<1>6. QED
  BY <1>1, <1>2, <1>4, <1>5, FieldNamesAre DEF AloneOK, Storing

\* What is expected of a POST or a PUT that goes on.
LEMMA ExpectedOfWriting ==
    ASSUME NEW r \in Requests, request[r].kind \in {"post", "put"},
           request[r].kind = "post" => ~seen[r].there
    PROVE  expected(r) = IF request[r].bad = request[r].id \/ seen[r].badIsMissing THEN "error"
                         ELSE "ok"
BY DEF expected

LEMMA AloneSave ==
    ASSUME TInv, AloneInv, NEW r \in Requests, AloneOK(r), Save(r)
    PROVE  AloneOK(r)'
<1>1. /\ step[r] = "save" /\ UNCHANGED <<request, seen>>
      /\ request[r].kind \in {"post", "put"}
  BY FieldNamesAre DEF Save, TInv, StepsOK, StepOK, Writing, history
<1>2. id(r) = request[r].id /\ (isBad(r, id(r)) <=> request[r].bad = request[r].id)
  BY DEF id, isBad
<1>3. /\ doc[id(r)] = Nil
      /\ seen[r].badIsMissing => request[r].bad = request[r].id
      /\ request[r].kind = "post" => ~seen[r].there
  BY <1>1, <1>2 DEF AloneOK, Storing
<1>4. step'[r] = "done" /\ answer'[r] = IF request[r].bad = request[r].id THEN "error" ELSE "ok"
  BY <1>1, <1>2, <1>3 DEF Save, reply, goto, TInv, TypeOK
<1>5. QED
  BY <1>1, <1>3, <1>4, ExpectedOfWriting, Replies

LEMMA AloneOverwrite ==
    ASSUME TInv, AloneInv, NEW r \in Requests, AloneOK(r), Overwrite(r)
    PROVE  AloneOK(r)'
<1> DEFINE i == request[r].id
           db == IF doc[i] = Nil THEN <<r, "itself">> ELSE doc[i].db
<1>1. /\ step[r] = "overwrite" /\ UNCHANGED <<request, seen>> /\ answer' = answer
      /\ request[r].kind \in {"post", "put"} /\ answer[r] = Nil
      /\ step' = [step EXCEPT ![r] = "saveAgain"] /\ found' = [found EXCEPT ![r] = db]
      /\ put(r, i, db, refs[r])
  BY FieldNamesAre DEF Overwrite, TInv, StepsOK, StepOK, Writing, goto, id
<1>2. i \in Ids
  BY <1>1, RequestIs
<1>3. db \in DbIds /\ refs[r] \in SUBSET Reference
  BY <1>2 DEF DbIds, TInv, TypeOK, Document
<1> HIDE DEF i, db
<1>4. doc'[i] # Nil /\ doc'[i].db = db
  BY <1>1, <1>2, <1>3, PutType DEF TInv
<1>5. step'[r] = "saveAgain" /\ found'[r] = db
  BY <1>1 DEF TInv, TypeOK
<1>6. expected(r)' = expected(r)
  BY <1>1, ExpectedStays
<1>7. /\ seen[r].badIsMissing => request[r].bad = request[r].id
      /\ request[r].kind = "post" => ~seen[r].there
  BY <1>1 DEF AloneOK, Storing
<1>8. QED
  BY <1>1, <1>4, <1>5, <1>6, <1>7, FieldNamesAre DEF AloneOK, Storing, i

LEMMA AloneSaveAgain ==
    ASSUME TInv, AloneInv, NEW r \in Requests, AloneOK(r), SaveAgain(r)
    PROVE  AloneOK(r)'
<1>1. /\ step[r] = "saveAgain" /\ UNCHANGED <<request, seen>>
      /\ request[r].kind \in {"post", "put"}
  BY FieldNamesAre DEF SaveAgain, TInv, StepsOK, StepOK, Writing, history
<1>2. id(r) = request[r].id /\ (isBad(r, id(r)) <=> request[r].bad = request[r].id)
  BY DEF id, isBad
<1>3. /\ doc[id(r)] # Nil /\ doc[id(r)].db = found[r]
      /\ seen[r].badIsMissing => request[r].bad = request[r].id
      /\ request[r].kind = "post" => ~seen[r].there
  BY <1>1, <1>2 DEF AloneOK
<1>4. step'[r] = "done" /\ answer'[r] = IF request[r].bad = request[r].id THEN "error" ELSE "ok"
  BY <1>1, <1>2, <1>3 DEF SaveAgain, reply, goto, TInv, TypeOK
<1>5. QED
  BY <1>1, <1>3, <1>4, ExpectedOfWriting, Replies

lookups(r, f) == {<<f, j, "find">> : j \in body(r)[f]}

\* The handler treats the other objects of the field, or the field after.
GoesOn(r, f, i, k) ==
    /\ step[r] = f
    /\ \/ step'[r] = f /\ tasks'[r] = tasks[r] \ {<<f, i, k>>}
       \/ /\ tasks[r] = {<<f, i, k>>} /\ step'[r] = fieldAfter(r, f)
          /\ fieldAfter(r, f) \in FieldNames => tasks'[r] = lookups(r, fieldAfter(r, f))

\* What resolved does of a task that is the last of its field, or is not.
LEMMA ResolvedNext ==
    ASSUME TInv, NEW r \in Requests, NEW f \in FieldNames, NEW i \in Objects,
           NEW k \in {"find", "save"}, NEW db \in DbIds, step[r] # "done",
           <<f, i, k>> \in tasks[r], resolved(r, <<f, i, k>>, db)
    PROVE  GoesOn(r, f, i, k)
<1> USE DEF GoesOn
<1>1. step[r] = f
  BY DEF TInv, TypeOK, StepsOK, StepOK, Steps
<1>2. QED
  BY <1>1 DEF TInv, TypeOK, resolved, startFields, goto, lookups

\* A request goes on when one of its objects is there.
LEMMA AloneResolved ==
    ASSUME TInv, AloneInv, NEW r \in Requests, AloneOK(r),
           NEW f \in FieldNames, NEW i \in Objects, NEW k \in {"find", "save"}, NEW db \in DbIds,
           <<f, i, k>> \in tasks[r], resolved(r, <<f, i, k>>, db),
           UNCHANGED <<request, seen, found, answer>>,
           doc'[i] # Nil, \A j \in Ids : j # i => doc'[j] = doc[j],
           request[r].bad = i => doc[i] # Nil, k = "save" \/ doc[i] # Nil
    PROVE  AloneOK(r)'
<1> DEFINE b == request[r].bad
<1>1. CASE step[r] = "done"
  <2>1. step'[r] = "done"
    BY <1>1 DEF resolved
  <2>2. answer'[r] # Nil => answer'[r] = expected(r)
    BY DEF AloneOK
  <2>3. QED
    BY <2>1, <2>2, Replies
<1>2. CASE step[r] # "done"
  <2>1. /\ step[r] = f
        /\ \/ step'[r] = f /\ tasks'[r] = tasks[r] \ {<<f, i, k>>}
           \/ /\ tasks[r] = {<<f, i, k>>} /\ step'[r] = fieldAfter(r, f)
              /\ fieldAfter(r, f) \in FieldNames =>
                    tasks'[r] = lookups(r, fieldAfter(r, f))
    <3>1. GoesOn(r, f, i, k)
      BY <1>2, ResolvedNext
    <3>2. QED
      BY <3>1 DEF GoesOn
  <2>2. /\ step[r] # "idle" /\ answer[r] = Nil
        /\ id(r) \in Metas /\ request[r].kind \in {"post", "put"}
        /\ \A g \in FieldNames, j \in Objects, s \in {"find", "save"} : <<g, j, s>> \in tasks[r]
              => g = f
    BY <1>2, <2>1, FieldNamesAre DEF TInv, StepsOK, StepOK, Writing
  <2>3. /\ request[r].id \in Ids /\ id(r) = request[r].id /\ request[r].bad \in Ids \cup {Nil}
        /\ BadOK(r) /\ request[r].id # i
    BY <2>2, RequestIs, ConstantsAssumption DEF Request, Objects
  <2>4. /\ seen[r].there <=> doc[request[r].id] # Nil
        /\ seen[r].badIsMissing <=> b # Nil /\ doc[b] = Nil
        /\ request[r].kind = "post" => ~seen[r].there
        /\ found[r] = Nil <=> ~seen[r].there
        /\ \A g \in FieldNames, j \in Objects : <<g, j, "save">> \in tasks[r] => doc[j] = Nil
        /\ seen[r].badIsMissing /\ b # request[r].id => badIsAhead(r)
    BY <2>1 DEF AloneOK, Storing
  <2>5. /\ seen[r].there <=> doc'[request[r].id] # Nil
        /\ seen[r].badIsMissing <=> b # Nil /\ doc'[b] = Nil
        /\ seen[r].badIsMissing => b # i
    BY <2>3, <2>4
  <2>6. expected(r)' = expected(r)
    BY ExpectedStays
  <2>7. ASSUME seen[r].badIsMissing, b # request[r].id
        PROVE  step'[r] \in FieldNames /\ badIsAhead(r)'
    <3>1. PICK g \in FieldNames :
             /\ b \in body(r)[g]
             /\ later(f, g) \/ <<g, b, "find">> \in tasks[r] \/ <<g, b, "save">> \in tasks[r]
      BY <2>1, <2>4, <2>7 DEF badIsAhead
    <3>2. CASE step'[r] = f /\ tasks'[r] = tasks[r] \ {<<f, i, k>>}
      BY <2>5, <2>7, <3>1, <3>2 DEF badIsAhead, body
    <3>3. CASE tasks[r] = {<<f, i, k>>} /\ step'[r] = fieldAfter(r, f)
      <4>1. later(f, g)
        BY <2>5, <2>7, <3>1, <3>3
      <4>2. /\ fieldAfter(r, f) \in FieldNames
            /\ g = fieldAfter(r, f) \/ later(fieldAfter(r, f), g)
        BY <3>1, <4>1, FieldNext
      <4> DEFINE n == fieldAfter(r, f)
      <4>3. /\ step'[r] = n /\ n \in FieldNames /\ (g = n \/ later(n, g))
            /\ tasks'[r] = lookups(r, n) \/ step'[r] = f
        BY <2>1, <3>3, <4>2
      <4> HIDE DEF n
      <4>4. n # f
        <5>1. later(f, n)
          BY <4>3, FieldAfter, FieldNamesAre DEF n
        <5>2. QED
          BY <5>1, LaterIrreflexive
      <4>5. QED
        BY <3>1, <4>3, <4>4 DEF badIsAhead, body, lookups
    <3>4. QED
      BY <2>1, <3>2, <3>3
  <2>8. CASE step'[r] = f /\ tasks'[r] = tasks[r] \ {<<f, i, k>>}
    <3>1. ASSUME NEW g \in FieldNames, NEW j \in Objects, <<g, j, "save">> \in tasks'[r]
          PROVE  doc'[j] = Nil
      <4>1. <<g, j, "save">> \in tasks[r] /\ g = f /\ doc[j] = Nil
        BY <2>2, <2>4, <2>8, <3>1
      <4>2. j # i
        BY <2>8, <3>1, <4>1
      <4>3. QED
        BY <4>1, <4>2 DEF Ids
    <3>2. QED
      BY <2>2, <2>4, <2>5, <2>6, <2>7, <2>8, <3>1, FieldNamesAre DEF AloneOK, Storing
  <2>9. CASE tasks[r] = {<<f, i, k>>} /\ step'[r] = fieldAfter(r, f) /\ step'[r] # f
    <3> DEFINE n == fieldAfter(r, f)
    <3>1. /\ step'[r] = n
          /\ n \in FieldNames => tasks'[r] = lookups(r, n)
      BY <2>1, <2>9
    <3>2. \/ n = "save" /\ found[r] = Nil
          \/ n = "overwrite" /\ found[r] # Nil
          \/ n \in FieldNames
      BY FieldAfter
    <3> HIDE DEF n
    <3>3. n \in FieldNames => \A g \in FieldNames, j \in Objects : <<g, j, "save">> \notin tasks'[r]
      BY <3>1 DEF lookups
    <3>4. QED
      BY <2>2, <2>4, <2>5, <2>6, <2>7, <3>1, <3>2, <3>3, FieldNamesAre DEF AloneOK, Storing
  <2>10. QED
    <3>1. CASE tasks[r] = {<<f, i, k>>} /\ step'[r] = fieldAfter(r, f) /\ step'[r] = f
      <4>1. fieldAfter(r, f) = f
        BY <3>1
      <4>2. later(f, f)
        BY <4>1, FieldAfter, FieldNamesAre
      <4>3. QED
        BY <4>2, LaterIrreflexive
    <3>2. QED
      BY <2>1, <2>8, <2>9, <3>1
<1>3. QED
  BY <1>1, <1>2

LEMMA AloneFind ==
    ASSUME TInv, AloneInv, NEW r \in Requests, AloneOK(r),
           NEW f \in FieldNames, NEW i \in Objects, FindObject(r, f, i)
    PROVE  AloneOK(r)'
<1>1. /\ <<f, i, "find">> \in tasks[r] /\ UNCHANGED <<doc, request, seen, found, answer>>
      /\ i \in Ids
  BY DEF FindObject, history, Ids
<1>2. CASE doc[i] # Nil
  <2>1. PICK db \in DbIds : resolved(r, <<f, i, "find">>, db)
    BY <1>1, <1>2 DEF FindObject, TInv, TypeOK, Document
  <2>2. QED
    BY <1>1, <1>2, <2>1, AloneResolved
<1>3. CASE doc[i] = Nil
  <2>1. /\ tasks' = [tasks EXCEPT ![r] = (@ \ {<<f, i, "find">>}) \cup {<<f, i, "save">>}]
        /\ step' = step
    BY <1>3 DEF FindObject
  <2>2. tasks'[r] = (tasks[r] \ {<<f, i, "find">>}) \cup {<<f, i, "save">>}
    BY <2>1 DEF TInv, TypeOK
  <2>3. expected(r)' = expected(r)
    BY <1>1, ExpectedStays
  <2>4. badIsAhead(r) => badIsAhead(r)'
    BY <1>1, <2>1, <2>2 DEF badIsAhead, body
  <2>5. \A g \in FieldNames, j \in Objects :
           <<g, j, "save">> \in tasks'[r] => <<g, j, "save">> \in tasks[r] \/ doc[j] = Nil
    BY <1>3, <2>2
  <2>6. UNCHANGED <<doc, request, seen, found, answer, step>>
    BY <1>1, <2>1
  <2>7. step[r] \in FieldNames \cup {"done"}
    BY <1>1 DEF TInv, StepsOK, StepOK
  <2>8. QED
    BY <2>3, <2>4, <2>5, <2>6, <2>7, FieldNamesAre DEF AloneOK, Storing
<1>4. QED
  BY <1>2, <1>3

LEMMA AloneCreate ==
    ASSUME TInv, AloneInv, NEW r \in Requests, AloneOK(r),
           NEW f \in FieldNames, NEW i \in Objects, CreateObject(r, f, i)
    PROVE  AloneOK(r)'
<1>1. /\ <<f, i, "save">> \in tasks[r] /\ UNCHANGED <<request, seen, found>>
      /\ i \in Ids
  BY DEF CreateObject, history, Ids
<1>2. CASE doc[i] # Nil \/ isBad(r, i)
  <2>1. /\ answer' = IF step[r] = "done" THEN answer ELSE [answer EXCEPT ![r] = "error"]
        /\ step'[r] = "done"
    BY <1>2 DEF CreateObject, goto, TInv, TypeOK
  <2>2. CASE step[r] = "done"
    BY <1>1, <2>1, <2>2, Replies DEF AloneOK
  <2>3. CASE step[r] # "done"
    <3>1. step[r] \in FieldNames /\ step[r] # "idle"
      BY <1>1, <2>3, FieldNamesAre DEF TInv, StepsOK, StepOK
    <3>2. request[r].kind \in {"post", "put"}
      BY <3>1 DEF TInv, StepsOK, StepOK, Writing
    <3>3. doc[i] = Nil /\ request[r].bad = i
      BY <1>1, <1>2, <3>1 DEF AloneOK, isBad
    <3>4. i # Nil
      BY ConstantsAssumption DEF Objects
    <3>5. seen[r].badIsMissing /\ (request[r].kind = "post" => ~seen[r].there)
      BY <3>1, <3>3, <3>4 DEF AloneOK, Storing
    <3>6. answer'[r] = "error"
      BY <2>1, <2>3 DEF TInv, TypeOK
    <3>7. QED
      BY <1>1, <2>1, <3>2, <3>5, <3>6, ExpectedOfWriting, Replies
  <2>4. QED
    BY <2>2, <2>3
<1>3. CASE doc[i] = Nil /\ ~isBad(r, i)
  <2> DEFINE d == [db |-> <<r, f>>, by |-> r, valid |-> TRUE, refs |-> {}]
  <2>1. /\ doc' = [doc EXCEPT ![i] = d] /\ answer' = answer
        /\ resolved(r, <<f, i, "save">>, <<r, f>>)
    BY <1>3 DEF CreateObject
  <2>2. d \in Document /\ <<r, f>> \in DbIds
    BY DEF Document, DbIds, Author
  <2> HIDE DEF d
  <2>3. doc'[i] # Nil /\ \A j \in Ids : j # i => doc'[j] = doc[j]
    BY <1>1, <2>1, <2>2, NilAssumption DEF TInv, TypeOK
  <2>4. request[r].bad # i
    BY <1>3 DEF isBad
  <2> DEFINE db == <<r, f>>
  <2>5. db \in DbIds /\ resolved(r, <<f, i, "save">>, db)
    BY <2>1, <2>2
  <2> HIDE DEF db
  <2>6. QED
    BY <1>1, <2>1, <2>3, <2>4, <2>5, AloneResolved
<1>4. QED
  BY <1>2, <1>3

\* A deletion, step by step.
LEMMA AloneDeleting ==
    ASSUME TInv, AloneInv, NEW r \in Requests, AloneOK(r),
           Ensured(r) \/ DbId(r) \/ Referenced(r) \/ Delete(r) \/ Deletion(r)
    PROVE  AloneOK(r)'
<1> USE DEF id
<1>1. /\ UNCHANGED <<request, seen>>
      /\ step[r] \in {"ensured", "dbId", "referenced", "delete", "deletion"}
      /\ request[r].kind = IF step[r] = "deletion" THEN "deletion" ELSE "delete"
      /\ step[r] \in {"dbId", "referenced"} => request[r].id \in Objects
      /\ answer[r] = Nil
  BY DEF Ensured, DbId, Referenced, Delete, Deletion, TInv, StepsOK, StepOK, history
<1>2. expected(r)' = expected(r)
  BY <1>1, ExpectedStays
<1>3. expected(r) = IF step[r] = "deletion" THEN "ok" ELSE IF ~seen[r].there THEN "notFound"
                    ELSE IF seen[r].used THEN "used" ELSE "ok"
  BY <1>1 DEF expected
<1>4. request[r].id \in Ids /\ (request[r].id \in Metas => request[r].id \notin Objects)
  BY <1>1, RequestIs, ConstantsAssumption DEF Objects
<1>5. CASE Ensured(r)
  <2>1. step[r] = "ensured" /\ doc' = doc
    BY <1>5 DEF Ensured
  <2>2. /\ seen[r].there <=> doc[request[r].id] # Nil
        /\ seen[r].used <=> /\ doc[request[r].id] # Nil /\ request[r].id \in Objects
                            /\ isReferenced(request[r].id, doc[request[r].id].db)
    BY <2>1 DEF AloneOK
  <2>3. CASE doc[request[r].id] = Nil
    <3>1. step'[r] = "done" /\ answer'[r] = "notFound"
      BY <1>5, <2>3 DEF Ensured, reply, goto, TInv, TypeOK
    <3>2. QED
      BY <1>1, <1>3, <2>1, <2>2, <2>3, <3>1, Replies
  <2>4. CASE doc[request[r].id] # Nil
    <3>1. /\ step'[r] = IF request[r].id \in Metas THEN "delete" ELSE "dbId"
          /\ answer' = answer
      BY <1>5, <2>4 DEF Ensured, goto, TInv, TypeOK
    <3>2. QED
      BY <1>1, <1>2, <1>4, <2>1, <2>2, <2>4, <3>1, FieldNamesAre
         DEF AloneOK, Storing, isReferenced
  <2>5. QED
    BY <2>3, <2>4
<1>6. CASE DbId(r)
  <2>1. step[r] = "dbId" /\ doc' = doc
    BY <1>6 DEF DbId
  <2>2. /\ seen[r].there <=> doc[request[r].id] # Nil
        /\ seen[r].used <=> /\ doc[request[r].id] # Nil /\ request[r].id \in Objects
                            /\ isReferenced(request[r].id, doc[request[r].id].db)
    BY <2>1 DEF AloneOK
  <2>3. CASE doc[request[r].id] = Nil
    <3>1. step'[r] = "done" /\ answer'[r] = "notFound"
      BY <1>6, <2>3 DEF DbId, reply, goto, TInv, TypeOK
    <3>2. QED
      BY <1>1, <1>3, <2>1, <2>2, <2>3, <3>1, Replies
  <2>4. CASE doc[request[r].id] # Nil
    <3>1. /\ step'[r] = "referenced" /\ answer' = answer
          /\ found'[r] = doc[request[r].id].db
      BY <1>6, <2>4 DEF DbId, goto, TInv, TypeOK
    <3>2. QED
      BY <1>1, <1>2, <1>4, <2>1, <2>2, <2>4, <3>1, FieldNamesAre
         DEF AloneOK, Storing, isReferenced
  <2>5. QED
    BY <2>3, <2>4
<1>7. CASE Referenced(r)
  <2>1. step[r] = "referenced" /\ doc' = doc
    BY <1>7 DEF Referenced
  <2>2. /\ seen[r].there /\ found[r] = doc[request[r].id].db
        /\ seen[r].used <=> isReferenced(request[r].id, found[r])
    BY <1>1, <2>1 DEF AloneOK
  <2>3. CASE isReferenced(request[r].id, found[r])
    <3>1. step'[r] = "done" /\ answer'[r] = "used"
      BY <1>7, <2>3 DEF Referenced, reply, goto, TInv, TypeOK
    <3>2. QED
      BY <1>1, <1>3, <2>1, <2>2, <2>3, <3>1, Replies
  <2>4. CASE ~isReferenced(request[r].id, found[r])
    <3>1. step'[r] = "delete" /\ answer' = answer
      BY <1>7, <2>4 DEF Referenced, goto, TInv, TypeOK
    <3>2. QED
      BY <1>1, <1>2, <2>1, <2>2, <2>4, <3>1, FieldNamesAre DEF AloneOK, Storing
  <2>5. QED
    BY <2>3, <2>4
<1>8. CASE Delete(r) \/ Deletion(r)
  <2>1. /\ step[r] \in {"delete", "deletion"}
        /\ step'[r] = "done" /\ answer'[r] = "ok"
    BY <1>8 DEF Delete, Deletion, reply, goto, TInv, TypeOK
  <2>2. step[r] = "delete" => seen[r].there /\ ~seen[r].used
    BY DEF AloneOK
  <2>3. QED
    BY <1>1, <1>3, <2>1, <2>2, Replies
<1>9. QED
  BY <1>5, <1>6, <1>7, <1>8

LEMMA AloneHandle ==
    ASSUME TInv, AloneInv, NEW r \in Requests, AloneOK(r), Handle(r)
    PROVE  AloneOK(r)'
BY AloneExists, AloneNew, AloneSave, AloneOverwrite, AloneSaveAgain, AloneFind, AloneCreate,
   AloneDeleting DEF Handle

LEMMA AloneInit == Init => AloneInv
BY DEF Init, AloneInv

LEMMA AloneReceive ==
    ASSUME TInv, TInv', NEW r \in Requests, NEW kind \in Kinds, NEW i \in Ids,
           NEW b \in Bodies \cup {Nil}, NEW bad \in Ids \cup {Nil}, Receive(r, kind, i, b, bad)
    PROVE  seen'[r] \in Seen /\ BadOK(r)' /\ AloneOK(r)'
<1> DEFINE q == [kind |-> kind, id |-> i, body |-> b, bad |-> bad]
           s == [there |-> doc[i] # Nil,
                 used  |-> doc[i] # Nil /\ i \in Objects /\ isReferenced(i, doc[i].db),
                 badIsMissing |-> bad # Nil /\ doc[bad] = Nil]
<1>1. /\ request'[r] = q /\ seen'[r] = s /\ doc' = doc /\ answer' = answer
      /\ answer[r] = Nil /\ step[r] = "idle"
      /\ b \in IF i \in Metas /\ kind \in {"post", "put"} THEN Bodies ELSE {Nil}
      /\ bad = Nil \/ (kind \in {"post", "put"} /\ (bad = i \/ (b # Nil /\ bad \in named(b))))
      /\ step'[r] \in {"exists", "ensured", "deletion"}
  BY DEF Receive, goto, TInv, TypeOK, StepsOK, StepOK, Kinds
<1>2. q.kind = kind /\ q.id = i /\ q.body = b /\ q.bad = bad
  OBVIOUS
<1>3. /\ s.there <=> doc[i] # Nil
      /\ s.used <=> doc[i] # Nil /\ i \in Objects /\ isReferenced(i, doc[i].db)
      /\ s.badIsMissing <=> bad # Nil /\ doc[bad] = Nil
  OBVIOUS
<1> HIDE DEF q, s
<1>4. seen'[r] \in Seen
  BY <1>1 DEF s, Seen
<1>5. BadOK(r)'
  <2>1. bad \in named(b) /\ b # Nil => /\ i \in Metas /\ bad \in Objects
                                       /\ \E f \in FieldNames : bad \in b[f]
    <3> SUFFICES ASSUME bad \in named(b), b # Nil
                 PROVE  /\ i \in Metas /\ bad \in Objects
                        /\ \E f \in FieldNames : bad \in b[f]
      OBVIOUS
    <3>1. i \in Metas /\ b \in Body
      BY <1>1, ConstantsAssumption
    <3>2. PICK f \in FieldNames : bad \in b[f]
      BY DEF named
    <3>3. QED
      BY <3>1, <3>2, FieldNamesAre DEF Body, Objects
  <2>2. QED
    BY <1>1, <1>2, <2>1 DEF BadOK, id, body
<1>6. AloneOK(r)'
  BY <1>1, <1>2, <1>3, FieldNamesAre DEF AloneOK, Storing, isReferenced
<1>7. QED
  BY <1>4, <1>5, <1>6

LEMMA AloneStep == IInv /\ IInv' /\ AloneInv /\ [Next]_vars => AloneInv'
<1> SUFFICES ASSUME IInv, IInv', AloneInv, [Next]_vars PROVE AloneInv'
  OBVIOUS
<1>1. TInv /\ TInv' /\ OverlapOK /\ NewOK
  BY DEF IInv, TInv
<1>2. ASSUME NEW p \in Requests, NEW kind \in Kinds, NEW i \in Ids, NEW b \in Bodies \cup {Nil},
             NEW bad \in Ids \cup {Nil}, Receive(p, kind, i, b, bad)
      PROVE  AloneInv'
  <2>1. /\ seen'[p] \in Seen /\ BadOK(p)' /\ AloneOK(p)'
    BY <1>1, <1>2, AloneReceive
  <2>2. ASSUME NEW r \in Requests, r # p, step'[r] # "idle"
        PROVE  seen'[r] \in Seen /\ BadOK(r)' /\ (isAlone(r)' => AloneOK(r)')
    <3>1. /\ step'[r] = step[r] /\ seen'[r] = seen[r] /\ request'[r] = request[r]
          /\ answer'[r] = answer[r]
          /\ overlap' = overlap \cup {{p, o} : o \in {x \in Requests : isUnderWay(x)}}
      BY <1>2, <2>2 DEF Receive, goto
    <3>2. seen[r] \in Seen /\ BadOK(r) /\ (isAlone(r) => AloneOK(r))
      BY <2>2, <3>1 DEF AloneInv
    <3>3. BadOK(r)'
      BY <3>1, <3>2 DEF BadOK, id, body
    <3>4. ASSUME isAlone(r)' PROVE AloneOK(r)'
      <4>1. ~isUnderWay(r) /\ isAlone(r)
        BY <3>1, <3>4 DEF isAlone
      <4>2. step[r] = "done"
        BY <2>2, <3>1, <4>1 DEF isUnderWay
      <4>3. expected(r)' = expected(r)
        BY <3>1, ExpectedStays
      <4>4. QED
        BY <3>1, <3>2, <4>1, <4>2, <4>3, FieldNamesAre DEF AloneOK, Storing
    <3>5. QED
      BY <3>1, <3>2, <3>3, <3>4
  <2>3. QED
    BY <2>1, <2>2 DEF AloneInv
<1>3. ASSUME NEW p \in Requests, Handle(p) PROVE AloneInv'
  <2>1. UNCHANGED <<request, seen, overlap>>
    BY <1>3, HandleKeeps
  <2>2. Frame(p)
    BY <1>1, <1>3, HandleFrame
  <2>3. ASSUME NEW r \in Requests, step'[r] # "idle"
        PROVE  seen'[r] \in Seen /\ BadOK(r)' /\ (isAlone(r)' => AloneOK(r)')
    <3>1. step[r] # "idle"
      BY <2>2, <2>3 DEF Frame
    <3>2. seen[r] \in Seen /\ BadOK(r) /\ (isAlone(r) => AloneOK(r))
      BY <3>1 DEF AloneInv
    <3>3. BadOK(r)'
      BY <2>1, <3>2 DEF BadOK, id, body
    <3>4. ASSUME isAlone(r)' PROVE AloneOK(r)'
      <4>1. isAlone(r) /\ AloneOK(r)
        BY <2>1, <3>2, <3>4 DEF isAlone
      <4>2. CASE r = p
        BY <1>1, <1>3, <4>1, <4>2, AloneHandle
      <4>3. CASE r # p
        <5>1. ~isUnderWay(r)
          BY <1>1, <2>2, <4>1, <4>3 DEF OverlapOK, Frame, isAlone
        <5>2. step'[r] = "done" /\ answer'[r] = answer[r] /\ step[r] = "done"
          BY <2>2, <3>1, <4>3, <5>1 DEF Frame, isUnderWay
        <5>3. answer'[r] # Nil => answer'[r] = expected(r)
          BY <4>1, <5>2 DEF AloneOK
        <5>4. QED
          BY <1>1, <2>1, <5>2, <5>3, Replies
      <4>4. QED
        BY <4>2, <4>3
    <3>5. QED
      BY <2>1, <3>2, <3>3, <3>4
  <2>4. QED
    BY <2>3 DEF AloneInv
<1>4. CASE UNCHANGED vars
  <2>1. UNCHANGED <<doc, request, step, found, tasks, answer, overlap, seen>>
    BY <1>4 DEF vars, history
  <2>2. ASSUME NEW r \in Requests
        PROVE  /\ BadOK(r) => BadOK(r)'
               /\ isAlone(r)' => isAlone(r)
               /\ AloneOK(r) => AloneOK(r)'
    <3>1. expected(r)' = expected(r)
      BY <2>1, ExpectedStays
    <3>2. badIsAhead(r) => badIsAhead(r)'
      BY <2>1 DEF badIsAhead, body
    <3>3. BadOK(r) => BadOK(r)'
      BY <2>1 DEF BadOK, id, body
    <3>4. AloneOK(r) => AloneOK(r)'
      BY <2>1, <3>1, <3>2 DEF AloneOK, isReferenced
    <3>5. QED
      BY <2>1, <3>3, <3>4 DEF isAlone
  <2>3. QED
    BY <2>1, <2>2 DEF AloneInv
<1>5. QED
  BY <1>2, <1>3, <1>4 DEF Next

\* A request that no other was handled with gets the answer that what it found calls
\* for: for any number of objects, in any fields, the lookups and creations that a
\* metadata starts at the same time never get in the way of each other.
THEOREM AloneGetsItsAnswer == Spec => []AloneAsExpected
<1>1. AloneInv /\ IInv => AloneAsExpected
  <2> SUFFICES ASSUME AloneInv, IInv, NEW r \in Requests, answer[r] # Nil,
                      \A q \in Requests : {r, q} \notin overlap
               PROVE  answer[r] = expected(r)
    BY DEF AloneAsExpected
  <2>1. step[r] # "idle"
    BY DEF IInv, StepsOK, StepOK
  <2>2. QED
    BY <2>1 DEF AloneInv, isAlone, AloneOK
<1>2. Spec => []AloneInv
  BY Invariance, AloneInit, AloneStep, PTL DEF Spec
<1>3. QED
  BY <1>1, <1>2, Invariance, PTL
=============================================================================
