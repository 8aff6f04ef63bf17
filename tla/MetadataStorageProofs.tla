----------------------- MODULE MetadataStorageProofs -----------------------
(***************************************************************************)
(* Proofs about MetadataStorage, for any sets of edits and files and any   *)
(* faults, edits that overlap included.                                    *)
(***************************************************************************)
EXTENDS MetadataStorage, TLAPS

(***************************************************************************)
(* Type correctness.                                                       *)
(***************************************************************************)

\* The status that is computed is one of the schema.
LEMMA StatusType ==
    ASSUME NEW d \in Doc
    PROVE  reckonMetadataStatus(d) \in {"incomplete", "sent", "published", "refused"}
BY DEF Doc, reckonMetadataStatus

\* A save keeps the type of the document, and its files.
LEMMA SavedType ==
    ASSUME NEW d \in Doc, NEW c \in Doc, NEW n \in Doc
    PROVE  Saved(d, c, n) \in Doc /\ Saved(d, c, n).files = d.files
<1> DEFINE m == [n EXCEPT !.status = reckonMetadataStatus(n)]
           version   == IF m # c THEN d.v + 1 ELSE d.v
           storage   == IF m.storage # c.storage THEN m.storage ELSE d.storage
           error     == IF m.error # c.error THEN m.error ELSE d.error
           published == IF m.published # c.published THEN m.published ELSE d.published
           status    == IF m.status # c.status THEN m.status ELSE d.status
<1>1. m \in Doc
  BY StatusType DEF Doc
<1>2. Saved(d, c, n) = [d EXCEPT !.v = version, !.storage = storage, !.error = error,
                                 !.published = published, !.status = status]
  BY DEF Saved, Doc
<1> HIDE DEF m
<1>3. version \in Nat /\ storage \in {"pending", "online"} /\ error \in BOOLEAN
  BY <1>1 DEF Doc
<1>4. published \in {"never", "no", "yes"}
  BY <1>1 DEF Doc
<1>5. status \in {"incomplete", "sent", "published", "refused"}
  BY <1>1 DEF Doc
<1> HIDE DEF version, storage, error, published, status
<1>6. QED
  BY <1>2, <1>3, <1>4, <1>5 DEF Doc

\* A handler that runs has read what it goes on with.
HeldOK ==
    /\ \A e \in Edits :
          /\ pc[e] # "idle" => copy[e] \in Doc
          /\ pc[e] \notin {"idle", "form", "writing"} => doc \in Doc
          /\ pc[e] \in {"form", "writing"} =>
                view[e] \in [Files -> Stored \cup {Nil}] \/ copy[e].files \subseteq added[e]
          /\ pc[e] = "writing" => todo[e] \subseteq copy[e].files
    /\ \A f \in Files :
          /\ phase[f] # "new" => doc \in Doc
          /\ pc[f] # "idle" => phase[f] = "committed"
          /\ pc[f] \notin {"idle", "reading", "binding"} => copy[f] \in Doc
    /\ \A t \in Tasks :
          pc[t] \in {"counting", "storing", "clearing"} => list[t] \in Doc
    /\ owed > 0 => doc \in Doc

TInv == TypeOK /\ HeldOK

LEMMA TypeInit == Init => TInv
BY ConstantsAssumption
   DEF Init, TInv, TypeOK, HeldOK, PC, Promise!Init, Promise!Phases, Tasks

\* A save keeps the types, of a document that was set as in n.
LEMMA SaveType ==
    ASSUME TypeOK, NEW t \in Tasks, NEW n \in Doc, copy[t] \in Doc, doc \in Doc, save(t, n)
    PROVE  /\ doc' \in Doc
           /\ copy' \in [Tasks -> Doc \cup {Nil}]
           /\ copy'[t] \in Doc /\ copy'[t].files = copy[t].files
           /\ \A u \in Tasks : u # t => copy'[u] = copy[u]
<1>1. Saved(doc, copy[t], n) \in Doc
  BY SavedType
<1>2. Saved(copy[t], copy[t], n) \in Doc /\ Saved(copy[t], copy[t], n).files = copy[t].files
  BY SavedType
<1>3. copy' = [copy EXCEPT ![t] = Saved(copy[t], copy[t], n)]
  BY DEF save
<1>4. QED
  BY <1>1, <1>2, <1>3 DEF save, TypeOK

\* What is committed stays so.
LEMMA PhaseStep ==
    ASSUME TypeOK, NEW f \in Files, Promise!Stage(f) \/ Promise!Commit(f) \/ Promise!Expire(f)
    PROVE  /\ phase' \in [Files -> Promise!Phases]
           /\ \A g \in Files : phase[g] = "committed" => phase'[g] = "committed"
           /\ \A g \in Files : g # f => phase'[g] = phase[g]
BY DEF TypeOK, Promise!Stage, Promise!Commit, Promise!Expire, Promise!Move, Promise!Phases

LEMMA TypeStep == TInv /\ [Next]_vars => TInv'
<1> SUFFICES ASSUME TInv, [Next]_vars PROVE TInv'
  OBVIOUS
<1> USE ConstantsAssumption DEF form, handler, portal, goto, PC
<1>1. ASSUME NEW e \in Edits, NEW new \in SUBSET Files, Fill(e, new) PROVE TInv'
  <2>1. Created(new) \in Doc /\ Created(new).files = new
    BY DEF Created, Doc
  <2>2. TypeOK'
    BY <1>1, <2>1 DEF TInv, TypeOK, Fill, Tasks
  <2>3. HeldOK'
    BY <1>1, <2>1 DEF TInv, TypeOK, HeldOK, Fill, Tasks
  <2>4. QED
    BY <2>2, <2>3 DEF TInv
<1>2. ASSUME NEW e \in Edits, NEW kept \in SUBSET Files, NEW new \in SUBSET Files,
             Open(e, kept, new)
      PROVE  TInv'
  <2>1. doc \in Doc /\ [doc EXCEPT !.files = kept \cup new] \in Doc
    BY <1>2 DEF TInv, TypeOK, Open, Doc
  <2>2. TypeOK'
    BY <1>2, <2>1 DEF TInv, TypeOK, Open, Tasks
  <2>3. HeldOK'
    BY <1>2, <2>1 DEF TInv, TypeOK, HeldOK, Open, Tasks
  <2>4. QED
    BY <2>2, <2>3 DEF TInv
<1>3. ASSUME NEW e \in Edits, Submit(e) PROVE TInv'
  <2>1. copy[e] \in Doc /\ copy[e].files \in SUBSET Files
    BY <1>3 DEF TInv, HeldOK, Submit, Doc
  <2>2. TypeOK'
    BY <1>3, <2>1 DEF TInv, TypeOK, Submit, Tasks
  <2>3. HeldOK'
    BY <1>3, <2>1 DEF TInv, TypeOK, HeldOK, Submit, Tasks
  <2>4. QED
    BY <2>2, <2>3 DEF TInv
<1>4. ASSUME NEW e \in Edits, NEW f \in Files, WriteMedia(e, f) PROVE TInv'
  <2>1. f \in added[e] \/ view[e][f] \in Stored \cup {Nil}
    BY <1>4 DEF TInv, HeldOK, WriteMedia
  <2>2. TypeOK'
    BY <1>4, <2>1 DEF TInv, TypeOK, WriteMedia, Tasks, Stored
  <2>3. HeldOK'
    BY <1>4, <2>1 DEF TInv, TypeOK, HeldOK, WriteMedia, Tasks
  <2>4. QED
    BY <2>2, <2>3 DEF TInv
<1>5. ASSUME NEW e \in Edits, InsertMetadata(e) PROVE TInv'
  <2>1. TypeOK'
    BY <1>5 DEF TInv, TypeOK, InsertMetadata, Tasks
  <2>2. HeldOK'
    BY <1>5 DEF TInv, TypeOK, HeldOK, InsertMetadata, Tasks
  <2>3. QED
    BY <2>1, <2>2 DEF TInv
<1>6. ASSUME NEW e \in Edits, OverwriteMetadata(e) PROVE TInv'
  <2>1. PICK after \in Doc : /\ doc' = after
                           /\ copy' = [copy EXCEPT ![e] = after]
    <3>1. doc \in Doc /\ copy[e] \in Doc
      BY <1>6 DEF TInv, TypeOK, HeldOK, OverwriteMetadata
    <3>2. QED
      BY <1>6, <3>1 DEF OverwriteMetadata, Doc
  <2>2. TypeOK'
    BY <1>6, <2>1 DEF TInv, TypeOK, OverwriteMetadata, Tasks
  <2>3. HeldOK'
    BY <1>6, <2>1 DEF TInv, TypeOK, HeldOK, OverwriteMetadata, Tasks
  <2>4. QED
    BY <2>2, <2>3 DEF TInv
<1>7. ASSUME NEW e \in Edits, SaveOverwritten(e) PROVE TInv'
  <2>1. /\ doc' \in Doc
        /\ copy' \in [Tasks -> Doc \cup {Nil}] /\ copy'[e] \in Doc
        /\ \A u \in Tasks : u # e => copy'[u] = copy[u]
    BY <1>7, SaveType DEF TInv, HeldOK, SaveOverwritten, Tasks
  <2>2. TypeOK'
    BY <1>7, <2>1 DEF TInv, TypeOK, SaveOverwritten, Tasks
  <2>3. HeldOK'
    BY <1>7, <2>1 DEF TInv, TypeOK, HeldOK, SaveOverwritten, Tasks
  <2>4. QED
    BY <2>2, <2>3 DEF TInv
<1>8. ASSUME NEW e \in Edits, NEW f \in Files, Upload(e, f) PROVE TInv'
  <2>1. /\ phase' \in [Files -> Promise!Phases]
        /\ \A g \in Files : phase[g] = "committed" => phase'[g] = "committed"
        /\ \A g \in Files : g # f => phase'[g] = phase[g]
    BY <1>8, PhaseStep DEF TInv, Upload
  <2>2. TypeOK'
    BY <1>8, <2>1 DEF TInv, TypeOK, Upload, Tasks, Answered
  <2>3. HeldOK'
    BY <1>8, <2>1 DEF TInv, TypeOK, HeldOK, Upload, Tasks, Answered
  <2>4. QED
    BY <2>2, <2>3 DEF TInv
<1>9. ASSUME NEW f \in Files, Expire(f) PROVE TInv'
  <2>1. /\ phase' \in [Files -> Promise!Phases]
        /\ \A g \in Files : phase[g] = "committed" => phase'[g] = "committed"
        /\ \A g \in Files : g # f => phase'[g] = phase[g]
    BY <1>9, PhaseStep DEF TInv, Expire
  <2>2. TypeOK'
    BY <1>9, <2>1 DEF TInv, TypeOK, Expire, Tasks, Promise!Expire, Promise!Move
  <2>3. HeldOK'
    BY <1>9, <2>1 DEF TInv, TypeOK, HeldOK, Expire, Tasks, Promise!Expire, Promise!Move
  <2>4. QED
    BY <2>2, <2>3 DEF TInv
<1>10. ASSUME NEW f \in Files, CommitOnMedia(f) PROVE TInv'
  <2>1. /\ phase' \in [Files -> Promise!Phases]
        /\ \A g \in Files : phase[g] = "committed" => phase'[g] = "committed"
        /\ \A g \in Files : g # f => phase'[g] = phase[g]
    BY <1>10, PhaseStep DEF TInv, CommitOnMedia
  <2>2. TypeOK'
    BY <1>10, <2>1 DEF TInv, TypeOK, CommitOnMedia, Tasks, Promise!Commit, Promise!Move
  <2>3. HeldOK'
    BY <1>10, <2>1 DEF TInv, TypeOK, HeldOK, CommitOnMedia, Tasks, Promise!Commit, Promise!Move
  <2>4. QED
    BY <2>2, <2>3 DEF TInv
<1>11. ASSUME NEW f \in Files, ReadMedia(f) PROVE TInv'
  <2>1. TypeOK'
    BY <1>11 DEF TInv, TypeOK, ReadMedia, Tasks
  <2>2. HeldOK'
    BY <1>11 DEF TInv, TypeOK, HeldOK, ReadMedia, Tasks
  <2>3. QED
    BY <2>1, <2>2 DEF TInv
<1>12. ASSUME NEW f \in Files, ReadMetadata(f) PROVE TInv'
  <2>1. doc \in Doc
    BY <1>12 DEF TInv, HeldOK, ReadMetadata
  <2>2. TypeOK'
    BY <1>12, <2>1 DEF TInv, TypeOK, ReadMetadata, Tasks
  <2>3. HeldOK'
    BY <1>12, <2>1 DEF TInv, TypeOK, HeldOK, ReadMetadata, Tasks
  <2>4. QED
    BY <2>2, <2>3 DEF TInv
<1>13. ASSUME NEW f \in Files, SetAvailable(f) PROVE TInv'
  <2>1. TypeOK'
    BY <1>13 DEF TInv, TypeOK, SetAvailable, Tasks, Stored
  <2>2. HeldOK'
    BY <1>13 DEF TInv, TypeOK, HeldOK, SetAvailable, Tasks, Stored
  <2>3. QED
    BY <2>1, <2>2 DEF TInv
<1>14. ASSUME NEW t \in Tasks, ReadAgain(t) PROVE TInv'
  <2>1. doc \in Doc
    BY <1>14 DEF TInv, HeldOK, ReadAgain, Tasks
  <2>2. TypeOK'
    BY <1>14, <2>1 DEF TInv, TypeOK, ReadAgain, Tasks
  <2>3. HeldOK'
    BY <1>14, <2>1 DEF TInv, TypeOK, HeldOK, ReadAgain, Tasks
  <2>4. QED
    BY <2>2, <2>3 DEF TInv
<1>15. ASSUME NEW t \in Tasks, CountMedia(t) PROVE TInv'
  <2>1. doc \in Doc
    BY <1>15 DEF TInv, HeldOK, CountMedia, Tasks
  <2>2. TypeOK'
    BY <1>15, <2>1 DEF TInv, TypeOK, CountMedia, Tasks, available, afterState
  <2>3. HeldOK'
    BY <1>15, <2>1 DEF TInv, TypeOK, HeldOK, CountMedia, Tasks, available, afterState
  <2>4. QED
    BY <2>2, <2>3 DEF TInv
<1>16. ASSUME NEW t \in Tasks, StoreState(t) PROVE TInv'
  <2>1. withStorage(t) \in Doc
    BY <1>16 DEF TInv, HeldOK, StoreState, Tasks, Doc, withStorage, storageOf
  <2>2. /\ doc' \in Doc
        /\ copy' \in [Tasks -> Doc \cup {Nil}] /\ copy'[t] \in Doc
        /\ \A u \in Tasks : u # t => copy'[u] = copy[u]
    BY <1>16, <2>1, SaveType DEF TInv, HeldOK, StoreState, Tasks
  <2>3. TypeOK'
    BY <1>16, <2>2 DEF TInv, TypeOK, StoreState, Tasks, afterState
  <2>4. HeldOK'
    BY <1>16, <2>2 DEF TInv, TypeOK, HeldOK, StoreState, Tasks, afterState
  <2>5. QED
    BY <2>3, <2>4 DEF TInv
<1>17. ASSUME NEW t \in Tasks, ClearError(t) PROVE TInv'
  <2>1. withStorage(t) \in Doc
    BY <1>17 DEF TInv, HeldOK, ClearError, Tasks, Doc, withStorage, storageOf
  <2>2. /\ doc' \in Doc
        /\ copy' \in [Tasks -> Doc \cup {Nil}] /\ copy'[t] \in Doc
        /\ \A u \in Tasks : u # t => copy'[u] = copy[u]
    BY <1>17, <2>1, SaveType DEF TInv, HeldOK, ClearError, Tasks
  <2>3. TypeOK'
    BY <1>17, <2>2 DEF TInv, TypeOK, ClearError, Tasks, afterState
  <2>4. HeldOK'
    BY <1>17, <2>2 DEF TInv, TypeOK, HeldOK, ClearError, Tasks, afterState
  <2>5. QED
    BY <2>3, <2>4 DEF TInv
<1>18. ASSUME NEW t \in Tasks, VersionError(t) PROVE TInv'
  <2>1. TypeOK'
    BY <1>18 DEF TInv, TypeOK, VersionError, Tasks
  <2>2. HeldOK'
    BY <1>18 DEF TInv, TypeOK, HeldOK, VersionError, Tasks
  <2>3. QED
    BY <2>1, <2>2 DEF TInv
<1>19. ASSUME NEW t \in Tasks, ReadToSend(t) PROVE TInv'
  <2>1. doc \in Doc
    BY <1>19 DEF TInv, HeldOK, ReadToSend, Tasks
  <2>2. TypeOK'
    BY <1>19, <2>1 DEF TInv, TypeOK, ReadToSend, Tasks
  <2>3. HeldOK'
    BY <1>19, <2>1 DEF TInv, TypeOK, HeldOK, ReadToSend, Tasks
  <2>4. QED
    BY <2>2, <2>3 DEF TInv
<1>20. ASSUME NEW t \in Tasks, CheckSendable(t) PROVE TInv'
  <2>1. TypeOK'
    BY <1>20 DEF TInv, TypeOK, CheckSendable, Tasks
  <2>2. HeldOK'
    BY <1>20 DEF TInv, TypeOK, HeldOK, CheckSendable, Tasks
  <2>3. QED
    BY <2>1, <2>2 DEF TInv
<1>21. ASSUME NEW t \in Tasks, MarkSent(t) PROVE TInv'
  <2>1. doc \in Doc /\ copy[t] \in Doc
    BY <1>21 DEF TInv, HeldOK, MarkSent, Tasks
  <2>2. /\ doc' \in Doc /\ copy[t].files \in SUBSET Files
        /\ copy' \in [Tasks -> Doc \cup {Nil}] /\ copy'[t] \in Doc
        /\ \A u \in Tasks : u # t => copy'[u] = copy[u]
    <3>1. PICK n \in Doc : save(t, n)
      BY <1>21, <2>1 DEF MarkSent, Doc
    <3>2. copy[t].files \in SUBSET Files
      BY <2>1 DEF Doc
    <3>3. QED
      BY <2>1, <3>1, <3>2, SaveType DEF TInv
  <2>3. TypeOK'
    BY <1>21, <2>2 DEF TInv, TypeOK, MarkSent, Tasks
  <2>4. HeldOK'
    BY <1>21, <2>2 DEF TInv, TypeOK, HeldOK, MarkSent, Tasks
  <2>5. QED
    BY <2>3, <2>4 DEF TInv
<1>22. ASSUME NEW ok \in BOOLEAN, Report(ok) PROVE TInv'
  <2>1. doc' \in Doc
    <3>1. doc \in Doc
      BY <1>22 DEF TInv, HeldOK, Report
    <3>2. [doc EXCEPT !.published = "yes"] \in Doc /\ [doc EXCEPT !.error = TRUE] \in Doc
      BY <3>1 DEF Doc
    <3>3. QED
      BY <1>22, <3>1, <3>2, SavedType DEF Report
  <2>2. TypeOK'
    BY <1>22, <2>1 DEF TInv, TypeOK, Report
  <2>3. HeldOK'
    BY <1>22, <2>1 DEF TInv, TypeOK, HeldOK, Report
  <2>4. QED
    BY <2>2, <2>3 DEF TInv
<1>23. ASSUME UNCHANGED vars PROVE TInv'
  BY <1>23 DEF TInv, TypeOK, HeldOK, vars
<1>24. QED
  BY <1>1, <1>2, <1>3, <1>4, <1>5, <1>6, <1>7, <1>8, <1>9, <1>10, <1>11, <1>12, <1>13,
     <1>14, <1>15, <1>16, <1>17, <1>18, <1>19, <1>20, <1>21, <1>22, <1>23
     DEF Next, Editor, Committing, Storing

\* Every state of a behaviour has the types of TypeOK: the status that the hook of
\* mongoose computes and what each handler holds are what the schemas allow.
THEOREM TypeCorrect == Spec => []TypeOK
<1>1. Spec => []TInv
  BY TypeInit, TypeStep, PTL DEF Spec
<1>2. TInv => TypeOK
  BY DEF TInv
<1>3. QED
  BY <1>1, <1>2, PTL

(***************************************************************************)
(* Only what rudi-media committed is sent.                                 *)
(***************************************************************************)

Committed(f) == phase[f] = "committed"

\* A status that says available, in the database or in a form that can still write it
\* there, was set by a commit; the files of a metadata that passed the test were all
\* available then, and a commit is never undone.
ServedInv ==
    /\ \A f \in Files : media[f] = "available" => Committed(f)
    /\ \A e \in Edits : pc[e] \in {"form", "writing"} =>
          \A f \in copy[e].files \ added[e] : view[e][f] = "available" => Committed(f)
    /\ \A t \in Tasks : pc[t] = "marking" => \A f \in copy[t].files : Committed(f)
    /\ SentIsServed

LEMMA ServedInit == Init => ServedInv
BY ConstantsAssumption DEF Init, ServedInv, SentIsServed, Stored, Tasks

\* A step that leaves the metadata and the handlers alone, but starts perhaps one
\* that reads, keeps the invariant as long as what is committed stays so.
LEMMA ServedKept ==
    ASSUME TInv, ServedInv, UNCHANGED <<media, form, handler, portal>>,
           \A f \in Files : Committed(f) => Committed(f)',
           \A t \in Tasks : pc'[t] \in {"form", "writing", "marking"} => pc'[t] = pc[t]
    PROVE  ServedInv'
<1> USE DEF form, handler, portal
<1>1. \A t \in Tasks : pc[t] \in {"form", "writing", "marking"} => copy[t].files \subseteq Files
  <2>1. \A t \in Tasks : pc[t] \in {"form", "writing", "marking"} => copy[t] \in Doc
    BY DEF TInv, HeldOK, Tasks
  <2>2. QED
    BY <2>1 DEF Doc
<1>2. (\A f \in Files : media[f] = "available" => Committed(f))'
  BY DEF ServedInv
<1>3. (\A e \in Edits : pc[e] \in {"form", "writing"} =>
          \A f \in copy[e].files \ added[e] : view[e][f] = "available" => Committed(f))'
  BY <1>1 DEF ServedInv, Tasks
<1>4. (\A t \in Tasks : pc[t] = "marking" => \A f \in copy[t].files : Committed(f))'
  BY <1>1 DEF ServedInv
<1>5. SentIsServed'
  <2>1. sent \subseteq SUBSET Files /\ sent' = sent
    BY DEF TInv, TypeOK
  <2>2. QED
    BY <2>1 DEF ServedInv, SentIsServed, Committed
<1>6. QED
  BY <1>2, <1>3, <1>4, <1>5 DEF ServedInv

LEMMA ServedStep == TInv /\ TInv' /\ ServedInv /\ [Next]_vars => ServedInv'
<1> SUFFICES ASSUME TInv, TInv', ServedInv, [Next]_vars PROVE ServedInv'
  OBVIOUS
<1> USE ConstantsAssumption DEF form, handler, portal, goto, PC, Committed
<1>1. ASSUME NEW e \in Edits, NEW new \in SUBSET Files, Fill(e, new) PROVE ServedInv'
  BY <1>1 DEF TInv, TypeOK, ServedInv, SentIsServed, Fill, Tasks, Created, Doc
<1>2. ASSUME NEW e \in Edits, NEW kept \in SUBSET Files, NEW new \in SUBSET Files,
             Open(e, kept, new)
      PROVE  ServedInv'
  BY <1>2 DEF TInv, TypeOK, ServedInv, SentIsServed, Open, Tasks, Doc
<1>3. ASSUME NEW e \in Edits, Submit(e) PROVE ServedInv'
  BY <1>3 DEF TInv, TypeOK, ServedInv, SentIsServed, Submit, Tasks
<1>4. ASSUME NEW e \in Edits, NEW f \in Files, WriteMedia(e, f) PROVE ServedInv'
  <2>1. media'[f] = "available" => Committed(f)
    BY <1>4 DEF TInv, TypeOK, HeldOK, ServedInv, WriteMedia, Stored
  <2>2. \A g \in Files \ {f} : media'[g] = media[g]
    BY <1>4 DEF TInv, TypeOK, WriteMedia
  <2>3. QED
    BY <1>4, <2>1, <2>2 DEF ServedInv, SentIsServed, WriteMedia, Tasks
<1>5. ASSUME NEW e \in Edits, InsertMetadata(e) PROVE ServedInv'
  BY <1>5 DEF TInv, TypeOK, ServedInv, SentIsServed, InsertMetadata, Tasks
<1>6. ASSUME NEW e \in Edits, OverwriteMetadata(e) PROVE ServedInv'
  BY <1>6 DEF TInv, TypeOK, ServedInv, SentIsServed, OverwriteMetadata, Tasks
<1>7. ASSUME NEW e \in Edits, SaveOverwritten(e) PROVE ServedInv'
  BY <1>7 DEF TInv, TypeOK, ServedInv, SentIsServed, SaveOverwritten, save, Tasks
<1>8. ASSUME NEW e \in Edits, NEW f \in Files, Upload(e, f) PROVE ServedInv'
  <2>1. \A g \in Files : Committed(g) => Committed(g)'
    BY <1>8, PhaseStep DEF TInv, Upload
  <2>2. QED
    BY <1>8, <2>1, ServedKept DEF TInv, TypeOK, Upload, Tasks
<1>9. ASSUME NEW f \in Files, Expire(f) PROVE ServedInv'
  <2>1. \A g \in Files : Committed(g) => Committed(g)'
    BY <1>9, PhaseStep DEF TInv, Expire
  <2>2. QED
    BY <1>9, <2>1, ServedKept DEF TInv, TypeOK, Expire, Tasks
<1>10. ASSUME NEW f \in Files, CommitOnMedia(f) PROVE ServedInv'
  <2>1. \A g \in Files : Committed(g) => Committed(g)'
    BY <1>10, PhaseStep DEF TInv, CommitOnMedia
  <2>2. QED
    BY <1>10, <2>1, ServedKept DEF TInv, TypeOK, CommitOnMedia, Tasks
<1>11. ASSUME NEW f \in Files, ReadMedia(f) PROVE ServedInv'
  BY <1>11 DEF TInv, TypeOK, ServedInv, SentIsServed, ReadMedia, Tasks
<1>12. ASSUME NEW f \in Files, ReadMetadata(f) PROVE ServedInv'
  BY <1>12 DEF TInv, TypeOK, ServedInv, SentIsServed, ReadMetadata, Tasks
<1>13. ASSUME NEW f \in Files, SetAvailable(f) PROVE ServedInv'
  BY <1>13 DEF TInv, TypeOK, ServedInv, SentIsServed, SetAvailable, Tasks, HeldOK
<1>14. ASSUME NEW t \in Tasks, ReadAgain(t) PROVE ServedInv'
  BY <1>14 DEF TInv, TypeOK, ServedInv, SentIsServed, ReadAgain, Tasks
<1>15. ASSUME NEW t \in Tasks, CountMedia(t) PROVE ServedInv'
  BY <1>15 DEF TInv, TypeOK, ServedInv, SentIsServed, CountMedia, Tasks, available, afterState
<1>16. ASSUME NEW t \in Tasks, StoreState(t) PROVE ServedInv'
  BY <1>16 DEF TInv, TypeOK, ServedInv, SentIsServed, StoreState, save, Tasks, afterState
<1>17. ASSUME NEW t \in Tasks, ClearError(t) PROVE ServedInv'
  BY <1>17 DEF TInv, TypeOK, ServedInv, SentIsServed, ClearError, save, Tasks, afterState
<1>18. ASSUME NEW t \in Tasks, VersionError(t) PROVE ServedInv'
  BY <1>18 DEF TInv, TypeOK, ServedInv, SentIsServed, VersionError, Tasks
<1>19. ASSUME NEW t \in Tasks, ReadToSend(t) PROVE ServedInv'
  BY <1>19 DEF TInv, TypeOK, ServedInv, SentIsServed, ReadToSend, Tasks
<1>20. ASSUME NEW t \in Tasks, CheckSendable(t) PROVE ServedInv'
  BY <1>20 DEF TInv, TypeOK, ServedInv, SentIsServed, CheckSendable, Tasks, available, HeldOK, Doc
<1>21. ASSUME NEW t \in Tasks, MarkSent(t) PROVE ServedInv'
  BY <1>21 DEF TInv, TypeOK, ServedInv, SentIsServed, MarkSent, save, Tasks
<1>22. ASSUME NEW ok \in BOOLEAN, Report(ok) PROVE ServedInv'
  BY <1>22 DEF TInv, TypeOK, ServedInv, SentIsServed, Report, Tasks
<1>23. ASSUME UNCHANGED vars PROVE ServedInv'
  BY <1>23 DEF TInv, TypeOK, ServedInv, SentIsServed, vars
<1>24. QED
  BY <1>1, <1>2, <1>3, <1>4, <1>5, <1>6, <1>7, <1>8, <1>9, <1>10, <1>11, <1>12, <1>13,
     <1>14, <1>15, <1>16, <1>17, <1>18, <1>19, <1>20, <1>21, <1>22, <1>23
     DEF Next, Editor, Committing, Storing

\* A metadata is sent to the portal only with files that rudi-media committed, whatever
\* expires, is lost, is edited meanwhile or is given back by a stale form.
THEOREM SentServed == Spec => []SentIsServed
<1>1. Spec => []TInv
  BY TypeInit, TypeStep, PTL DEF Spec
<1>2. Spec => []ServedInv
  BY <1>1, ServedInit, ServedStep, PTL DEF Spec
<1>3. ServedInv => SentIsServed
  BY DEF ServedInv
<1>4. QED
  BY <1>2, <1>3, PTL

(***************************************************************************)
(* The last commit sends.                                                  *)
(***************************************************************************)

\* An edit that was submitted and is not answered yet; it counts the media last.
Busy(e)   == pc[e] \in {"writing", "saving", "saved", "counting", "storing", "clearing"}
Before(e) == pc[e] \in {"writing", "saving", "saved", "counting"}

\* While an edit is busy no other handler runs and no file is on its way; a file is
\* staged by an edit that was answered; a handler that found no file missing counted.
AloneInv ==
    /\ \A e \in Edits : Busy(e) =>
          /\ \A t \in Tasks \ {e} : pc[t] \in Over
          /\ \A d \in Edits : pc[d] \in Answered => ~Uploading(d)
    /\ \A f \in Files : phase[f] = "staged" =>
          \E d \in Edits : pc[d] \in Answered /\ f \in added[d]
    /\ \A t \in Tasks : full[t] =>
          pc[t] \in {"storing", "clearing", "sending", "loading", "marking", "done",
                     "failed", "unsent"}

LEMMA AloneInit == Init => AloneInv
BY DEF Init, AloneInv, Busy, Promise!Init, Tasks

LEMMA AloneStep ==
    ASSUME "overlap" \notin Faults, TInv, AloneInv, [Next]_vars
    PROVE  AloneInv'
<1> USE ConstantsAssumption
    DEF form, handler, portal, goto, Tasks, AloneInv, Busy, Over, Answered, Uploading
<1>1. ASSUME NEW e \in Edits, NEW new \in SUBSET Files, Fill(e, new) PROVE AloneInv'
  BY <1>1 DEF TInv, TypeOK, Fill
<1>2. ASSUME NEW e \in Edits, NEW kept \in SUBSET Files, NEW new \in SUBSET Files,
             Open(e, kept, new)
      PROVE  AloneInv'
  BY <1>2 DEF TInv, TypeOK, Open
<1>3. ASSUME NEW e \in Edits, Submit(e) PROVE AloneInv'
  BY <1>3 DEF TInv, TypeOK, Submit, Quiet
<1>4. ASSUME NEW e \in Edits, NEW f \in Files, WriteMedia(e, f) PROVE AloneInv'
  BY <1>4 DEF TInv, TypeOK, WriteMedia
<1>5. ASSUME NEW e \in Edits, InsertMetadata(e) PROVE AloneInv'
  BY <1>5 DEF TInv, TypeOK, InsertMetadata
<1>6. ASSUME NEW e \in Edits, OverwriteMetadata(e) PROVE AloneInv'
  BY <1>6 DEF TInv, TypeOK, OverwriteMetadata
<1>7. ASSUME NEW e \in Edits, SaveOverwritten(e) PROVE AloneInv'
  BY <1>7 DEF TInv, TypeOK, SaveOverwritten, save
<1>8. ASSUME NEW e \in Edits, NEW f \in Files, Upload(e, f) PROVE AloneInv'
  BY <1>8
     DEF TInv, TypeOK, Upload, Promise!Stage, Promise!Expire, Promise!Commit, Promise!Move,
         Promise!Phases
<1>9. ASSUME NEW f \in Files, Expire(f) PROVE AloneInv'
  BY <1>9
     DEF TInv, TypeOK, Expire, Promise!Stage, Promise!Expire, Promise!Commit, Promise!Move,
         Promise!Phases
<1>10. ASSUME NEW f \in Files, CommitOnMedia(f) PROVE AloneInv'
  <2>1. phase[f] = "staged" /\ phase' = [phase EXCEPT ![f] = "committed"]
    BY <1>10 DEF CommitOnMedia, Promise!Commit, Promise!Move
  <2>2. \A e \in Edits : ~Busy(e)
    BY <2>1
  <2>3. ~full[f]
    BY <2>1 DEF TInv, HeldOK
  <2>4. QED
    BY <1>10, <2>1, <2>2, <2>3 DEF TInv, TypeOK, CommitOnMedia
<1>11. ASSUME NEW f \in Files, ReadMedia(f) PROVE AloneInv'
  BY <1>11 DEF TInv, TypeOK, ReadMedia
<1>12. ASSUME NEW f \in Files, ReadMetadata(f) PROVE AloneInv'
  BY <1>12 DEF TInv, TypeOK, ReadMetadata
<1>13. ASSUME NEW f \in Files, SetAvailable(f) PROVE AloneInv'
  BY <1>13 DEF TInv, TypeOK, SetAvailable
<1>14. ASSUME NEW t \in Tasks, ReadAgain(t) PROVE AloneInv'
  BY <1>14 DEF TInv, TypeOK, ReadAgain
<1>15. ASSUME NEW t \in Tasks, CountMedia(t) PROVE AloneInv'
  BY <1>15 DEF TInv, TypeOK, CountMedia, afterState
<1>16. ASSUME NEW t \in Tasks, StoreState(t) PROVE AloneInv'
  BY <1>16 DEF TInv, TypeOK, StoreState, afterState, save
<1>17. ASSUME NEW t \in Tasks, ClearError(t) PROVE AloneInv'
  BY <1>17 DEF TInv, TypeOK, ClearError, afterState, save
<1>18. ASSUME NEW t \in Tasks, VersionError(t) PROVE AloneInv'
  BY <1>18 DEF TInv, TypeOK, VersionError
<1>19. ASSUME NEW t \in Tasks, ReadToSend(t) PROVE AloneInv'
  BY <1>19 DEF TInv, TypeOK, ReadToSend
<1>20. ASSUME NEW t \in Tasks, CheckSendable(t) PROVE AloneInv'
  BY <1>20 DEF TInv, TypeOK, CheckSendable
<1>21. ASSUME NEW t \in Tasks, MarkSent(t) PROVE AloneInv'
  BY <1>21 DEF TInv, TypeOK, MarkSent, save
<1>22. ASSUME NEW ok \in BOOLEAN, Report(ok) PROVE AloneInv'
  BY <1>22 DEF TInv, TypeOK, Report
<1>23. ASSUME UNCHANGED vars PROVE AloneInv'
  BY <1>23 DEF TInv, TypeOK, vars
<1>24. QED
  BY <1>1, <1>2, <1>3, <1>4, <1>5, <1>6, <1>7, <1>8, <1>9, <1>10, <1>11, <1>12, <1>13, <1>14, <1>15,
     <1>16, <1>17, <1>18, <1>19, <1>20, <1>21, <1>22, <1>23
     DEF Next, Editor, Committing, Storing

\* The fields of a document that is saved.
LEMMA SavedFields ==
    ASSUME NEW d \in Doc, NEW c \in Doc, NEW n \in Doc
    PROVE  /\ Saved(d, c, n).files = d.files
           /\ Saved(d, c, n).storage = IF n.storage # c.storage THEN n.storage ELSE d.storage
           /\ Saved(d, c, n).error = IF n.error # c.error THEN n.error ELSE d.error
<1> DEFINE m == [n EXCEPT !.status = reckonMetadataStatus(n)]
           version   == IF m # c THEN d.v + 1 ELSE d.v
           storage   == IF m.storage # c.storage THEN m.storage ELSE d.storage
           error     == IF m.error # c.error THEN m.error ELSE d.error
           published == IF m.published # c.published THEN m.published ELSE d.published
           status    == IF m.status # c.status THEN m.status ELSE d.status
<1>1. m.storage = n.storage /\ m.error = n.error
  BY DEF Doc
<1>2. Saved(d, c, n) = [d EXCEPT !.v = version, !.storage = storage, !.error = error,
                                 !.published = published, !.status = status]
  BY DEF Saved, Doc
<1> HIDE DEF m
<1>3. /\ storage = IF n.storage # c.storage THEN n.storage ELSE d.storage
      /\ error = IF n.error # c.error THEN n.error ELSE d.error
  BY <1>1
<1> HIDE DEF version, storage, error, published, status
<1>4. /\ Saved(d, c, n).files = d.files
      /\ Saved(d, c, n).storage = storage
      /\ Saved(d, c, n).error = error
  BY <1>2 DEF Doc
<1>5. QED
  BY <1>3, <1>4

\* What a save leaves in the database and in the hands of the handler.
LEMMA SaveEffect ==
    ASSUME TypeOK, NEW t \in Tasks, NEW n \in Doc, copy[t] \in Doc, doc \in Doc, save(t, n)
    PROVE  /\ doc' \in Doc /\ doc'.files = doc.files
           /\ doc'.storage = IF n.storage # copy[t].storage THEN n.storage ELSE doc.storage
           /\ doc'.error = IF n.error # copy[t].error THEN n.error ELSE doc.error
           /\ copy'[t] \in Doc /\ copy'[t].files = copy[t].files
           /\ copy'[t].storage = n.storage /\ copy'[t].error = n.error
           /\ \A u \in Tasks : u # t => copy'[u] = copy[u]
<1>1. doc' = Saved(doc, copy[t], n)
  BY DEF save
<1>2. /\ copy'[t] = Saved(copy[t], copy[t], n)
      /\ \A u \in Tasks : u # t => copy'[u] = copy[u]
  BY DEF save, TypeOK
<1>3. /\ Saved(copy[t], copy[t], n).files = copy[t].files
      /\ Saved(copy[t], copy[t], n).storage = n.storage
      /\ Saved(copy[t], copy[t], n).error = n.error
  BY SavedFields
<1>4. /\ Saved(doc, copy[t], n).files = doc.files
      /\ Saved(doc, copy[t], n).storage
            = IF n.storage # copy[t].storage THEN n.storage ELSE doc.storage
      /\ Saved(doc, copy[t], n).error
            = IF n.error # copy[t].error THEN n.error ELSE doc.error
  BY SavedFields
<1>5. doc' \in Doc /\ copy'[t] \in Doc
  BY SaveType
<1>6. QED
  BY <1>1, <1>2, <1>3, <1>4, <1>5

\* The document that an edit holds is the one stored, but for what a report changed;
\* the media counted are those of the stored document, and stay available once they are.
EditInv ==
    /\ \A e \in Edits : pc[e] \in {"saving", "saved", "counting", "storing", "clearing"} =>
          /\ copy[e].storage = doc.storage /\ copy[e].files = doc.files
          /\ copy[e].error => doc.error
    /\ \A e \in Edits : pc[e] = "counting" => (copy[e].error => list[e].error)
    /\ \A t \in Tasks :
          pc[t] \in {"counting", "storing", "clearing", "sending", "loading", "marking"} =>
             list[t].files = doc.files
    /\ \A t \in Tasks :
          pc[t] \in {"storing", "clearing", "sending", "loading", "marking"} /\ full[t] =>
             available(doc.files)

LEMMA EditInit == Init => EditInv
BY DEF Init, EditInv, Tasks

\* The report of the portal only sets the flag of the error.
LEMMA ReportEffect ==
    ASSUME TInv, NEW ok \in BOOLEAN, Report(ok)
    PROVE  /\ doc \in Doc /\ doc' \in Doc /\ doc'.files = doc.files
           /\ doc'.storage = doc.storage /\ (doc.error => doc'.error)
<1>1. doc \in Doc
  BY DEF TInv, HeldOK, Report
<1>2. CASE doc' = doc
  BY <1>1, <1>2
<1>3. CASE doc' = Saved(doc, doc, [doc EXCEPT !.published = "yes"])
  <2> DEFINE n == [doc EXCEPT !.published = "yes"]
  <2>1. n \in Doc /\ n.storage = doc.storage /\ n.error = doc.error
    BY <1>1 DEF Doc
  <2> HIDE DEF n
  <2>2. Saved(doc, doc, n) \in Doc
    BY <1>1, <2>1, SavedType
  <2>3. /\ Saved(doc, doc, n).files = doc.files /\ Saved(doc, doc, n).storage = doc.storage
        /\ Saved(doc, doc, n).error = doc.error
    BY <1>1, <2>1, SavedFields
  <2>4. doc' = Saved(doc, doc, n)
    BY <1>3 DEF n
  <2>5. QED
    BY <1>1, <2>2, <2>3, <2>4
<1>4. CASE doc' = Saved(doc, doc, [doc EXCEPT !.error = TRUE])
  <2> DEFINE n == [doc EXCEPT !.error = TRUE]
  <2>1. n \in Doc /\ n.storage = doc.storage /\ n.error = TRUE
    BY <1>1 DEF Doc
  <2> HIDE DEF n
  <2>2. Saved(doc, doc, n) \in Doc
    BY <1>1, <2>1, SavedType
  <2>3. /\ Saved(doc, doc, n).files = doc.files /\ Saved(doc, doc, n).storage = doc.storage
        /\ Saved(doc, doc, n).error = TRUE
    <3>1. doc.error \in BOOLEAN
      BY <1>1 DEF Doc
    <3>2. QED
      BY <1>1, <2>1, <3>1, SavedFields
  <2>4. doc' = Saved(doc, doc, n)
    BY <1>4 DEF n
  <2>5. QED
    BY <1>1, <2>2, <2>3, <2>4
<1>5. QED
  BY <1>2, <1>3, <1>4 DEF Report

\* A save of a handler that runs: of the copy as it is, of the new storage status, or
\* of the metadata marked as sent.
LEMMA OverwrittenEffect ==
    ASSUME TInv, NEW e \in Edits, SaveOverwritten(e)
    PROVE  /\ doc \in Doc /\ doc' \in Doc /\ doc'.files = doc.files
           /\ doc'.storage = doc.storage /\ doc'.error = doc.error
           /\ copy[e] \in Doc /\ copy'[e] \in Doc /\ copy'[e].files = copy[e].files
           /\ copy'[e].storage = copy[e].storage /\ copy'[e].error = copy[e].error
           /\ \A u \in Tasks : u # e => copy'[u] = copy[u]
<1>1. doc \in Doc /\ copy[e] \in Doc
  BY DEF TInv, HeldOK, SaveOverwritten
<1>2. save(e, copy[e]) /\ e \in Tasks
  BY DEF SaveOverwritten, Tasks
<1>3. QED
  BY <1>1, <1>2, SaveEffect DEF TInv

LEMMA StorageEffect ==
    ASSUME TInv, NEW t \in Tasks, StoreState(t) \/ ClearError(t)
    PROVE  /\ doc \in Doc /\ doc' \in Doc /\ doc'.files = doc.files
           /\ doc'.storage = IF storageOf(full[t]) # copy[t].storage THEN storageOf(full[t])
                             ELSE doc.storage
           /\ doc'.error = doc.error
           /\ copy[t] \in Doc /\ copy'[t] \in Doc /\ copy'[t].files = copy[t].files
           /\ copy'[t].storage = storageOf(full[t]) /\ copy'[t].error = copy[t].error
           /\ \A u \in Tasks : u # t => copy'[u] = copy[u]
<1>1. doc \in Doc /\ copy[t] \in Doc
  BY ConstantsAssumption DEF TInv, HeldOK, StoreState, ClearError, Tasks
<1>2. /\ withStorage(t) \in Doc /\ withStorage(t).storage = storageOf(full[t])
      /\ withStorage(t).error = copy[t].error
  BY <1>1 DEF withStorage, storageOf, Doc
<1>3. save(t, withStorage(t))
  BY DEF StoreState, ClearError
<1>4. QED
  BY <1>1, <1>2, <1>3, SaveEffect DEF TInv

LEMMA SentEffect ==
    ASSUME TInv, NEW t \in Tasks, MarkSent(t)
    PROVE  /\ doc \in Doc /\ doc' \in Doc /\ doc'.files = doc.files
           /\ doc'.storage = doc.storage
           /\ \A u \in Tasks : u # t => copy'[u] = copy[u]
<1>1. doc \in Doc /\ copy[t] \in Doc
  BY ConstantsAssumption DEF TInv, HeldOK, MarkSent, Tasks
<1>2. PICK n \in Doc : n.storage = copy[t].storage /\ save(t, n)
  <2> DEFINE n == [copy[t] EXCEPT !.published = "no", !.error = FALSE, !.status = "sent"]
  <2>1. n \in Doc /\ n.storage = copy[t].storage
    BY <1>1 DEF Doc
  <2>2. save(t, n)
    BY DEF MarkSent
  <2>3. QED
    BY <2>1, <2>2
<1>3. QED
  BY <1>1, <1>2, SaveEffect DEF TInv

LEMMA EditStep ==
    ASSUME "overlap" \notin Faults, TInv, TInv', AloneInv, EditInv, [Next]_vars
    PROVE  EditInv'
<1> USE ConstantsAssumption DEF form, handler, portal, goto, Tasks, Over
<1>1. ASSUME NEW e \in Edits, NEW new \in SUBSET Files, Fill(e, new) PROVE EditInv'
  BY <1>1 DEF TInv, TypeOK, AloneInv, Busy, EditInv, available, Fill
<1>2. ASSUME NEW e \in Edits, NEW kept \in SUBSET Files, NEW new \in SUBSET Files,
             Open(e, kept, new)
      PROVE  EditInv'
  BY <1>2 DEF TInv, TypeOK, AloneInv, Busy, EditInv, available, Open
<1>3. ASSUME NEW e \in Edits, Submit(e) PROVE EditInv'
  BY <1>3 DEF TInv, TypeOK, AloneInv, Busy, EditInv, available, Submit
<1>4. ASSUME NEW e \in Edits, NEW f \in Files, WriteMedia(e, f) PROVE EditInv'
  BY <1>4 DEF TInv, TypeOK, AloneInv, Busy, EditInv, available, WriteMedia
<1>5. ASSUME NEW e \in Edits, InsertMetadata(e) PROVE EditInv'
  BY <1>5 DEF TInv, TypeOK, AloneInv, Busy, EditInv, available, InsertMetadata
<1>6. ASSUME NEW e \in Edits, OverwriteMetadata(e) PROVE EditInv'
  <2>1. copy'[e] = doc' /\ pc' = [pc EXCEPT ![e] = "saving"]
    BY <1>6 DEF TInv, TypeOK, OverwriteMetadata
  <2>2. \A u \in Tasks : u # e => pc[u] \in Over /\ copy'[u] = copy[u]
    BY <1>6 DEF TInv, TypeOK, OverwriteMetadata, AloneInv, Busy
  <2>3. QED
    BY <2>1, <2>2 DEF TInv, TypeOK, EditInv
<1>7. ASSUME NEW e \in Edits, SaveOverwritten(e) PROVE EditInv'
  <2>1. /\ doc'.files = doc.files /\ doc'.error = doc.error
        /\ copy'[e].files = copy[e].files /\ copy'[e].error = copy[e].error
        /\ copy[e].storage = doc.storage => copy'[e].storage = doc'.storage
        /\ \A u \in Tasks : u # e => copy'[u] = copy[u]
    BY <1>7, OverwrittenEffect
  <2>2. (\A d \in Edits : pc[d] \in {"saving", "saved", "counting", "storing", "clearing"} =>
          /\ copy[d].storage = doc.storage /\ copy[d].files = doc.files
          /\ copy[d].error => doc.error)'
    BY <1>7, <2>1 DEF TInv, TypeOK, AloneInv, Busy, EditInv, SaveOverwritten, afterState
  <2>3. (\A d \in Edits : pc[d] = "counting" => (copy[d].error => list[d].error))'
    BY <1>7, <2>1 DEF TInv, TypeOK, EditInv, SaveOverwritten, afterState
  <2>4. (\A u \in Tasks :
          pc[u] \in {"counting", "storing", "clearing", "sending", "loading", "marking"} =>
             list[u].files = doc.files)'
    BY <1>7, <2>1 DEF TInv, TypeOK, EditInv, SaveOverwritten, afterState
  <2>5. (\A u \in Tasks :
          pc[u] \in {"storing", "clearing", "sending", "loading", "marking"} /\ full[u] =>
             available(doc.files))'
    BY <1>7, <2>1 DEF TInv, TypeOK, EditInv, SaveOverwritten, afterState, available
  <2>6. QED
    BY <2>2, <2>3, <2>4, <2>5 DEF EditInv
<1>8. ASSUME NEW e \in Edits, NEW f \in Files, Upload(e, f) PROVE EditInv'
  BY <1>8
     DEF TInv, TypeOK, AloneInv, Busy, EditInv, available, Upload, Promise!Stage, Promise!Expire,
         Promise!Commit, Promise!Move, Promise!Phases
<1>9. ASSUME NEW f \in Files, Expire(f) PROVE EditInv'
  BY <1>9
     DEF TInv, TypeOK, AloneInv, Busy, EditInv, available, Expire, Promise!Stage, Promise!Expire,
         Promise!Commit, Promise!Move, Promise!Phases
<1>10. ASSUME NEW f \in Files, CommitOnMedia(f) PROVE EditInv'
  BY <1>10
     DEF TInv, TypeOK, AloneInv, Busy, EditInv, available, CommitOnMedia, Promise!Stage,
         Promise!Expire, Promise!Commit, Promise!Move, Promise!Phases
<1>11. ASSUME NEW f \in Files, ReadMedia(f) PROVE EditInv'
  BY <1>11 DEF TInv, TypeOK, AloneInv, Busy, EditInv, available, ReadMedia
<1>12. ASSUME NEW f \in Files, ReadMetadata(f) PROVE EditInv'
  BY <1>12 DEF TInv, TypeOK, AloneInv, Busy, EditInv, available, ReadMetadata
<1>13. ASSUME NEW f \in Files, SetAvailable(f) PROVE EditInv'
  BY <1>13 DEF TInv, TypeOK, AloneInv, Busy, EditInv, available, SetAvailable
<1>14. ASSUME NEW t \in Tasks, ReadAgain(t) PROVE EditInv'
  BY <1>14 DEF TInv, TypeOK, AloneInv, Busy, EditInv, available, ReadAgain
<1>15. ASSUME NEW t \in Tasks, CountMedia(t) PROVE EditInv'
  BY <1>15 DEF TInv, TypeOK, AloneInv, Busy, EditInv, available, CountMedia, afterState
<1>16. ASSUME NEW t \in Tasks, StoreState(t) PROVE EditInv'
  <2>1. /\ doc'.files = doc.files /\ doc'.error = doc.error
        /\ copy'[t].files = copy[t].files /\ copy'[t].error = copy[t].error
        /\ copy[t].storage = doc.storage => copy'[t].storage = doc'.storage
        /\ \A u \in Tasks : u # t => copy'[u] = copy[u]
    BY <1>16, StorageEffect
  <2>2. (\A d \in Edits : pc[d] \in {"saving", "saved", "counting", "storing", "clearing"} =>
          /\ copy[d].storage = doc.storage /\ copy[d].files = doc.files
          /\ copy[d].error => doc.error)'
    BY <1>16, <2>1 DEF TInv, TypeOK, AloneInv, Busy, EditInv, StoreState, afterState
  <2>3. (\A d \in Edits : pc[d] = "counting" => (copy[d].error => list[d].error))'
    BY <1>16, <2>1 DEF TInv, TypeOK, EditInv, StoreState, afterState
  <2>4. (\A u \in Tasks :
          pc[u] \in {"counting", "storing", "clearing", "sending", "loading", "marking"} =>
             list[u].files = doc.files)'
    BY <1>16, <2>1 DEF TInv, TypeOK, EditInv, StoreState, afterState
  <2>5. (\A u \in Tasks :
          pc[u] \in {"storing", "clearing", "sending", "loading", "marking"} /\ full[u] =>
             available(doc.files))'
    BY <1>16, <2>1 DEF TInv, TypeOK, EditInv, StoreState, afterState, available
  <2>6. QED
    BY <2>2, <2>3, <2>4, <2>5 DEF EditInv
<1>17. ASSUME NEW t \in Tasks, ClearError(t) PROVE EditInv'
  <2>1. /\ doc'.files = doc.files /\ doc'.error = doc.error
        /\ copy'[t].files = copy[t].files /\ copy'[t].error = copy[t].error
        /\ copy[t].storage = doc.storage => copy'[t].storage = doc'.storage
        /\ \A u \in Tasks : u # t => copy'[u] = copy[u]
    BY <1>17, StorageEffect
  <2>2. (\A d \in Edits : pc[d] \in {"saving", "saved", "counting", "storing", "clearing"} =>
          /\ copy[d].storage = doc.storage /\ copy[d].files = doc.files
          /\ copy[d].error => doc.error)'
    BY <1>17, <2>1 DEF TInv, TypeOK, AloneInv, Busy, EditInv, ClearError, afterState
  <2>3. (\A d \in Edits : pc[d] = "counting" => (copy[d].error => list[d].error))'
    BY <1>17, <2>1 DEF TInv, TypeOK, EditInv, ClearError, afterState
  <2>4. (\A u \in Tasks :
          pc[u] \in {"counting", "storing", "clearing", "sending", "loading", "marking"} =>
             list[u].files = doc.files)'
    BY <1>17, <2>1 DEF TInv, TypeOK, EditInv, ClearError, afterState
  <2>5. (\A u \in Tasks :
          pc[u] \in {"storing", "clearing", "sending", "loading", "marking"} /\ full[u] =>
             available(doc.files))'
    BY <1>17, <2>1 DEF TInv, TypeOK, EditInv, ClearError, afterState, available
  <2>6. QED
    BY <2>2, <2>3, <2>4, <2>5 DEF EditInv
<1>18. ASSUME NEW t \in Tasks, VersionError(t) PROVE EditInv'
  BY <1>18 DEF TInv, TypeOK, AloneInv, Busy, EditInv, available, VersionError
<1>19. ASSUME NEW t \in Tasks, ReadToSend(t) PROVE EditInv'
  BY <1>19 DEF TInv, TypeOK, AloneInv, Busy, EditInv, available, ReadToSend
<1>20. ASSUME NEW t \in Tasks, CheckSendable(t) PROVE EditInv'
  BY <1>20 DEF TInv, TypeOK, AloneInv, Busy, EditInv, available, CheckSendable
<1>21. ASSUME NEW t \in Tasks, MarkSent(t) PROVE EditInv'
  BY <1>21, SentEffect DEF TInv, TypeOK, AloneInv, Busy, EditInv, available, MarkSent
<1>22. ASSUME NEW ok \in BOOLEAN, Report(ok) PROVE EditInv'
  BY <1>22, ReportEffect DEF TInv, TypeOK, AloneInv, Busy, EditInv, available, Report
<1>23. ASSUME UNCHANGED vars PROVE EditInv'
  BY <1>23 DEF vars, EditInv, available
<1>24. QED
  BY <1>1, <1>2, <1>3, <1>4, <1>5, <1>6, <1>7, <1>8, <1>9, <1>10, <1>11, <1>12, <1>13, <1>14, <1>15,
     <1>16, <1>17, <1>18, <1>19, <1>20, <1>21, <1>22, <1>23
     DEF Next, Editor, Committing, Storing

\* No edit has failed.
Sound == Edits \cap Failed = {}

\* An edit that has failed is over.
LEMMA SoundStep == TInv /\ [Next]_vars /\ Sound' => Sound
<1> SUFFICES ASSUME TInv, [Next]_vars,
                    NEW d \in Edits, pc[d] \in {"failed", "unsent"}
             PROVE  pc'[d] = pc[d]
  BY DEF Sound, Failed, Tasks
<1> USE ConstantsAssumption DEF goto, Tasks
<1>1. ASSUME NEW e \in Edits, NEW new \in SUBSET Files, Fill(e, new) PROVE pc'[d] = pc[d]
  BY <1>1 DEF TInv, TypeOK, Fill
<1>2. ASSUME NEW e \in Edits, NEW kept \in SUBSET Files, NEW new \in SUBSET Files,
             Open(e, kept, new)
      PROVE  pc'[d] = pc[d]
  BY <1>2 DEF TInv, TypeOK, Open
<1>3. ASSUME NEW e \in Edits, Submit(e) PROVE pc'[d] = pc[d]
  BY <1>3 DEF TInv, TypeOK, Submit
<1>4. ASSUME NEW e \in Edits, NEW f \in Files, WriteMedia(e, f) PROVE pc'[d] = pc[d]
  BY <1>4 DEF TInv, TypeOK, WriteMedia
<1>5. ASSUME NEW e \in Edits, InsertMetadata(e) PROVE pc'[d] = pc[d]
  BY <1>5 DEF TInv, TypeOK, InsertMetadata
<1>6. ASSUME NEW e \in Edits, OverwriteMetadata(e) PROVE pc'[d] = pc[d]
  BY <1>6 DEF TInv, TypeOK, OverwriteMetadata
<1>7. ASSUME NEW e \in Edits, SaveOverwritten(e) PROVE pc'[d] = pc[d]
  BY <1>7 DEF TInv, TypeOK, SaveOverwritten
<1>8. ASSUME NEW e \in Edits, NEW f \in Files, Upload(e, f) PROVE pc'[d] = pc[d]
  BY <1>8 DEF TInv, TypeOK, Upload
<1>9. ASSUME NEW f \in Files, Expire(f) PROVE pc'[d] = pc[d]
  BY <1>9 DEF TInv, TypeOK, Expire
<1>10. ASSUME NEW f \in Files, CommitOnMedia(f) PROVE pc'[d] = pc[d]
  BY <1>10 DEF TInv, TypeOK, CommitOnMedia
<1>11. ASSUME NEW f \in Files, ReadMedia(f) PROVE pc'[d] = pc[d]
  BY <1>11 DEF TInv, TypeOK, ReadMedia
<1>12. ASSUME NEW f \in Files, ReadMetadata(f) PROVE pc'[d] = pc[d]
  BY <1>12 DEF TInv, TypeOK, ReadMetadata
<1>13. ASSUME NEW f \in Files, SetAvailable(f) PROVE pc'[d] = pc[d]
  BY <1>13 DEF TInv, TypeOK, SetAvailable
<1>14. ASSUME NEW t \in Tasks, ReadAgain(t) PROVE pc'[d] = pc[d]
  BY <1>14 DEF TInv, TypeOK, ReadAgain
<1>15. ASSUME NEW t \in Tasks, CountMedia(t) PROVE pc'[d] = pc[d]
  BY <1>15 DEF TInv, TypeOK, CountMedia
<1>16. ASSUME NEW t \in Tasks, StoreState(t) PROVE pc'[d] = pc[d]
  BY <1>16 DEF TInv, TypeOK, StoreState
<1>17. ASSUME NEW t \in Tasks, ClearError(t) PROVE pc'[d] = pc[d]
  BY <1>17 DEF TInv, TypeOK, ClearError
<1>18. ASSUME NEW t \in Tasks, VersionError(t) PROVE pc'[d] = pc[d]
  BY <1>18 DEF TInv, TypeOK, VersionError
<1>19. ASSUME NEW t \in Tasks, ReadToSend(t) PROVE pc'[d] = pc[d]
  BY <1>19 DEF TInv, TypeOK, ReadToSend
<1>20. ASSUME NEW t \in Tasks, CheckSendable(t) PROVE pc'[d] = pc[d]
  BY <1>20 DEF TInv, TypeOK, CheckSendable
<1>21. ASSUME NEW t \in Tasks, MarkSent(t) PROVE pc'[d] = pc[d]
  BY <1>21 DEF TInv, TypeOK, MarkSent
<1>22. ASSUME NEW ok \in BOOLEAN, Report(ok) PROVE pc'[d] = pc[d]
  BY <1>22 DEF TInv, TypeOK, Report
<1>23. ASSUME UNCHANGED vars PROVE pc'[d] = pc[d]
  BY <1>23 DEF TInv, TypeOK, vars
<1>24. QED
  BY <1>1, <1>2, <1>3, <1>4, <1>5, <1>6, <1>7, <1>8, <1>9, <1>10, <1>11, <1>12, <1>13, <1>14, <1>15,
     <1>16, <1>17, <1>18, <1>19, <1>20, <1>21, <1>22, <1>23
     DEF Next, Editor, Committing, Storing

\* Once no edit is busy, a metadata that is stored as online misses no file.  A commit
\* that holds a metadata online, or without the error it had, finds it online; one that
\* misses a file does not take the metadata off line.
OnlineInv ==
    /\ doc # Nil /\ doc.storage = "online" /\ (\A e \in Edits : ~Busy(e)) =>
          available(doc.files)
    /\ \A f \in Files :
          /\ pc[f] \in {"setting", "saved", "counting", "storing", "clearing"} =>
                (copy[f].storage = "online" => doc.storage = "online")
          /\ pc[f] \in {"setting", "saved", "counting"} =>
                (copy[f].error /\ ~doc.error => doc.storage = "online")
          /\ pc[f] = "counting" =>
                (copy[f].error /\ ~list[f].error => doc.storage = "online")
          /\ pc[f] \in {"storing", "clearing"} =>
                (~full[f] => copy[f].storage = "pending")

\* A handler that is about to send found no file missing, and nothing stops it but a
\* save that is forestalled.
SendInv ==
    \A t \in Tasks :
       /\ pc[t] \in {"sending", "loading", "marking"} =>
             full[t] /\ doc.storage = "online"
       /\ pc[t] \in {"loading", "marking"} =>
             copy[t].files = doc.files /\ copy[t].storage = "online"
       /\ full[t] /\ pc[t] = "done" => list[t].files \in sent

LEMMA OnlineInit == Init => OnlineInv
BY DEF Init, OnlineInv, Tasks

LEMMA SendInit == Init => SendInv
BY DEF Init, SendInv, Tasks

\* When a handler saves the storage status, the metadata stays online if a commit saves
\* it, is online if no file was missing, and not online otherwise unless it was so.
LEMMA StateStored ==
    ASSUME TInv, AloneInv, EditInv, OnlineInv, NEW t \in Tasks,
           StoreState(t) \/ ClearError(t)
    PROVE  /\ t \in Files /\ doc.storage = "online" => doc'.storage = "online"
           /\ t \in Files /\ doc'.storage = "online" => full[t] \/ doc.storage = "online"
           /\ t \in Edits /\ doc'.storage = "online" => full[t]
           /\ full[t] => doc'.storage = "online" /\ available(doc.files)
           /\ t \in Edits => \A f \in Files : pc[f] \in Over
           /\ t \in Files => \A e \in Edits : ~Busy(e)
<1>1. pc[t] \in {"storing", "clearing"}
  BY DEF StoreState, ClearError
<1>2. /\ t \in Edits => copy[t].storage = doc.storage
      /\ full[t] => available(doc.files)
  BY <1>1 DEF EditInv
<1>3. t \in Files => /\ copy[t].storage = "online" => doc.storage = "online"
                     /\ ~full[t] => copy[t].storage = "pending"
  BY <1>1 DEF OnlineInv
<1>4. doc'.storage = IF storageOf(full[t]) # copy[t].storage THEN storageOf(full[t])
                     ELSE doc.storage
  BY StorageEffect
<1>5. /\ t \in Edits => \A f \in Files : pc[f] \in Over
      /\ t \in Files => \A e \in Edits : ~Busy(e)
  BY <1>1, ConstantsAssumption DEF AloneInv, Busy, Tasks, Over
<1>6. QED
  BY <1>2, <1>3, <1>4, <1>5 DEF storageOf, Tasks

LEMMA OnlineStep ==
    ASSUME "overlap" \notin Faults, TInv, TInv', AloneInv, EditInv, Sound, Sound',
           OnlineInv, SendInv, [Next]_vars
    PROVE  OnlineInv'
<1> USE ConstantsAssumption DEF form, handler, portal, goto, Tasks, Over
<1>1. ASSUME NEW e \in Edits, NEW new \in SUBSET Files, Fill(e, new) PROVE OnlineInv'
  BY <1>1 DEF TInv, TypeOK, AloneInv, Busy, OnlineInv, SendInv, available, Fill
<1>2. ASSUME NEW e \in Edits, NEW kept \in SUBSET Files, NEW new \in SUBSET Files,
             Open(e, kept, new)
      PROVE  OnlineInv'
  BY <1>2 DEF TInv, TypeOK, AloneInv, Busy, OnlineInv, SendInv, available, Open
<1>3. ASSUME NEW e \in Edits, Submit(e) PROVE OnlineInv'
  BY <1>3 DEF TInv, TypeOK, AloneInv, Busy, OnlineInv, SendInv, available, Submit
<1>4. ASSUME NEW e \in Edits, NEW f \in Files, WriteMedia(e, f) PROVE OnlineInv'
  BY <1>4 DEF TInv, TypeOK, AloneInv, Busy, OnlineInv, SendInv, available, WriteMedia
<1>5. ASSUME NEW e \in Edits, InsertMetadata(e) PROVE OnlineInv'
  BY <1>5 DEF TInv, TypeOK, AloneInv, Busy, OnlineInv, SendInv, available, InsertMetadata
<1>6. ASSUME NEW e \in Edits, OverwriteMetadata(e) PROVE OnlineInv'
  <2>1. Busy(e) /\ Busy(e)'
    BY <1>6 DEF TInv, TypeOK, OverwriteMetadata, Busy
  <2>2. \A f \in Files : pc'[f] \in Over
    BY <1>6, <2>1 DEF TInv, TypeOK, OverwriteMetadata, AloneInv
  <2>3. QED
    BY <2>1, <2>2 DEF OnlineInv
<1>7. ASSUME NEW e \in Edits, SaveOverwritten(e) PROVE OnlineInv'
  <2>1. Busy(e) /\ Busy(e)'
    BY <1>7 DEF TInv, TypeOK, SaveOverwritten, Busy
  <2>2. \A f \in Files : pc'[f] \in Over
    BY <1>7, <2>1 DEF TInv, TypeOK, SaveOverwritten, AloneInv
  <2>3. QED
    BY <2>1, <2>2 DEF OnlineInv
<1>8. ASSUME NEW e \in Edits, NEW f \in Files, Upload(e, f) PROVE OnlineInv'
  BY <1>8
     DEF TInv, TypeOK, AloneInv, Busy, OnlineInv, SendInv, available, Upload, Promise!Stage,
         Promise!Expire, Promise!Commit, Promise!Move, Promise!Phases
<1>9. ASSUME NEW f \in Files, Expire(f) PROVE OnlineInv'
  BY <1>9
     DEF TInv, TypeOK, AloneInv, Busy, OnlineInv, SendInv, available, Expire, Promise!Stage,
         Promise!Expire, Promise!Commit, Promise!Move, Promise!Phases
<1>10. ASSUME NEW f \in Files, CommitOnMedia(f) PROVE OnlineInv'
  BY <1>10
     DEF TInv, TypeOK, AloneInv, Busy, OnlineInv, SendInv, available, CommitOnMedia, Promise!Stage,
         Promise!Expire, Promise!Commit, Promise!Move, Promise!Phases
<1>11. ASSUME NEW f \in Files, ReadMedia(f) PROVE OnlineInv'
  BY <1>11 DEF TInv, TypeOK, AloneInv, Busy, OnlineInv, SendInv, available, ReadMedia
<1>12. ASSUME NEW f \in Files, ReadMetadata(f) PROVE OnlineInv'
  BY <1>12 DEF TInv, TypeOK, AloneInv, Busy, OnlineInv, SendInv, available, ReadMetadata
<1>13. ASSUME NEW f \in Files, SetAvailable(f) PROVE OnlineInv'
  BY <1>13 DEF TInv, TypeOK, AloneInv, Busy, OnlineInv, SendInv, available, SetAvailable
<1>14. ASSUME NEW t \in Tasks, ReadAgain(t) PROVE OnlineInv'
  BY <1>14 DEF TInv, TypeOK, AloneInv, Busy, OnlineInv, SendInv, available, ReadAgain
<1>15. ASSUME NEW t \in Tasks, CountMedia(t) PROVE OnlineInv'
  <2>1. /\ UNCHANGED <<doc, media, copy, list>>
        /\ \A u \in Tasks : u # t => pc'[u] = pc[u] /\ full'[u] = full[u]
        /\ pc[t] = "counting" /\ list[t].files = doc.files
    BY <1>15 DEF TInv, TypeOK, CountMedia, EditInv
  <2>2. full'[t] <=> available(doc.files)
    BY <1>15, <2>1 DEF TInv, TypeOK, CountMedia
  <2>3. \/ /\ pc'[t] = "storing"
           /\ copy[t].storage # storageOf(full'[t]) /\ ~copy[t].error
        \/ /\ pc'[t] = "clearing" /\ list[t].error
           /\ copy[t].storage = storageOf(full'[t]) \/ copy[t].error
        \/ /\ pc'[t] = (IF full'[t] THEN "sending" ELSE "done") /\ ~list[t].error
           /\ copy[t].storage = storageOf(full'[t]) \/ copy[t].error
    BY <1>15 DEF TInv, TypeOK, CountMedia, afterState
  <2>4. CASE t \in Edits
    <3>1. \A f \in Files : pc'[f] \in Over
      BY <2>1, <2>4 DEF AloneInv, Busy
    <3>2. /\ copy[t].storage = doc.storage
          /\ copy[t].error => list[t].error
      BY <2>1, <2>4 DEF EditInv
    <3>3. (doc # Nil /\ doc.storage = "online" /\ (\A e \in Edits : ~Busy(e)) =>
             available(doc.files))'
      BY <2>1, <2>2, <2>3, <2>4, <3>2 DEF Busy, storageOf, available
    <3>4. QED
      BY <3>1, <3>3 DEF OnlineInv
  <2>5. CASE t \in Files
    <3>1. doc \in Doc /\ copy[t] \in Doc /\ list[t] \in Doc
      BY <2>1, <2>5 DEF TInv, HeldOK
    <3>2. \A e \in Edits : ~Busy(e) /\ ~Busy(e)'
      BY <2>1, <2>5 DEF AloneInv, Busy
    <3>3. doc.storage = "online" => available(doc.files)
      BY <3>1, <3>2, NilAssumption DEF OnlineInv
    <3>4. pc'[t] \in {"storing", "clearing"} /\ ~full'[t] => copy[t].storage = "pending"
      BY <2>1, <2>2, <2>3, <2>5, <3>1, <3>3 DEF OnlineInv, storageOf, Doc
    <3>5. (doc # Nil /\ doc.storage = "online" /\ (\A e \in Edits : ~Busy(e)) =>
             available(doc.files))'
      BY <2>1, <3>3 DEF available
    <3>6. QED
      BY <2>1, <2>3, <2>5, <3>4, <3>5 DEF OnlineInv
  <2>6. QED
    BY <2>4, <2>5
<1>16. ASSUME NEW t \in Tasks, StoreState(t) PROVE OnlineInv'
  <2>1. /\ doc'.files = doc.files /\ doc'.error = doc.error /\ doc' \in Doc /\ doc \in Doc
        /\ copy'[t].storage = storageOf(full[t]) /\ copy'[t].error = copy[t].error
        /\ \A u \in Tasks : u # t => copy'[u] = copy[u]
    BY <1>16, StorageEffect
  <2>2. /\ UNCHANGED <<media, list, full>> /\ pc[t] \in {"storing", "clearing"}
        /\ \A u \in Tasks : u # t => pc'[u] = pc[u]
        /\ pc'[t] \in {"clearing", "sending", "done"}
    BY <1>16 DEF TInv, TypeOK, StoreState, afterState
  <2>3. CASE t \in Edits
    <3>1. \A f \in Files : pc'[f] \in Over
      BY <1>16, <2>2, <2>3, StateStored
    <3>2. doc'.storage = "online" => available(doc.files)
      BY <1>16, <2>3, StateStored
    <3>3. QED
      BY <2>1, <2>2, <3>1, <3>2 DEF OnlineInv, available
  <2>4. CASE t \in Files
    <3>1. doc.storage = "online" => doc'.storage = "online"
      BY <1>16, <2>4, StateStored
    <3>2. doc'.storage = "online" => available(doc.files)
      <4>1. \A e \in Edits : ~Busy(e)
        BY <1>16, <2>4, StateStored
      <4>2. doc # Nil /\ doc.storage = "online" => available(doc.files)
        BY <4>1 DEF OnlineInv
      <4>3. doc # Nil
        BY <2>1, NilAssumption
      <4>4. QED
        BY <1>16, <2>4, <4>2, <4>3, StateStored
    <3>3. full[t] => doc'.storage = "online"
      BY <1>16, StateStored
    <3>4. (doc # Nil /\ doc.storage = "online" /\ (\A e \in Edits : ~Busy(e)) =>
             available(doc.files))'
      BY <2>1, <2>2, <3>2 DEF available
    <3>5. ASSUME NEW f \in Files, f # t
          PROVE  /\ pc'[f] = pc[f] /\ full'[f] = full[f] /\ list'[f] = list[f]
                 /\ copy'[f] = copy[f]
      BY <2>1, <2>2, <3>5
    <3>6. QED
      BY <2>1, <2>2, <3>1, <3>3, <3>4, <3>5 DEF OnlineInv, storageOf
  <2>5. QED
    BY <2>3, <2>4
<1>17. ASSUME NEW t \in Tasks, ClearError(t) PROVE OnlineInv'
  <2>1. /\ doc'.files = doc.files /\ doc'.error = doc.error /\ doc' \in Doc /\ doc \in Doc
        /\ copy'[t].storage = storageOf(full[t]) /\ copy'[t].error = copy[t].error
        /\ \A u \in Tasks : u # t => copy'[u] = copy[u]
    BY <1>17, StorageEffect
  <2>2. /\ UNCHANGED <<media, list, full>> /\ pc[t] \in {"storing", "clearing"}
        /\ \A u \in Tasks : u # t => pc'[u] = pc[u]
        /\ pc'[t] \in {"clearing", "sending", "done"}
    BY <1>17 DEF TInv, TypeOK, ClearError, afterState
  <2>3. CASE t \in Edits
    <3>1. \A f \in Files : pc'[f] \in Over
      BY <1>17, <2>2, <2>3, StateStored
    <3>2. doc'.storage = "online" => available(doc.files)
      BY <1>17, <2>3, StateStored
    <3>3. QED
      BY <2>1, <2>2, <3>1, <3>2 DEF OnlineInv, available
  <2>4. CASE t \in Files
    <3>1. doc.storage = "online" => doc'.storage = "online"
      BY <1>17, <2>4, StateStored
    <3>2. doc'.storage = "online" => available(doc.files)
      <4>1. \A e \in Edits : ~Busy(e)
        BY <1>17, <2>4, StateStored
      <4>2. doc # Nil /\ doc.storage = "online" => available(doc.files)
        BY <4>1 DEF OnlineInv
      <4>3. doc # Nil
        BY <2>1, NilAssumption
      <4>4. QED
        BY <1>17, <2>4, <4>2, <4>3, StateStored
    <3>3. full[t] => doc'.storage = "online"
      BY <1>17, StateStored
    <3>4. (doc # Nil /\ doc.storage = "online" /\ (\A e \in Edits : ~Busy(e)) =>
             available(doc.files))'
      BY <2>1, <2>2, <3>2 DEF available
    <3>5. ASSUME NEW f \in Files, f # t
          PROVE  /\ pc'[f] = pc[f] /\ full'[f] = full[f] /\ list'[f] = list[f]
                 /\ copy'[f] = copy[f]
      BY <2>1, <2>2, <3>5
    <3>6. QED
      BY <2>1, <2>2, <3>1, <3>3, <3>4, <3>5 DEF OnlineInv, storageOf
  <2>5. QED
    BY <2>3, <2>4
<1>18. ASSUME NEW t \in Tasks, VersionError(t) PROVE OnlineInv'
  BY <1>18
     DEF TInv, TypeOK, AloneInv, Busy, OnlineInv, SendInv, available, VersionError, Sound, Failed
<1>19. ASSUME NEW t \in Tasks, ReadToSend(t) PROVE OnlineInv'
  BY <1>19 DEF TInv, TypeOK, AloneInv, Busy, OnlineInv, SendInv, available, ReadToSend
<1>20. ASSUME NEW t \in Tasks, CheckSendable(t) PROVE OnlineInv'
  BY <1>20 DEF TInv, TypeOK, AloneInv, Busy, OnlineInv, SendInv, available, CheckSendable, EditInv
<1>21. ASSUME NEW t \in Tasks, MarkSent(t) PROVE OnlineInv'
  <2>1. /\ doc' \in Doc /\ doc.storage = "online"
        /\ doc'.files = doc.files /\ doc'.storage = doc.storage
        /\ \A u \in Tasks : u # t => copy'[u] = copy[u]
    BY <1>21, SentEffect DEF SendInv, MarkSent
  <2>2. /\ UNCHANGED <<media, list, full>> /\ pc[t] = "marking" /\ pc'[t] = "done"
        /\ \A u \in Tasks : u # t => pc'[u] = pc[u]
    BY <1>21 DEF TInv, TypeOK, MarkSent
  <2>3. doc # Nil /\ (\A e \in Edits : Busy(e)' = Busy(e))
    <3>1. doc # Nil
      BY <1>21, SentEffect, NilAssumption
    <3>2. QED
      BY <2>2, <3>1 DEF Busy
  <2>4. (doc # Nil /\ doc.storage = "online" /\ (\A e \in Edits : ~Busy(e)) =>
             available(doc.files))'
    BY <2>1, <2>2, <2>3 DEF OnlineInv, available
  <2>5. QED
    BY <2>1, <2>2, <2>4 DEF OnlineInv
<1>22. ASSUME NEW ok \in BOOLEAN, Report(ok) PROVE OnlineInv'
  <2>1. /\ doc \in Doc /\ doc' \in Doc /\ doc'.files = doc.files
        /\ doc'.storage = doc.storage /\ (doc.error => doc'.error)
    BY <1>22, ReportEffect
  <2>2. UNCHANGED <<media, pc, copy, list, full>>
    BY <1>22 DEF Report
  <2>3. doc # Nil
    BY <2>1, NilAssumption
  <2>4. (doc # Nil /\ doc.storage = "online" /\ (\A e \in Edits : ~Busy(e)) =>
             available(doc.files))'
    BY <2>1, <2>2, <2>3 DEF OnlineInv, available, Busy
  <2>5. QED
    BY <2>1, <2>2, <2>4 DEF OnlineInv
<1>23. ASSUME UNCHANGED vars PROVE OnlineInv'
  BY <1>23 DEF vars, OnlineInv, SendInv, available, Busy
<1>24. QED
  BY <1>1, <1>2, <1>3, <1>4, <1>5, <1>6, <1>7, <1>8, <1>9, <1>10, <1>11, <1>12, <1>13, <1>14, <1>15,
     <1>16, <1>17, <1>18, <1>19, <1>20, <1>21, <1>22, <1>23
     DEF Next, Editor, Committing, Storing

LEMMA SendStep ==
    ASSUME "overlap" \notin Faults, TInv, TInv', AloneInv, EditInv, Sound, Sound',
           OnlineInv, SendInv, [Next]_vars
    PROVE  SendInv'
<1> USE ConstantsAssumption DEF form, handler, portal, goto, Tasks, Over
<1>1. ASSUME NEW e \in Edits, NEW new \in SUBSET Files, Fill(e, new) PROVE SendInv'
  BY <1>1 DEF TInv, TypeOK, AloneInv, Busy, OnlineInv, SendInv, available, Fill
<1>2. ASSUME NEW e \in Edits, NEW kept \in SUBSET Files, NEW new \in SUBSET Files,
             Open(e, kept, new)
      PROVE  SendInv'
  BY <1>2 DEF TInv, TypeOK, AloneInv, Busy, OnlineInv, SendInv, available, Open
<1>3. ASSUME NEW e \in Edits, Submit(e) PROVE SendInv'
  BY <1>3 DEF TInv, TypeOK, AloneInv, Busy, OnlineInv, SendInv, available, Submit
<1>4. ASSUME NEW e \in Edits, NEW f \in Files, WriteMedia(e, f) PROVE SendInv'
  BY <1>4 DEF TInv, TypeOK, AloneInv, Busy, OnlineInv, SendInv, available, WriteMedia
<1>5. ASSUME NEW e \in Edits, InsertMetadata(e) PROVE SendInv'
  BY <1>5 DEF TInv, TypeOK, AloneInv, Busy, OnlineInv, SendInv, available, InsertMetadata
<1>6. ASSUME NEW e \in Edits, OverwriteMetadata(e) PROVE SendInv'
  BY <1>6 DEF TInv, TypeOK, AloneInv, Busy, OnlineInv, SendInv, available, OverwriteMetadata
<1>7. ASSUME NEW e \in Edits, SaveOverwritten(e) PROVE SendInv'
  BY <1>7, OverwrittenEffect
     DEF TInv, TypeOK, AloneInv, Busy, OnlineInv, SendInv, available, SaveOverwritten
<1>8. ASSUME NEW e \in Edits, NEW f \in Files, Upload(e, f) PROVE SendInv'
  BY <1>8
     DEF TInv, TypeOK, AloneInv, Busy, OnlineInv, SendInv, available, Upload, Promise!Stage,
         Promise!Expire, Promise!Commit, Promise!Move, Promise!Phases
<1>9. ASSUME NEW f \in Files, Expire(f) PROVE SendInv'
  BY <1>9
     DEF TInv, TypeOK, AloneInv, Busy, OnlineInv, SendInv, available, Expire, Promise!Stage,
         Promise!Expire, Promise!Commit, Promise!Move, Promise!Phases
<1>10. ASSUME NEW f \in Files, CommitOnMedia(f) PROVE SendInv'
  BY <1>10
     DEF TInv, TypeOK, AloneInv, Busy, OnlineInv, SendInv, available, CommitOnMedia, Promise!Stage,
         Promise!Expire, Promise!Commit, Promise!Move, Promise!Phases
<1>11. ASSUME NEW f \in Files, ReadMedia(f) PROVE SendInv'
  BY <1>11 DEF TInv, TypeOK, AloneInv, Busy, OnlineInv, SendInv, available, ReadMedia
<1>12. ASSUME NEW f \in Files, ReadMetadata(f) PROVE SendInv'
  BY <1>12 DEF TInv, TypeOK, AloneInv, Busy, OnlineInv, SendInv, available, ReadMetadata
<1>13. ASSUME NEW f \in Files, SetAvailable(f) PROVE SendInv'
  BY <1>13 DEF TInv, TypeOK, AloneInv, Busy, OnlineInv, SendInv, available, SetAvailable
<1>14. ASSUME NEW t \in Tasks, ReadAgain(t) PROVE SendInv'
  BY <1>14 DEF TInv, TypeOK, AloneInv, Busy, OnlineInv, SendInv, available, ReadAgain
<1>15. ASSUME NEW t \in Tasks, CountMedia(t) PROVE SendInv'
  <2>1. /\ UNCHANGED <<doc, media, copy, list>>
        /\ \A u \in Tasks : u # t => pc'[u] = pc[u] /\ full'[u] = full[u]
        /\ pc[t] = "counting" /\ list[t].files = doc.files
    BY <1>15 DEF TInv, TypeOK, CountMedia, EditInv
  <2>2. full'[t] <=> available(doc.files)
    BY <1>15, <2>1 DEF TInv, TypeOK, CountMedia
  <2>3. \/ /\ pc'[t] = "storing"
           /\ copy[t].storage # storageOf(full'[t]) /\ ~copy[t].error
        \/ /\ pc'[t] = "clearing" /\ list[t].error
           /\ copy[t].storage = storageOf(full'[t]) \/ copy[t].error
        \/ /\ pc'[t] = (IF full'[t] THEN "sending" ELSE "done") /\ ~list[t].error
           /\ copy[t].storage = storageOf(full'[t]) \/ copy[t].error
    BY <1>15 DEF TInv, TypeOK, CountMedia, afterState
  <2>4. doc \in Doc /\ copy[t] \in Doc /\ list[t] \in Doc
    BY <2>1, ConstantsAssumption DEF TInv, HeldOK
  <2>5. pc'[t] = "sending" => doc.storage = "online"
    <3>1. CASE t \in Edits
      BY <2>1, <2>3, <3>1 DEF EditInv, storageOf
    <3>2. CASE t \in Files
      BY <2>1, <2>3, <2>4, <3>2 DEF OnlineInv, storageOf, Doc
    <3>3. QED
      BY <3>1, <3>2
  <2>6. sent' = sent
    BY <1>15 DEF CountMedia
  <2>7. QED
    BY <2>1, <2>3, <2>5, <2>6 DEF SendInv
<1>16. ASSUME NEW t \in Tasks, StoreState(t) PROVE SendInv'
  <2>1. /\ doc'.files = doc.files
        /\ \A u \in Tasks : u # t => copy'[u] = copy[u]
    BY <1>16, StorageEffect
  <2>2. /\ UNCHANGED <<list, full, sent>> /\ pc[t] \in {"storing", "clearing"}
        /\ \A u \in Tasks : u # t => pc'[u] = pc[u]
        /\ pc'[t] = "clearing" \/ pc'[t] = (IF full[t] THEN "sending" ELSE "done")
    BY <1>16 DEF TInv, TypeOK, StoreState, afterState
  <2>3. full[t] => doc'.storage = "online"
    BY <1>16, StateStored
  <2>4. ASSUME NEW u \in Tasks, u # t, pc[u] \in {"sending", "loading", "marking"}
        PROVE  doc'.storage = "online"
    <3>1. t \in Files
      BY <2>2, <2>4 DEF AloneInv, Busy
    <3>2. QED
      BY <1>16, <2>4, <3>1, StateStored DEF SendInv
  <2>5. QED
    BY <2>1, <2>2, <2>3, <2>4 DEF SendInv
<1>17. ASSUME NEW t \in Tasks, ClearError(t) PROVE SendInv'
  <2>1. /\ doc'.files = doc.files
        /\ \A u \in Tasks : u # t => copy'[u] = copy[u]
    BY <1>17, StorageEffect
  <2>2. /\ UNCHANGED <<list, full, sent>> /\ pc[t] \in {"storing", "clearing"}
        /\ \A u \in Tasks : u # t => pc'[u] = pc[u]
        /\ pc'[t] = "clearing" \/ pc'[t] = (IF full[t] THEN "sending" ELSE "done")
    BY <1>17 DEF TInv, TypeOK, ClearError, afterState
  <2>3. full[t] => doc'.storage = "online"
    BY <1>17, StateStored
  <2>4. ASSUME NEW u \in Tasks, u # t, pc[u] \in {"sending", "loading", "marking"}
        PROVE  doc'.storage = "online"
    <3>1. t \in Files
      BY <2>2, <2>4 DEF AloneInv, Busy
    <3>2. QED
      BY <1>17, <2>4, <3>1, StateStored DEF SendInv
  <2>5. QED
    BY <2>1, <2>2, <2>3, <2>4 DEF SendInv
<1>18. ASSUME NEW t \in Tasks, VersionError(t) PROVE SendInv'
  BY <1>18
     DEF TInv, TypeOK, AloneInv, Busy, OnlineInv, SendInv, available, VersionError, Sound, Failed
<1>19. ASSUME NEW t \in Tasks, ReadToSend(t) PROVE SendInv'
  BY <1>19 DEF TInv, TypeOK, AloneInv, Busy, OnlineInv, SendInv, available, ReadToSend
<1>20. ASSUME NEW t \in Tasks, CheckSendable(t) PROVE SendInv'
  BY <1>20 DEF TInv, TypeOK, AloneInv, Busy, OnlineInv, SendInv, available, CheckSendable, EditInv
<1>21. ASSUME NEW t \in Tasks, MarkSent(t) PROVE SendInv'
  <2>1. /\ doc'.files = doc.files /\ doc'.storage = doc.storage
        /\ \A u \in Tasks : u # t => copy'[u] = copy[u]
    BY <1>21, SentEffect
  <2>2. /\ UNCHANGED <<list, full>> /\ pc[t] = "marking" /\ pc'[t] = "done"
        /\ \A u \in Tasks : u # t => pc'[u] = pc[u]
        /\ sent' = sent \cup {copy[t].files}
    BY <1>21 DEF TInv, TypeOK, MarkSent
  <2>3. copy[t].files = list[t].files
    BY <2>2 DEF SendInv, EditInv
  <2>4. QED
    BY <2>1, <2>2, <2>3 DEF SendInv
<1>22. ASSUME NEW ok \in BOOLEAN, Report(ok) PROVE SendInv'
  BY <1>22, ReportEffect DEF TInv, TypeOK, AloneInv, Busy, OnlineInv, SendInv, available, Report
<1>23. ASSUME UNCHANGED vars PROVE SendInv'
  BY <1>23 DEF vars, OnlineInv, SendInv, available, Busy
<1>24. QED
  BY <1>1, <1>2, <1>3, <1>4, <1>5, <1>6, <1>7, <1>8, <1>9, <1>10, <1>11, <1>12, <1>13, <1>14, <1>15,
     <1>16, <1>17, <1>18, <1>19, <1>20, <1>21, <1>22, <1>23
     DEF Next, Editor, Committing, Storing

\* When no file of the metadata is missing, a handler found it, or a commit that has set
\* its file available is still to count, or an edit is.
FoundInv ==
    doc # Nil /\ available(doc.files) /\ (\A e \in Edits : ~Before(e)) =>
        \/ Finders # {}
        \/ \E f \in Files : pc[f] \in {"saved", "counting"}

LEMMA FoundInit == Init => FoundInv
BY DEF Init, FoundInv

\* A step that leaves alone the metadata, the statuses and what was found.
LEMMA FoundKept ==
    ASSUME FoundInv, UNCHANGED <<media, list, full>>, doc # Nil,
           doc'.files = doc.files,
           \A e \in Edits : Before(e) => Before(e)',
           \A f \in Files : pc[f] \in {"saved", "counting"} => pc'[f] = pc[f]
    PROVE  FoundInv'
BY DEF FoundInv, Finders, available

LEMMA FoundStep ==
    ASSUME "overlap" \notin Faults, TInv, TInv', AloneInv, EditInv, Sound', FoundInv, [Next]_vars
    PROVE  FoundInv'
<1> USE ConstantsAssumption, NilAssumption DEF form, handler, portal, goto, Tasks
<1>1. ASSUME NEW e \in Edits, NEW new \in SUBSET Files, Fill(e, new) PROVE FoundInv'
  BY <1>1 DEF TInv, TypeOK, FoundInv, Finders, Before, available, Fill
<1>2. ASSUME NEW e \in Edits, NEW kept \in SUBSET Files, NEW new \in SUBSET Files,
             Open(e, kept, new)
      PROVE  FoundInv'
  BY <1>2 DEF TInv, TypeOK, FoundInv, Finders, Before, available, Open
<1>3. ASSUME NEW e \in Edits, Submit(e) PROVE FoundInv'
  BY <1>3 DEF TInv, TypeOK, FoundInv, Finders, Before, available, Submit
<1>4. ASSUME NEW e \in Edits, NEW f \in Files, WriteMedia(e, f) PROVE FoundInv'
  BY <1>4 DEF TInv, TypeOK, FoundInv, Finders, Before, available, WriteMedia
<1>5. ASSUME NEW e \in Edits, InsertMetadata(e) PROVE FoundInv'
  BY <1>5 DEF TInv, TypeOK, FoundInv, Finders, Before, available, InsertMetadata
<1>6. ASSUME NEW e \in Edits, OverwriteMetadata(e) PROVE FoundInv'
  BY <1>6 DEF TInv, TypeOK, FoundInv, Finders, Before, available, OverwriteMetadata
<1>7. ASSUME NEW e \in Edits, SaveOverwritten(e) PROVE FoundInv'
  BY <1>7 DEF TInv, TypeOK, FoundInv, Finders, Before, available, SaveOverwritten
<1>8. ASSUME NEW e \in Edits, NEW f \in Files, Upload(e, f) PROVE FoundInv'
  BY <1>8
     DEF TInv, TypeOK, FoundInv, Finders, Before, available, Upload, Promise!Stage, Promise!Expire,
         Promise!Commit, Promise!Move, Promise!Phases
<1>9. ASSUME NEW f \in Files, Expire(f) PROVE FoundInv'
  BY <1>9
     DEF TInv, TypeOK, FoundInv, Finders, Before, available, Expire, Promise!Stage, Promise!Expire,
         Promise!Commit, Promise!Move, Promise!Phases
<1>10. ASSUME NEW f \in Files, CommitOnMedia(f) PROVE FoundInv'
  BY <1>10
     DEF TInv, TypeOK, FoundInv, Finders, Before, available, CommitOnMedia, Promise!Stage,
         Promise!Expire, Promise!Commit, Promise!Move, Promise!Phases, HeldOK
<1>11. ASSUME NEW f \in Files, ReadMedia(f) PROVE FoundInv'
  BY <1>11 DEF TInv, TypeOK, FoundInv, Finders, Before, available, ReadMedia
<1>12. ASSUME NEW f \in Files, ReadMetadata(f) PROVE FoundInv'
  BY <1>12 DEF TInv, TypeOK, FoundInv, Finders, Before, available, ReadMetadata
<1>13. ASSUME NEW f \in Files, SetAvailable(f) PROVE FoundInv'
  BY <1>13 DEF TInv, TypeOK, FoundInv, Finders, Before, available, SetAvailable, HeldOK
<1>14. ASSUME NEW t \in Tasks, ReadAgain(t) PROVE FoundInv'
  BY <1>14 DEF TInv, TypeOK, FoundInv, Finders, Before, available, ReadAgain, AloneInv
<1>15. ASSUME NEW t \in Tasks, CountMedia(t) PROVE FoundInv'
  <2>1. /\ UNCHANGED <<doc, media, copy, list>>
        /\ \A u \in Tasks : u # t => pc'[u] = pc[u] /\ full'[u] = full[u]
        /\ pc[t] = "counting" /\ list[t].files = doc.files
    BY <1>15 DEF TInv, TypeOK, CountMedia, EditInv
  <2>2. full'[t] <=> available(doc.files)
    BY <1>15, <2>1 DEF TInv, TypeOK, CountMedia
  <2>3. \/ /\ pc'[t] = "storing"
           /\ copy[t].storage # storageOf(full'[t]) /\ ~copy[t].error
        \/ /\ pc'[t] = "clearing" /\ list[t].error
           /\ copy[t].storage = storageOf(full'[t]) \/ copy[t].error
        \/ /\ pc'[t] = (IF full'[t] THEN "sending" ELSE "done") /\ ~list[t].error
           /\ copy[t].storage = storageOf(full'[t]) \/ copy[t].error
    BY <1>15 DEF TInv, TypeOK, CountMedia, afterState
  <2>4. ASSUME available(doc.files)' PROVE t \in Finders'
    BY <2>1, <2>2, <2>4 DEF Finders, available
  <2>5. QED
    BY <2>4 DEF FoundInv
<1>16. ASSUME NEW t \in Tasks, StoreState(t) PROVE FoundInv'
  <2>1. doc \in Doc /\ doc'.files = doc.files
    BY <1>16, StorageEffect
  <2>2. UNCHANGED <<media, list, full>>
    BY <1>16 DEF StoreState
  <2>3. /\ \A e \in Edits : Before(e) => Before(e)'
        /\ \A f \in Files : pc[f] \in {"saved", "counting"} => pc'[f] = pc[f]
    BY <1>16 DEF TInv, TypeOK, StoreState, Before
  <2>4. QED
    BY <2>1, <2>2, <2>3, FoundKept
<1>17. ASSUME NEW t \in Tasks, ClearError(t) PROVE FoundInv'
  <2>1. doc \in Doc /\ doc'.files = doc.files
    BY <1>17, StorageEffect
  <2>2. UNCHANGED <<media, list, full>>
    BY <1>17 DEF ClearError
  <2>3. /\ \A e \in Edits : Before(e) => Before(e)'
        /\ \A f \in Files : pc[f] \in {"saved", "counting"} => pc'[f] = pc[f]
    BY <1>17 DEF TInv, TypeOK, ClearError, Before
  <2>4. QED
    BY <2>1, <2>2, <2>3, FoundKept
<1>18. ASSUME NEW t \in Tasks, VersionError(t) PROVE FoundInv'
  BY <1>18 DEF TInv, TypeOK, FoundInv, Finders, Before, available, VersionError, Sound, Failed
<1>19. ASSUME NEW t \in Tasks, ReadToSend(t) PROVE FoundInv'
  BY <1>19 DEF TInv, TypeOK, FoundInv, Finders, Before, available, ReadToSend
<1>20. ASSUME NEW t \in Tasks, CheckSendable(t) PROVE FoundInv'
  BY <1>20 DEF TInv, TypeOK, FoundInv, Finders, Before, available, CheckSendable
<1>21. ASSUME NEW t \in Tasks, MarkSent(t) PROVE FoundInv'
  <2>1. doc \in Doc /\ doc'.files = doc.files
    BY <1>21, SentEffect
  <2>2. UNCHANGED <<media, list, full>>
    BY <1>21 DEF MarkSent
  <2>3. /\ \A e \in Edits : Before(e) => Before(e)'
        /\ \A f \in Files : pc[f] \in {"saved", "counting"} => pc'[f] = pc[f]
    BY <1>21 DEF TInv, TypeOK, MarkSent, Before
  <2>4. QED
    BY <2>1, <2>2, <2>3, FoundKept
<1>22. ASSUME NEW ok \in BOOLEAN, Report(ok) PROVE FoundInv'
  <2>1. doc \in Doc /\ doc'.files = doc.files
    BY <1>22, ReportEffect
  <2>2. UNCHANGED <<media, list, full>>
    BY <1>22 DEF Report
  <2>3. /\ \A e \in Edits : Before(e) => Before(e)'
        /\ \A f \in Files : pc[f] \in {"saved", "counting"} => pc'[f] = pc[f]
    BY <1>22 DEF TInv, TypeOK, Report, Before
  <2>4. QED
    BY <2>1, <2>2, <2>3, FoundKept
<1>23. ASSUME UNCHANGED vars PROVE FoundInv'
  BY <1>23 DEF FoundInv, Finders, Before, available, vars
<1>24. QED
  BY <1>1, <1>2, <1>3, <1>4, <1>5, <1>6, <1>7, <1>8, <1>9, <1>10, <1>11, <1>12, <1>13, <1>14, <1>15,
     <1>16, <1>17, <1>18, <1>19, <1>20, <1>21, <1>22, <1>23
     DEF Next, Editor, Committing, Storing

\* The inductive invariant of the last commit.
LastInv ==
    /\ TInv /\ AloneInv /\ EditInv
    /\ Sound => OnlineInv /\ SendInv /\ FoundInv

LEMMA LastInit == Init => LastInv
BY TypeInit, AloneInit, EditInit, OnlineInit, SendInit, FoundInit DEF LastInv

LEMMA LastStep == "overlap" \notin Faults /\ LastInv /\ [Next]_vars => LastInv'
<1> SUFFICES ASSUME "overlap" \notin Faults, LastInv, [Next]_vars PROVE LastInv'
  OBVIOUS
<1>1. TInv' /\ AloneInv'
  BY TypeStep, AloneStep DEF LastInv
<1>2. EditInv'
  BY <1>1, EditStep DEF LastInv
<1>3. ASSUME Sound' PROVE OnlineInv' /\ SendInv' /\ FoundInv'
  <2>1. Sound
    BY <1>3, SoundStep DEF LastInv
  <2>2. OnlineInv'
    BY <1>1, <1>3, <2>1, OnlineStep DEF LastInv
  <2>3. SendInv'
    BY <1>1, <1>3, <2>1, SendStep DEF LastInv
  <2>4. FoundInv'
    BY <1>1, <1>3, <2>1, FoundStep DEF LastInv
  <2>5. QED
    BY <2>2, <2>3, <2>4
<1>4. QED
  BY <1>1, <1>2, <1>3 DEF LastInv

LEMMA LastIsFound == LastInv => LastCommitSends
<1> SUFFICES ASSUME LastInv, doc # Nil, Quiet, available(doc.files), Edits \cap Failed = {}
             PROVE  Finders # {} /\ (doc.files \in sent \/ Finders \subseteq Failed)
  BY DEF LastCommitSends
<1>1. OnlineInv /\ SendInv /\ FoundInv
  BY DEF LastInv, Sound
<1>2. \A e \in Edits : ~Before(e)
  BY DEF Quiet, Over, Before, Tasks
<1>3. Finders # {}
  BY <1>1, <1>2 DEF FoundInv, Quiet, Over, Tasks
<1>4. ASSUME NEW t \in Finders, t \notin Failed PROVE doc.files \in sent
  <2>1. t \in Tasks /\ full[t] /\ list[t].files = doc.files
    BY DEF Finders
  <2>2. pc[t] = "done"
    BY <1>4, <2>1 DEF LastInv, AloneInv, Quiet, Over, Failed
  <2>3. QED
    BY <1>1, <2>1, <2>2 DEF SendInv
<1>5. QED
  BY <1>3, <1>4

\* As long as no edit is submitted while handlers run or files are on their way, the
\* commit that comes last finds that no file is missing, and the metadata has been sent
\* unless a save of those that found it was forestalled: stale forms, reports that come
\* meanwhile, files given up and commits that are lost included.
THEOREM LastCommitIsSent ==
    ASSUME "overlap" \notin Faults
    PROVE  Spec => []LastCommitSends
<1>1. Init => LastInv
  BY LastInit
<1>2. LastInv /\ [Next]_vars => LastInv'
  BY LastStep
<1>3. LastInv => LastCommitSends
  BY LastIsFound
<1>4. QED
  BY <1>1, <1>2, <1>3, PTL DEF Spec
=============================================================================
