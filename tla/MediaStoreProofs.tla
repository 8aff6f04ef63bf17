-------------------------- MODULE MediaStoreProofs --------------------------
(***************************************************************************)
(* Proofs about MediaStore, for any sets of requests and media, any mix of *)
(* modes and faults and any number of crashes.                             *)
(***************************************************************************)
EXTENDS MediaStore, TLAPS

(***************************************************************************)
(* Type correctness.                                                       *)
(***************************************************************************)

\* A request that was received has the fields of its kind.
LEMMA OpTypes ==
    ASSUME TypeOK, NEW r \in Requests, op[r] # Nil
    PROVE  /\ uuid(r) \in Media
           /\ op[r].kind \in {"direct", "append", "staged", "commit", "delete"}
           /\ op[r].kind = "commit" <=> op[r].suid \in Requests
           /\ entryOf(r) \in Requests
BY ConstantsAssumption DEF TypeOK, Op, PostOp, CommitOp, DeleteOp, uuid, entryOf

\* The files stay files when one is opened, filled, or left by a stop.
LEMMA FileTypes ==
    ASSUME TypeOK, NEW r \in Requests, op[r] # Nil
    PROVE  /\ opens(r) \in Requests
           /\ WriteOpens(r) => /\ final' \in [Media -> File] /\ staged' \in [Media -> File]
                              /\ data' \in [Requests -> SUBSET Requests]
                              /\ fd' \in [Requests -> File]
           /\ \A contents : (fill(r, contents)
                              /\ (fd[r] \in Requests => contents \subseteq SUBSET Requests))
                                => /\ data' \in [Requests -> SUBSET Requests]
                                   /\ fd' \in [Requests -> File]
           /\ fd[r] \in Requests => /\ Whole(r, data[fd[r]]) \subseteq SUBSET Requests
                                    /\ Partial(r, data[fd[r]]) \subseteq SUBSET Requests
<1>1. uuid(r) \in Media
  BY OpTypes
<1>2. opens(r) \in Requests
  BY <1>1 DEF opens, target, TypeOK, File
<1>3. WriteOpens(r) => /\ final' \in [Media -> File] /\ staged' \in [Media -> File]
                       /\ data' \in [Requests -> SUBSET Requests]
                       /\ fd' \in [Requests -> File]
  BY <1>1, <1>2 DEF WriteOpens, TypeOK, File
<1>4. ASSUME NEW contents, fill(r, contents),
             fd[r] \in Requests => contents \subseteq SUBSET Requests
      PROVE  data' \in [Requests -> SUBSET Requests] /\ fd' \in [Requests -> File]
  <2>1. PICK content \in contents : data' = [data EXCEPT ![fd[r]] = content]
    BY <1>4 DEF fill
  <2>2. fd[r] \in Requests => content \in SUBSET Requests
    BY <1>4, <2>1
  <2>3. data' \in [Requests -> SUBSET Requests]
    BY <2>1, <2>2 DEF TypeOK
  <2>4. fd' \in [Requests -> File]
    BY <1>4 DEF fill, TypeOK, File
  <2>5. QED
    BY <2>3, <2>4
<1>5. fd[r] \in Requests => /\ Whole(r, data[fd[r]]) \subseteq SUBSET Requests
                            /\ Partial(r, data[fd[r]]) \subseteq SUBSET Requests
  BY DEF Whole, Partial, TypeOK
<1>6. QED
  BY <1>2, <1>3, <1>4, <1>5

\* saveZoneCSV keeps the types whatever the zone holds after the step.
LEMMA SaveTypes ==
    ASSUME TypeOK, NEW r \in Requests, zoneDb' \in [Keys -> Requests \cup {Nil}],
           saveZoneCSV(r)
    PROVE  snap' \in [Requests -> SUBSET Requests] /\ pc' \in [Requests -> PC]
BY DEF TypeOK, saveZoneCSV, Entries, PC

\* Stopping the process keeps the types.
LEMMA StopTypes == ASSUME TypeOK, Stop PROVE
    /\ server' \in {"loading", "up", "down"}
    /\ zoneDb' \in [Keys -> Requests \cup {Nil}]
    /\ fileDb' \in [Media -> Requests \cup {Nil}]
    /\ staging' \subseteq Requests /\ trash' \subseteq Requests
    /\ final' \in [Media -> File] /\ staged' \in [Media -> File]
    /\ data' \in [Requests -> SUBSET Requests] /\ fd' \in [Requests -> File]
    /\ csv' \in Csv
    /\ pc' \in [Requests -> PC]
<1>1. ASSUME NEW f \in Requests PROVE Leftovers(f) \subseteq SUBSET Requests
  BY DEF Leftovers, TypeOK
<1>2. /\ final' \in [Media -> File] /\ staged' \in [Media -> File]
      /\ data' \in [Requests -> SUBSET Requests] /\ fd' \in [Requests -> File]
  <2>1. data' \in [Requests -> UNION {Leftovers(f) : f \in Requests}]
        /\ \A f \in Requests : data'[f] \in Leftovers(f)
    BY DEF Stop, AfterStop
  <2>2. data' \in [Requests -> SUBSET Requests]
    BY <1>1, <2>1
  <2>3. QED
    BY <2>2 DEF Stop, TypeOK, File
<1>3. csv' \in Csv
  BY DEF TypeOK, Stop, Csv, CutShort
<1>4. pc' \in [Requests -> PC]
  BY DEF TypeOK, Stop, PC
<1>5. QED
  BY <1>2, <1>3, <1>4 DEF Stop

(***************************************************************************)
(* The inductive invariant.                                                *)
(***************************************************************************)

\* Each request, its answer, its place in staging and what it saves fit together.
ReqOK(r) ==
    /\ pc[r] = "idle" <=> op[r] = Nil
    /\ pc[r] \in {"idle", "writing", "filling"} => snap[r] = {} /\ reply[r] = {}
    /\ pc[r] \in {"writing", "filling"} => IsPost(r)
    /\ IsStaged(r) => snap[r] = {} /\ pc[r] \in {"writing", "filling", "done", "twice", "lost"}
    /\ IsCommit(r) => /\ IsStaged(op[r].suid) /\ "ok" \in reply[op[r].suid]
                      /\ uuid(op[r].suid) = uuid(r)
    /\ r \in staging \cup trash => IsStaged(r) /\ pc[r] \in {"done", "twice"} /\ "ok" \in reply[r]
    /\ pc[r] \in {"saving", "opened"} =>
           snap[r] # {} /\ (IsDelete(r) \/ entryOf(r) \in snap[r])

ReqInv == \A r \in Requests : ReqOK(r)

\* No post has two accepted commits, and one that is staged or in the trash, where
\* it is never both, has none.
OnceInv ==
    /\ staging \cap trash = {}
    /\ \A r \in Requests :
          /\ \A p, q \in Commits(r) : p = q
          /\ r \in staging \cup trash => Commits(r) = {}

\* An entry that may be visible: its content was written, and it was committed
\* if it had to be.
Known(e) ==
    /\ IsPost(e) /\ pc[e] \notin {"idle", "writing", "filling"}
    /\ IsStaged(e) => Commits(e) # {}

\* An entry that is visible: a table holds it, the CSV file does, or a save writes it.
Seen(e) ==
    \/ \E k \in Keys : zoneDb[k] = e
    \/ \E m \in Media : fileDb[m] = e
    \/ e \in csv.lines
    \/ \E q \in Requests : pc[q] \in {"saving", "opened"} /\ e \in snap[q]

VisInv == \A e \in Requests : Seen(e) => Known(e)

IInv == TypeOK /\ ReqInv /\ OnceInv /\ VisInv

\* Every step keeps the type invariant.
LEMMA TypeStep == TypeOK /\ ReqInv /\ [Next]_vars => TypeOK'
<1> SUFFICES ASSUME TypeOK, ReqInv, [Next]_vars PROVE TypeOK'
  OBVIOUS
<1> USE DEF process, memory, disk, afterAnswer
<1>1. ASSUME NEW r \in Requests, NEW m \in Media, NEW kind \in Modes, Post(r, m, kind)
      PROVE  TypeOK'
  <2>1. [kind |-> kind, media |-> m, suid |-> Nil] \in Op
    BY ConstantsAssumption DEF Op, PostOp
  <2>2. QED
    BY <1>1, <2>1 DEF Post, TypeOK, PC
<1>2. ASSUME NEW r \in Requests, NEW answers \in SUBSET {"ok", "error"},
             op[r] # Nil, recordOrStageEntry(r, answers), UNCHANGED <<final, staged>>,
             data' \in [Requests -> SUBSET Requests], fd' \in [Requests -> File]
      PROVE  TypeOK'
  <2>1. uuid(r) \in Media
    BY <1>2, OpTypes
  <2>2. CASE stageEntry(r, answers) /\ reply' = [reply EXCEPT ![r] = answers \cup {"ok"}]
    BY <1>2, <2>1, <2>2 DEF recordOrStageEntry, stageEntry, TypeOK, PC
  <2>3. CASE recordEntry(r) /\ reply' = [reply EXCEPT ![r] = answers]
    <3>1. zoneDb' \in [Keys -> Requests \cup {Nil}]
      BY <2>3, <2>1 DEF recordEntry, TypeOK, Keys
    <3>2. snap' \in [Requests -> SUBSET Requests] /\ pc' \in [Requests -> PC]
      BY <2>3, <3>1, SaveTypes DEF recordEntry
    <3>3. QED
      BY <1>2, <2>1, <2>3, <3>1, <3>2 DEF recordOrStageEntry, recordEntry, TypeOK
  <2>4. QED
    BY <1>2, <2>2, <2>3 DEF recordOrStageEntry
<1>3. ASSUME NEW r \in Requests, op[r] # Nil, WriteOpens(r)
      PROVE  TypeOK'
  <2>1. /\ final' \in [Media -> File] /\ staged' \in [Media -> File]
        /\ data' \in [Requests -> SUBSET Requests] /\ fd' \in [Requests -> File]
    BY <1>3, FileTypes
  <2>2. QED
    BY <1>3, <2>1 DEF WriteOpens, TypeOK, PC
<1>4. ASSUME NEW r \in Requests, op[r] # Nil, WriteDone(r) \/ WriteFails(r)
      PROVE  TypeOK'
  <2>1. data' \in [Requests -> SUBSET Requests] /\ fd' \in [Requests -> File]
    <3>1. CASE UNCHANGED <<data, fd>>
      BY <3>1 DEF TypeOK
    <3>2. CASE \E contents \in {Whole(r, data[fd[r]]), Partial(r, data[fd[r]])} :
                  fill(r, contents)
      BY <1>4, <3>2, FileTypes
    <3>3. QED
      BY <1>4, <3>1, <3>2 DEF WriteOpens, WriteDone, WriteFails, fill
  <2>2. PICK answers \in SUBSET {"ok", "error"} :
           recordOrStageEntry(r, answers) /\ UNCHANGED <<final, staged>>
    BY <1>4 DEF WriteOpens, WriteDone, WriteFails, fill
  <2>3. QED
    BY <1>2, <1>4, <2>1, <2>2
<1>5. ASSUME NEW r \in Requests, op[r] # Nil, ConfirmTimeout(r)
      PROVE  TypeOK'
  BY <1>5, OpTypes DEF ConfirmTimeout, TypeOK, File
<1>6. ASSUME NEW r \in Requests, TrashTimeout(r)
      PROVE  TypeOK'
  BY <1>6 DEF TrashTimeout, TypeOK
<1>7. ASSUME NEW q \in Requests, NEW r \in Requests, Commit(q, r)
      PROVE  uuid(r) \in Media /\ op' \in [Requests -> Op \cup {Nil}]
  <2>1. uuid(r) \in Media
    BY <1>7, OpTypes DEF Commit, IsStaged
  <2>2. [kind |-> "commit", media |-> uuid(r), suid |-> r] \in Op
    BY <2>1 DEF Op, CommitOp
  <2>3. QED
    BY <1>7, <2>1, <2>2 DEF Commit, TypeOK
<1>8. ASSUME NEW q \in Requests, NEW r \in Requests, CommitAccepted(q, r)
      PROVE  TypeOK'
  <2>1. uuid(r) \in Media /\ op' \in [Requests -> Op \cup {Nil}]
    BY <1>7, <1>8 DEF CommitAccepted
  <2>2. zoneDb' \in [Keys -> Requests \cup {Nil}]
    BY <1>8 DEF CommitAccepted, TypeOK, Keys
  <2>3. snap' \in [Requests -> SUBSET Requests] /\ pc' \in [Requests -> PC]
    BY <1>8, <2>2, SaveTypes DEF CommitAccepted
  <2>4. final' \in [Media -> File] /\ staged' \in [Media -> File]
    BY <1>8, <2>1 DEF CommitAccepted, TypeOK, File
  <2>5. QED
    BY <1>8, <2>1, <2>2, <2>3, <2>4 DEF CommitAccepted, TypeOK
<1>9. ASSUME NEW q \in Requests, NEW r \in Requests, CommitRefused(q, r)
      PROVE  TypeOK'
  <2>1. op' \in [Requests -> Op \cup {Nil}]
    BY <1>7, <1>9 DEF CommitRefused
  <2>2. QED
    BY <1>9, <2>1 DEF CommitRefused, TypeOK, PC
<1>10. ASSUME NEW q \in Requests, NEW m \in Media, Delete(q, m)
       PROVE  op' \in [Requests -> Op \cup {Nil}]
  <2>1. [kind |-> "delete", media |-> m, suid |-> Nil] \in Op
    BY DEF Op, DeleteOp
  <2>2. QED
    BY <1>10, <2>1 DEF Delete, TypeOK
<1>11. ASSUME NEW q \in Requests, NEW m \in Media, DeleteAccepted(q, m)
       PROVE  TypeOK'
  <2>1. op' \in [Requests -> Op \cup {Nil}]
    BY <1>10, <1>11 DEF DeleteAccepted
  <2>2. zoneDb' \in [Keys -> Requests \cup {Nil}] /\ final' \in [Media -> File]
    BY <1>11 DEF DeleteAccepted, TypeOK, Keys, File
  <2>3. snap' \in [Requests -> SUBSET Requests] /\ pc' \in [Requests -> PC]
    BY <1>11, <2>2, SaveTypes DEF DeleteAccepted
  <2>4. QED
    BY <1>11, <2>1, <2>2, <2>3 DEF DeleteAccepted, TypeOK
<1>12. ASSUME NEW q \in Requests, NEW m \in Media, DeleteRefused(q, m)
       PROVE  TypeOK'
  <2>1. op' \in [Requests -> Op \cup {Nil}]
    BY <1>10, <1>12 DEF DeleteRefused
  <2>2. QED
    BY <1>12, <2>1 DEF DeleteRefused, TypeOK, PC
<1>13. ASSUME NEW q \in Requests, SaveOpens(q)
       PROVE  TypeOK'
  BY <1>13 DEF SaveOpens, TypeOK, PC, Csv
<1>14. ASSUME NEW q \in Requests, op[q] # Nil, SaveDone(q)
       PROVE  TypeOK'
  <2>1. uuid(q) \in Media /\ entryOf(q) \in Requests
    BY <1>14, OpTypes
  <2>2. csv' \in Csv
    BY <1>14 DEF SaveDone, Overwritten, TypeOK, Csv
  <2>3. QED
    BY <1>14, <2>1, <2>2 DEF SaveDone, TypeOK, PC
<1>15. ASSUME NEW q \in Requests, SaveFails(q)
       PROVE  TypeOK'
  <2>1. csv' \in Csv
    BY <1>15 DEF SaveFails, CutShort, TypeOK, Csv
  <2>2. QED
    BY <1>15, <2>1 DEF SaveFails, TypeOK, PC
<1>16. CASE Crash
  BY <1>16, StopTypes, ConstantsAssumption DEF Crash, Stop, TypeOK
<1>17. ASSUME NEW r \in Requests, WriteAfterEnd(r)
       PROVE  TypeOK'
  BY <1>17, StopTypes DEF WriteAfterEnd, Stop, TypeOK
<1>18. CASE Restart
  BY <1>18 DEF Restart, TypeOK
<1>19. CASE LoadCsv
  BY <1>19 DEF LoadCsv, TypeOK, Csv, Keys
<1>20. CASE LoadCsvFails
  BY <1>20, StopTypes DEF LoadCsvFails, Stop, TypeOK
<1>21. CASE UNCHANGED vars
  BY <1>21 DEF vars, TypeOK
<1>22. ASSUME NEW r \in Requests, Request(r)
       PROVE  TypeOK'
  BY <1>1, <1>8, <1>9, <1>11, <1>12, <1>22 DEF Request
<1>23. ASSUME NEW r \in Requests, Callback(r)
       PROVE  TypeOK'
  <2>1. op[r] # Nil
    BY <1>23 DEF Callback, WriteOpens, WriteDone, WriteFails, fill, SaveOpens, SaveDone, SaveFails,
                 ReqInv, ReqOK
  <2>2. QED
    BY <1>3, <1>4, <1>13, <1>14, <1>15, <1>23, <2>1 DEF Callback
<1>24. ASSUME NEW r \in Requests, Timer(r)
       PROVE  TypeOK'
  <2>1. op[r] # Nil
    BY <1>24 DEF Timer, ConfirmTimeout, TrashTimeout, ReqInv, ReqOK, IsStaged
  <2>2. QED
    BY <1>5, <1>6, <1>24, <2>1 DEF Timer
<1>25. QED
  BY <1>16, <1>17, <1>18, <1>19, <1>20, <1>21, <1>22, <1>23, <1>24 DEF Next, Lifecycle

(***************************************************************************)
(* What no step undoes: a request that was received keeps what it asks     *)
(* for, its answers, and, once its content is written, what it saves.      *)
(***************************************************************************)
Kept ==
    \A r \in Requests :
        /\ op[r] # Nil => op'[r] = op[r]
        /\ reply[r] \subseteq reply'[r]
        /\ pc[r] \notin {"idle", "writing", "filling"} =>
               pc'[r] \notin {"idle", "writing", "filling"} /\ snap'[r] = snap[r]

\* What a request asks for and its answers are kept, and what it saves once it wrote.
LEMMA KeptStep == TypeOK /\ ReqInv /\ [Next]_vars => Kept
<1> SUFFICES ASSUME TypeOK, ReqInv, [Next]_vars PROVE Kept
  OBVIOUS
<1> USE DEF Kept, TypeOK, ReqInv, ReqOK
<1>1. ASSUME NEW r \in Requests, NEW m \in Media, NEW kind \in Modes, Post(r, m, kind)
      PROVE  Kept
  BY <1>1 DEF Post, MayStart
<1>2. ASSUME NEW r \in Requests, NEW answers,
             pc[r] \in {"writing", "filling"}, recordOrStageEntry(r, answers)
      PROVE  Kept
  BY <1>2 DEF recordOrStageEntry, stageEntry, recordEntry, saveZoneCSV
<1>3. ASSUME NEW q \in Requests, NEW r \in Requests, CommitAccepted(q, r)
      PROVE  Kept
  BY <1>3 DEF CommitAccepted, Commit, MayStart, saveZoneCSV
<1>4. ASSUME NEW q \in Requests, NEW r \in Requests, CommitRefused(q, r)
      PROVE  Kept
  BY <1>4 DEF CommitRefused, Commit, MayStart
<1>5. ASSUME NEW q \in Requests, NEW m \in Media, DeleteAccepted(q, m)
      PROVE  Kept
  BY <1>5 DEF DeleteAccepted, Delete, MayStart, saveZoneCSV
<1>6. ASSUME NEW q \in Requests, NEW m \in Media, DeleteRefused(q, m)
      PROVE  Kept
  BY <1>6 DEF DeleteRefused, Delete, MayStart
<1>7. ASSUME NEW q \in Requests, SaveOpens(q) \/ SaveDone(q) \/ SaveFails(q)
      PROVE  Kept
  BY <1>7 DEF afterAnswer, SaveOpens, SaveDone, SaveFails
<1>8. ASSUME Stop PROVE Kept
  BY <1>8 DEF Stop, Pending, Writing
<1>9. ASSUME UNCHANGED <<op, pc, snap, reply>> PROVE Kept
  BY <1>9
<1>10. QED
  BY <1>1, <1>2, <1>3, <1>4, <1>5, <1>6, <1>7, <1>8, <1>9
     DEF Next, Request, Callback, Timer, Lifecycle, WriteOpens, WriteDone, WriteFails, fill,
         ConfirmTimeout, TrashTimeout, Crash, WriteAfterEnd, Restart, LoadCsv, LoadCsvFails, vars

\* What is known to be visible stays so.
LEMMA KnownStep ==
    ASSUME TypeOK, ReqInv, [Next]_vars, NEW e \in Requests, Known(e)
    PROVE  Known(e)'
<1>1. Kept
  BY KeptStep
<1>2. op'[e] = op[e] /\ pc'[e] \notin {"idle", "writing", "filling"}
  BY <1>1 DEF Kept, Known, IsPost
<1>3. ASSUME NEW q \in Commits(e) PROVE q \in Commits(e)'
  BY <1>1, <1>3 DEF Kept, Commits, IsCommit, ReqInv, ReqOK
<1>4. QED
  BY <1>2, <1>3 DEF Known, IsPost, IsStaged

\* An entry that a table holds is one of its entries.
LEMMA EntriesHas ==
    ASSUME NEW S, NEW db \in [S -> Requests \cup {Nil}], NEW k \in S, db[k] # Nil
    PROVE  db[k] \in Entries(db)
BY DEF Entries


\* A request that a step does not move keeps its invariant.
LEMMA Unmoved ==
    ASSUME TypeOK, ReqInv, Kept, NEW r \in Requests,
           pc'[r] = pc[r], snap'[r] = snap[r], reply'[r] = reply[r],
           op'[r] = op[r], r \in staging' \cup trash' => r \in staging \cup trash
    PROVE  ReqOK(r)'
<1>1. ReqOK(r)
  BY DEF ReqInv
<1>2. IsCommit(r) => op[r].suid \in Requests /\ op[op[r].suid] # Nil
  BY <1>1, OpTypes DEF ReqOK, IsCommit, IsStaged
<1>3. IsCommit(r) => op'[op[r].suid] = op[op[r].suid]
                     /\ reply[op[r].suid] \subseteq reply'[op[r].suid]
  BY <1>2 DEF Kept
<1>4. QED
  BY <1>1, <1>2, <1>3 DEF ReqOK, IsPost, IsStaged, IsCommit, IsDelete, entryOf, uuid

\* What a request asks for is not Nil.
LEMMA CommitOpHas ==
    ASSUME NEW m \in Media, NEW s \in Requests
    PROVE  [kind |-> "commit", media |-> m, suid |-> s] # Nil
BY NilAssumption DEF Op, CommitOp

\* A delete asks for the deletion of its media.
LEMMA DeleteOpHas ==
    ASSUME NEW m \in Media
    PROVE  [kind |-> "delete", media |-> m, suid |-> Nil] # Nil
BY NilAssumption DEF Op, DeleteOp

\* Every step keeps the invariant of each request.
LEMMA ReqStep == TypeOK /\ ReqInv /\ [Next]_vars => ReqInv'
<1> SUFFICES ASSUME TypeOK, ReqInv, [Next]_vars PROVE ReqInv'
  OBVIOUS
<1>0. TypeOK' /\ Kept
  BY TypeStep, KeptStep
<1>1. ASSUME NEW r \in Requests, NEW m \in Media, NEW kind \in Modes, Post(r, m, kind)
      PROVE  ReqInv'
  <2>0. op'[r] # Nil
    BY <1>0, <1>1, NilAssumption, ConstantsAssumption DEF Post, TypeOK, Op, PostOp
  <2>1. ReqOK(r) /\ op[r] = Nil
    BY <1>1 DEF ReqInv, ReqOK, Post, MayStart
  <2>2. ReqOK(r)'
    BY <1>1, <2>0, <2>1, ConstantsAssumption
       DEF Post, MayStart, memory, ReqOK, TypeOK, IsPost, IsStaged, IsCommit, IsDelete
  <2>3. ASSUME NEW x \in Requests, x # r PROVE ReqOK(x)'
    BY <1>0, <1>1, <2>3, Unmoved DEF Post, memory, TypeOK
  <2>4. QED
    BY <2>2, <2>3 DEF ReqInv
<1>2. ASSUME NEW r \in Requests, NEW answers,
             pc[r] \in {"writing", "filling"}, recordOrStageEntry(r, answers)
      PROVE  ReqInv'
  <2>1. /\ ReqOK(r) /\ op[r] # Nil /\ IsPost(r) /\ uuid(r) \in Media /\ snap[r] = {}
        /\ op' = op
    BY <1>2, OpTypes DEF ReqInv, ReqOK, recordOrStageEntry
  <2>2. CASE op[r].kind = "staged"
    <3>1. /\ pc' = [pc EXCEPT ![r] = afterAnswer(answers)] /\ snap' = snap
          /\ staging' = staging \cup {r} /\ trash' = trash
          /\ reply' = [reply EXCEPT ![r] = answers \cup {"ok"}]
      BY <1>2, <2>2 DEF recordOrStageEntry, stageEntry
    <3>2. ReqOK(r)'
      BY <2>1, <2>2, <3>1 DEF afterAnswer, ReqOK, TypeOK, IsPost, IsStaged, IsCommit, IsDelete
    <3>3. ASSUME NEW x \in Requests, x # r PROVE ReqOK(x)'
      BY <1>0, <2>1, <3>1, <3>3, Unmoved DEF TypeOK
    <3>4. QED
      BY <3>2, <3>3 DEF ReqInv
  <2>3. CASE op[r].kind # "staged"
    <3>1. recordEntry(r) /\ trash' = trash /\ staging' = staging
          /\ reply' = [reply EXCEPT ![r] = answers]
      BY <1>2, <2>3 DEF recordOrStageEntry, recordEntry
    <3>2. r \in Entries(zoneDb')
      <4>1. zoneDb' \in [Keys -> Requests \cup {Nil}] /\ zoneDb'[uuid(r)] = r
        BY <2>1, <3>1 DEF recordEntry, TypeOK, Keys
      <4>2. QED
        BY <4>1, <2>1, EntriesHas, ConstantsAssumption DEF Keys
    <3>3. /\ snap' = [snap EXCEPT ![r] = Entries(zoneDb')]
          /\ pc' = [pc EXCEPT ![r] = "saving"]
      BY <3>1, <3>2 DEF recordEntry, saveZoneCSV
    <3>4. ReqOK(r)'
      BY <2>1, <2>3, <3>1, <3>2, <3>3
         DEF ReqOK, TypeOK, IsPost, IsStaged, IsCommit, IsDelete, entryOf
    <3>5. ASSUME NEW x \in Requests, x # r PROVE ReqOK(x)'
      BY <1>0, <2>1, <3>1, <3>3, <3>5, Unmoved DEF TypeOK
    <3>6. QED
      BY <3>4, <3>5 DEF ReqInv
  <2>4. QED
    BY <2>2, <2>3
<1>3. ASSUME NEW q \in Requests, NEW s \in Requests, CommitAccepted(q, s)
      PROVE  ReqInv'
  <2>1. /\ op[q] = Nil /\ pc[q] = "idle" /\ ReqOK(q) /\ q # s
        /\ IsStaged(s) /\ reply[s] = {"ok"}
        /\ op' = [op EXCEPT ![q] = [kind |-> "commit", media |-> uuid(s), suid |-> s]]
        /\ op'[q] # Nil
    BY <1>3, CommitOpHas, OpTypes DEF TypeOK, CommitAccepted, Commit, MayStart, ReqInv, ReqOK, IsStaged
  <2>2. s \in Entries(zoneDb')
    <3>1. zoneDb' \in [Keys -> Requests \cup {Nil}] /\ zoneDb'[s] = s
      BY <1>3 DEF CommitAccepted, TypeOK, Keys
    <3>2. QED
      BY <3>1, EntriesHas, ConstantsAssumption DEF Keys
  <2>3. /\ snap' = [snap EXCEPT ![q] = Entries(zoneDb')]
        /\ pc' = [pc EXCEPT ![q] = "saving"]
        /\ staging' = staging \ {s} /\ trash' = trash /\ reply' = reply
    BY <1>3, <2>2 DEF CommitAccepted, saveZoneCSV
  <2>4. ReqOK(q)'
    BY <2>1, <2>2, <2>3, ConstantsAssumption
       DEF ReqOK, TypeOK, IsPost, IsStaged, IsCommit, IsDelete, entryOf, uuid
  <2>5. ASSUME NEW x \in Requests, x # q PROVE ReqOK(x)'
    BY <1>0, <2>1, <2>3, <2>5, Unmoved DEF TypeOK
  <2>6. QED
    BY <2>4, <2>5 DEF ReqInv
<1>4. ASSUME NEW q \in Requests, NEW s \in Requests, CommitRefused(q, s)
      PROVE  ReqInv'
  <2>1. ReqOK(q) /\ op[q] = Nil /\ q # s /\ op'[q] # Nil
    BY <1>4, CommitOpHas, OpTypes DEF TypeOK, ReqInv, ReqOK, CommitRefused, Commit, MayStart, IsStaged
  <2>2. ReqOK(q)'
    BY <1>4, <2>1, ConstantsAssumption
       DEF CommitRefused, Commit, MayStart, memory, ReqOK, TypeOK, IsPost, IsStaged,
           IsCommit, IsDelete, uuid
  <2>3. ASSUME NEW x \in Requests, x # q PROVE ReqOK(x)'
    BY <1>0, <1>4, <2>3, Unmoved DEF CommitRefused, Commit, memory, TypeOK
  <2>4. QED
    BY <2>2, <2>3 DEF ReqInv
<1>5. ASSUME NEW q \in Requests, NEW m \in Media, DeleteAccepted(q, m)
      PROVE  ReqInv'
  <2>1. ReqOK(q) /\ op[q] = Nil /\ op'[q] # Nil
    BY <1>5, DeleteOpHas DEF TypeOK, ReqInv, ReqOK, DeleteAccepted, Delete, MayStart
  <2>2. ReqOK(q)'
    BY <1>5, <2>1, ConstantsAssumption
       DEF DeleteAccepted, Delete, MayStart, saveZoneCSV, ReqOK, TypeOK, IsPost,
           IsStaged, IsCommit, IsDelete
  <2>3. ASSUME NEW x \in Requests, x # q PROVE ReqOK(x)'
    BY <1>0, <1>5, <2>3, Unmoved DEF DeleteAccepted, Delete, saveZoneCSV, TypeOK
  <2>4. QED
    BY <2>2, <2>3 DEF ReqInv
<1>6. ASSUME NEW q \in Requests, NEW m \in Media, DeleteRefused(q, m)
      PROVE  ReqInv'
  <2>1. ReqOK(q) /\ op[q] = Nil /\ op'[q] # Nil
    BY <1>6, DeleteOpHas DEF TypeOK, ReqInv, ReqOK, DeleteRefused, Delete, MayStart
  <2>2. ReqOK(q)'
    BY <1>6, <2>1, ConstantsAssumption
       DEF DeleteRefused, Delete, MayStart, memory, ReqOK, TypeOK, IsPost, IsStaged,
           IsCommit, IsDelete
  <2>3. ASSUME NEW x \in Requests, x # q PROVE ReqOK(x)'
    BY <1>0, <1>6, <2>3, Unmoved DEF DeleteRefused, Delete, memory, TypeOK
  <2>4. QED
    BY <2>2, <2>3 DEF ReqInv
<1>7. ASSUME NEW q \in Requests, SaveOpens(q) \/ SaveDone(q) \/ SaveFails(q)
      PROVE  ReqInv'
  <2>1. ReqOK(q) /\ op[q] # Nil /\ pc[q] \in {"saving", "opened"}
    BY <1>7 DEF ReqInv, ReqOK, SaveOpens, SaveDone, SaveFails
  <2>2. /\ op' = op /\ snap' = snap /\ staging' = staging /\ trash' = trash
        /\ pc'[q] \in {"opened", "done", "twice"} /\ \A x \in Requests : x # q => pc'[x] = pc[x]
        /\ \A x \in Requests : x # q => reply'[x] = reply[x]
        /\ reply[q] \subseteq reply'[q]
    BY <1>7 DEF afterAnswer, SaveOpens, SaveDone, SaveFails, memory, TypeOK
  <2>3. IsCommit(q) => op[q].suid \in Requests
    BY <2>1, OpTypes DEF IsCommit
  <2>4. IsCommit(q) => op[q].suid # q
    BY <2>1 DEF ReqOK, IsCommit, IsStaged
  <2>5. ReqOK(q)'
    BY <2>1, <2>2, <2>3, <2>4 DEF ReqOK, IsPost, IsStaged, IsCommit, IsDelete, entryOf, uuid
  <2>6. ASSUME NEW x \in Requests, x # q PROVE ReqOK(x)'
    BY <1>0, <2>2, <2>6, Unmoved
  <2>7. QED
    BY <2>5, <2>6 DEF ReqInv
<1>8. ASSUME Stop PROVE ReqInv'
  <2>1. ASSUME NEW x \in Requests PROVE ReqOK(x)'
    <3>1. /\ op' = op /\ snap' = snap /\ reply' = reply /\ staging' = {} /\ trash' = {}
          /\ pc'[x] \in {pc[x], "lost"}
          /\ pc[x] \in Pending \cup {"hung", "twice"} => pc'[x] = "lost"
          /\ pc[x] \notin Pending \cup {"hung", "twice"} => pc'[x] = pc[x]
      BY <1>8 DEF Stop
    <3>2. QED
      BY <3>1, <2>1
         DEF Pending, Writing, ReqInv, ReqOK, IsPost, IsStaged, IsCommit, IsDelete, entryOf, uuid
  <2>2. QED
    BY <2>1 DEF ReqInv
<1>9. ASSUME UNCHANGED <<op, pc, snap, reply>>,
             staging' \cup trash' \subseteq staging \cup trash
      PROVE  ReqInv'
  BY <1>0, <1>9, Unmoved DEF ReqInv
<1>10. ASSUME NEW r \in Requests, WriteOpens(r) PROVE ReqInv'
  <2>1. /\ pc[r] = "writing" /\ pc' = [pc EXCEPT ![r] = "filling"]
        /\ op' = op /\ snap' = snap /\ reply' = reply /\ staging' = staging /\ trash' = trash
    BY <1>10 DEF WriteOpens, memory
  <2>2. ReqOK(r)'
    BY <2>1 DEF ReqInv, ReqOK, TypeOK, IsPost, IsStaged, IsCommit, IsDelete
  <2>3. ASSUME NEW x \in Requests, x # r PROVE ReqOK(x)'
    BY <1>0, <2>1, <2>3, Unmoved DEF TypeOK
  <2>4. QED
    BY <2>2, <2>3 DEF ReqInv
<1>11. QED
  BY <1>1, <1>2, <1>3, <1>4, <1>5, <1>6, <1>7, <1>8, <1>9, <1>10
     DEF Next, Request, Callback, Timer, Lifecycle, WriteDone, WriteFails, fill,
         ConfirmTimeout, TrashTimeout, Crash, WriteAfterEnd, Restart, LoadCsv, LoadCsvFails, vars,
         memory

(***************************************************************************)
(* Commits are unique.                                                     *)
(***************************************************************************)

\* The accepted commits of a post change only when one is accepted.
LEMMA CommitsStep ==
    ASSUME TypeOK, ReqInv, [Next]_vars, NEW s \in Requests
    PROVE  \/ Commits(s)' = Commits(s)
           \/ \E q \in Requests : CommitAccepted(q, s) /\ Commits(s)' = Commits(s) \cup {q}
<1>1. Kept /\ ReqInv'
  BY KeptStep, ReqStep
<1>2. ASSUME NEW q \in Requests, op[q] # Nil
      PROVE  q \in Commits(s)' <=> q \in Commits(s)
  BY <1>1, <1>2 DEF Kept, Commits, IsCommit, IsPost, ReqInv, ReqOK
<1>3. ASSUME NEW q \in Requests, op[q] = Nil, q \in Commits(s)'
      PROVE  CommitAccepted(q, s)
  <2>1. /\ op'[q] # op[q] /\ IsCommit(q)' /\ op'[q].suid = s
        /\ snap'[q] # snap[q]
    BY <1>3 DEF Commits, IsCommit, ReqInv, ReqOK
  <2>2. ASSUME NEW r \in Requests, Callback(r) PROVE FALSE
    BY <2>1, <2>2
       DEF Callback, WriteOpens, WriteDone, WriteFails, fill, recordOrStageEntry, SaveOpens, SaveDone, SaveFails
  <2>3. ASSUME NEW r \in Requests, Timer(r) PROVE FALSE
    BY <2>1, <2>3 DEF Timer, ConfirmTimeout, TrashTimeout
  <2>4. ~Lifecycle
    BY <2>1 DEF Lifecycle, Crash, WriteAfterEnd, Restart, LoadCsv, LoadCsvFails, Stop
  <2>5. PICK r \in Requests : Request(r)
    BY <2>1, <2>2, <2>3, <2>4 DEF Next, vars
  <2>6. ASSUME NEW m \in Media, NEW kind \in Modes, Post(r, m, kind) PROVE FALSE
    BY <2>1, <2>6 DEF Post
  <2>7. ASSUME NEW t \in Requests, CommitRefused(r, t) PROVE FALSE
    BY <2>1, <2>7 DEF CommitRefused
  <2>8. ASSUME NEW m \in Media, DeleteAccepted(r, m) \/ DeleteRefused(r, m) PROVE FALSE
    BY <2>1, <2>8 DEF DeleteAccepted, DeleteRefused, Delete, TypeOK, IsCommit
  <2>9. PICK t \in Requests : CommitAccepted(r, t)
    BY <2>5, <2>6, <2>7, <2>8 DEF Request
  <2>10. op' = [op EXCEPT ![r] = [kind |-> "commit", media |-> uuid(t), suid |-> t]]
    BY <2>9 DEF CommitAccepted, Commit
  <2>11. r = q /\ t = s
    BY <2>1, <2>10 DEF TypeOK
  <2>12. QED
    BY <2>9, <2>11
<1>4. ASSUME NEW q \in Requests, NEW r \in Requests, CommitAccepted(q, s), CommitAccepted(r, s)
      PROVE  q = r
  <2>1. op[q] = Nil /\ uuid(s) \in Media
    BY <1>4, OpTypes DEF CommitAccepted, Commit, MayStart, IsStaged, ReqInv, ReqOK
  <2>2. /\ op' = [op EXCEPT ![q] = [kind |-> "commit", media |-> uuid(s), suid |-> s]]
        /\ op' = [op EXCEPT ![r] = [kind |-> "commit", media |-> uuid(s), suid |-> s]]
    BY <1>4 DEF CommitAccepted, Commit
  <2>3. op'[q] # Nil
    BY <2>1, <2>2, CommitOpHas DEF TypeOK
  <2>4. QED
    BY <2>1, <2>2, <2>3 DEF TypeOK
<1>5. /\ Commits(s) \subseteq Requests /\ Commits(s)' \subseteq Requests
      /\ \A q \in Commits(s) : op[q] # Nil
  BY DEF Commits, IsCommit
<1>6. CASE \E q \in Requests : op[q] = Nil /\ q \in Commits(s)'
  <2>1. PICK q \in Requests : op[q] = Nil /\ q \in Commits(s)'
    BY <1>6
  <2>2. CommitAccepted(q, s)
    BY <1>3, <2>1
  <2>3. ASSUME NEW r \in Requests PROVE r \in Commits(s)' <=> r \in Commits(s) \cup {q}
    BY <1>2, <1>3, <1>4, <1>5, <2>1, <2>2
  <2>4. QED
    BY <1>5, <2>2, <2>3
<1>7. CASE ~\E q \in Requests : op[q] = Nil /\ q \in Commits(s)'
  BY <1>2, <1>5, <1>7
<1>8. QED
  BY <1>6, <1>7

\* A post is staged when its content was written; an accepted commit takes it out.
LEMMA StagingStep ==
    ASSUME TypeOK, ReqInv, staging \cap trash = {}, [Next]_vars
    PROVE  /\ staging' \cap trash' = {}
           /\ \A s \in staging' \cup trash' :
                 \/ s \in staging \cup trash /\ \A q \in Requests : ~CommitAccepted(q, s)
                 \/ pc[s] \in {"writing", "filling"}
<1>0. ASSUME NEW q, NEW s, CommitAccepted(q, s)
      PROVE  s \in staging /\ staging' = staging \ {s} /\ trash' = trash
  BY <1>0 DEF CommitAccepted
<1>1. ASSUME staging' = staging, NEW q, NEW s PROVE ~CommitAccepted(q, s)
  BY <1>0, <1>1
<1>2. ASSUME NEW r, NEW s, CommitAccepted(r, s)
      PROVE  /\ staging' = staging \ {s} /\ trash' = trash
             /\ \A t \in staging' \cup trash', q \in Requests : ~CommitAccepted(q, t)
  BY <1>0, <1>2
<1>3. ASSUME NEW r \in Requests, Callback(r)
      PROVE  /\ trash' = trash
             /\ staging' = staging \/ (pc[r] \in {"writing", "filling"} /\ staging' = staging \cup {r})
             /\ op' = op
  BY <1>3
     DEF Callback, WriteOpens, WriteDone, WriteFails, fill, recordOrStageEntry, recordEntry, stageEntry,
         SaveOpens, SaveDone, SaveFails, memory
<1>4. ASSUME op' = op, NEW q \in Requests, NEW s \in Requests PROVE ~CommitAccepted(q, s)
  <2>1. SUFFICES ASSUME CommitAccepted(q, s) PROVE FALSE
    OBVIOUS
  <2>2. op[q] = Nil
    BY <2>1 DEF CommitAccepted, Commit, MayStart, ReqInv, ReqOK
  <2>3. op'[q] # Nil
    BY <2>1, CommitOpHas, OpTypes DEF CommitAccepted, Commit, IsStaged, TypeOK
  <2>4. QED
    BY <1>4, <2>2, <2>3
<1>5. ASSUME NEW r \in Requests, r \in staging \cup trash PROVE pc[r] \notin {"writing", "filling"}
  BY <1>5 DEF ReqInv, ReqOK
<1>6. ASSUME NEW r \in Requests, Callback(r) PROVE
          /\ staging' \cap trash' = {}
          /\ \A s \in staging' \cup trash' : s \in staging \cup trash \/ pc[s] \in {"writing", "filling"}
          /\ op' = op
  BY <1>3, <1>5, <1>6 DEF TypeOK
<1>7. ASSUME NEW r \in Requests, Timer(r) PROVE
          /\ staging' \cap trash' = {} /\ staging' \cup trash' \subseteq staging \cup trash
          /\ op' = op
  BY <1>7 DEF Timer, ConfirmTimeout, TrashTimeout
<1>8. ASSUME Lifecycle PROVE
          /\ staging' \cap trash' = {} /\ staging' \cup trash' \subseteq staging \cup trash
          /\ op' = op
  BY <1>8 DEF Lifecycle, Crash, WriteAfterEnd, Restart, LoadCsv, LoadCsvFails, Stop, memory
<1>9. ASSUME NEW r \in Requests, Request(r),
             ~\E s \in Requests : CommitAccepted(r, s)
      PROVE  staging' = staging /\ trash' = trash
  BY <1>9 DEF Request, Post, CommitRefused, DeleteAccepted, DeleteRefused, memory
<1>10. staging \cup trash \subseteq Requests /\ staging' \cup trash' \subseteq Requests
  BY TypeStep DEF TypeOK
<1>11. CASE UNCHANGED vars
  BY <1>4, <1>10, <1>11 DEF vars, memory
<1>12. ASSUME NEW r \in Requests, Request(r)
       PROVE  /\ staging' \cap trash' = {}
              /\ \A s \in staging' \cup trash' :
                    s \in staging \cup trash /\ \A q \in Requests : ~CommitAccepted(q, s)
  <2>1. CASE \E s \in Requests : CommitAccepted(r, s)
    BY <1>2, <2>1
  <2>2. CASE ~\E s \in Requests : CommitAccepted(r, s)
    BY <1>1, <1>9, <1>12, <2>2
  <2>3. QED
    BY <2>1, <2>2
<1>13. QED
  BY <1>4, <1>6, <1>7, <1>8, <1>10, <1>11, <1>12 DEF Next

\* Every step keeps the uniqueness of the accepted commits.
LEMMA OnceStep == TypeOK /\ ReqInv /\ OnceInv /\ [Next]_vars => OnceInv'
<1> SUFFICES ASSUME TypeOK, ReqInv, OnceInv, [Next]_vars PROVE OnceInv'
  OBVIOUS
<1>1. ASSUME NEW s \in Requests, s \in staging' \cup trash' PROVE Commits(s)' = {}
  <2>1. CASE s \in staging \cup trash /\ \A q \in Requests : ~CommitAccepted(q, s)
    BY <2>1, CommitsStep DEF OnceInv
  <2>2. CASE pc[s] \in {"writing", "filling"}
    <3>1. reply[s] = {}
      BY <2>2 DEF ReqInv, ReqOK
    <3>2. Commits(s) = {} /\ \A q \in Requests : ~CommitAccepted(q, s)
      BY <3>1 DEF Commits, CommitAccepted, Commit, ReqInv, ReqOK
    <3>3. QED
      BY <3>2, CommitsStep
  <2>3. QED
    BY <1>1, <2>1, <2>2, StagingStep DEF OnceInv
<1>2. ASSUME NEW s \in Requests, NEW p \in Commits(s)', NEW q \in Commits(s)'
      PROVE  p = q
  <2>1. CASE Commits(s)' = Commits(s)
    BY <1>2, <2>1 DEF OnceInv
  <2>2. ASSUME NEW r \in Requests, CommitAccepted(r, s), Commits(s)' = Commits(s) \cup {r}
        PROVE  p = q
    BY <1>2, <2>2 DEF OnceInv, CommitAccepted
  <2>3. QED
    BY <2>1, <2>2, CommitsStep
<1>3. staging' \cap trash' = {}
  BY StagingStep DEF OnceInv
<1>4. QED
  BY <1>1, <1>2, <1>3 DEF OnceInv

(***************************************************************************)
(* What is visible is known.                                               *)
(***************************************************************************)

\* A save writes what the zone holds.
LEMMA SavedSeen ==
    ASSUME TypeOK, NEW r \in Requests, saveZoneCSV(r), fileDb' = fileDb, csv' = csv,
           zoneDb' \in [Keys -> Requests \cup {Nil}], NEW e \in Requests, Seen(e)'
    PROVE  Seen(e) \/ \E k \in Keys : zoneDb'[k] = e
<1>1. ASSUME NEW q \in Requests, q # r, pc'[q] \in {"saving", "opened"}, e \in snap'[q]
      PROVE  Seen(e)
  BY <1>1 DEF saveZoneCSV, Seen, TypeOK
<1>2. ASSUME e \in snap'[r] PROVE \E k \in Keys : zoneDb'[k] = e
  BY <1>2 DEF saveZoneCSV, Entries, TypeOK
<1>3. QED
  BY <1>1, <1>2 DEF Seen

\* Nothing becomes visible that is not known, or becomes so.
LEMMA SeenStep ==
    ASSUME TypeOK, ReqInv, [Next]_vars, NEW e \in Requests, Seen(e)'
    PROVE  Seen(e) \/ Known(e)'
<1>0. TypeOK' /\ ReqInv' /\ Kept
  BY TypeStep, ReqStep, KeptStep
<1>1. ASSUME NEW r \in Requests, NEW answers,
             pc[r] \in {"writing", "filling"}, recordOrStageEntry(r, answers)
      PROVE  Seen(e) \/ Known(e)'
  <2>1. IsPost(r) /\ uuid(r) \in Media
    BY <1>1, OpTypes DEF ReqInv, ReqOK, IsPost
  <2>2. CASE op[r].kind = "staged"
    <3>1. zoneDb' = zoneDb /\ fileDb' = fileDb /\ csv' = csv /\ snap' = snap
          /\ pc' = [pc EXCEPT ![r] = afterAnswer(answers)]
      BY <1>1, <2>2 DEF recordOrStageEntry, stageEntry
    <3>2. QED
      BY <3>1 DEF afterAnswer, Seen, TypeOK
  <2>3. CASE op[r].kind # "staged"
    <3>1. saveZoneCSV(r) /\ fileDb' = fileDb /\ csv' = csv /\ op' = op
          /\ zoneDb' = [zoneDb EXCEPT ![uuid(r)] = r]
      BY <1>1, <2>3 DEF recordOrStageEntry, recordEntry
    <3>2. Known(r)'
      BY <2>1, <2>3, <3>1 DEF Known, IsPost, IsStaged, saveZoneCSV, TypeOK
    <3>3. Seen(e) \/ \E k \in Keys : zoneDb'[k] = e
      BY <1>0, <3>1, SavedSeen DEF TypeOK
    <3>4. Seen(e) \/ e = r
      BY <3>1, <3>3 DEF Seen, TypeOK
    <3>5. QED
      BY <3>2, <3>4
  <2>4. QED
    BY <2>2, <2>3
<1>2. ASSUME NEW q \in Requests, NEW s \in Requests, CommitAccepted(q, s)
      PROVE  Seen(e) \/ Known(e)'
  <2>1. saveZoneCSV(q) /\ fileDb' = fileDb /\ csv' = csv
        /\ zoneDb' = [zoneDb EXCEPT ![s] = s] /\ IsStaged(s) /\ reply[s] = {"ok"}
    BY <1>2 DEF CommitAccepted, Commit
  <2>2. Known(s)'
    <3>1. op'[s] = op[s] /\ op[s] # Nil /\ pc[s] \notin {"idle", "writing", "filling"}
          /\ pc'[s] \notin {"idle", "writing", "filling"}
      BY <1>0, <2>1 DEF ReqInv, ReqOK, IsStaged, Kept
    <3>2. q \in Commits(s)'
      <4>1. op'[q].kind = "commit" /\ op'[q].suid = s /\ op'[q] # Nil
        <5>1. uuid(s) \in Media
          BY <2>1, OpTypes DEF IsStaged
        <5>2. QED
          BY <1>2, <5>1, CommitOpHas DEF CommitAccepted, Commit, TypeOK
      <4>2. s \in snap'[q]
        <5>1. zoneDb' \in [Keys -> Requests \cup {Nil}] /\ s \in Keys /\ zoneDb'[s] = s
          BY <1>0, <2>1 DEF TypeOK, Keys
        <5>2. s \in Entries(zoneDb')
          BY <5>1, EntriesHas, ConstantsAssumption
        <5>3. QED
          BY <5>2, <2>1 DEF saveZoneCSV, TypeOK
      <4>3. QED
        BY <4>1, <4>2 DEF Commits, IsCommit
    <3>3. IsPost(s)'
      BY <2>1, <3>1 DEF IsPost, IsStaged
    <3>4. QED
      BY <3>1, <3>2, <3>3 DEF Known
  <2>3. Seen(e) \/ \E k \in Keys : zoneDb'[k] = e
    BY <1>0, <2>1, SavedSeen DEF TypeOK
  <2>4. Seen(e) \/ e = s
    BY <2>1, <2>3 DEF Seen, TypeOK
  <2>5. QED
    BY <2>2, <2>4
<1>3. ASSUME NEW q \in Requests, NEW m \in Media, DeleteAccepted(q, m)
      PROVE  Seen(e)
  <2>1. saveZoneCSV(q) /\ fileDb' = fileDb /\ csv' = csv
        /\ zoneDb' = [zoneDb EXCEPT ![m] = Nil]
    BY <1>3 DEF DeleteAccepted
  <2>2. Seen(e) \/ \E k \in Keys : zoneDb'[k] = e
    BY <1>0, <2>1, SavedSeen DEF TypeOK
  <2>3. QED
    BY <2>1, <2>2, ConstantsAssumption DEF Seen, TypeOK
<1>4. ASSUME NEW q \in Requests, SaveOpens(q) PROVE Seen(e)
  <2>1. zoneDb' = zoneDb /\ fileDb' = fileDb /\ csv'.lines = {} /\ snap' = snap
        /\ pc[q] = "saving" /\ pc' = [pc EXCEPT ![q] = "opened"]
    BY <1>4 DEF SaveOpens, memory
  <2>2. QED
    BY <2>1 DEF Seen, TypeOK
<1>5. ASSUME NEW q \in Requests, SaveDone(q) PROVE Seen(e)
  <2>1. pc[q] = "opened" /\ zoneDb' = zoneDb /\ snap' = snap
        /\ pc' = [pc EXCEPT ![q] = afterAnswer(reply[q])]
        /\ fileDb' = [fileDb EXCEPT ![uuid(q)] = IF IsDelete(q) THEN Nil ELSE entryOf(q)]
        /\ csv'.lines \subseteq csv.lines \cup snap[q]
    BY <1>5 DEF SaveDone, Overwritten
  <2>2. ~IsDelete(q) => entryOf(q) \in snap[q]
    BY <2>1 DEF ReqInv, ReqOK
  <2>3. ASSUME NEW m \in Media, fileDb'[m] = e PROVE fileDb[m] = e \/ e \in snap[q]
    BY <2>1, <2>2, <2>3, ConstantsAssumption DEF TypeOK
  <2>4. QED
    BY <2>1, <2>3 DEF Seen, TypeOK, afterAnswer
<1>6. ASSUME NEW q \in Requests, SaveFails(q) PROVE Seen(e)
  <2>1. zoneDb' = zoneDb /\ fileDb' = fileDb /\ snap' = snap
        /\ pc[q] \in {"saving", "opened"} /\ pc' = [pc EXCEPT ![q] = afterAnswer(reply[q])]
        /\ csv'.lines \subseteq csv.lines \cup snap[q]
    BY <1>6 DEF SaveFails, CutShort, memory
  <2>2. QED
    BY <2>1 DEF Seen, TypeOK
<1>7. ASSUME Stop PROVE Seen(e)
  <2>1. \/ csv' = csv
        \/ \E q \in Requests : pc[q] = "opened" /\ csv'.lines \subseteq snap[q]
    BY <1>7 DEF Stop, CutShort
  <2>2. /\ \A k \in Keys : zoneDb'[k] = Nil
        /\ \A m \in Media : fileDb'[m] = Nil
        /\ \A q \in Requests : pc'[q] \notin {"saving", "opened"}
    BY <1>7 DEF Stop, Pending, Writing
  <2>3. QED
    BY <2>1, <2>2, ConstantsAssumption DEF Seen
<1>8. ASSUME LoadCsv PROVE Seen(e)
  <2>1. UNCHANGED <<csv, pc, snap>>
    BY <1>8 DEF LoadCsv
  <2>2. PICK line \in [Media -> csv.lines \cup {Nil}] :
          /\ zoneDb' = [k \in Keys |-> IF k \in Media /\ line[k] # Nil
                                         THEN line[k] ELSE zoneDb[k]]
          /\ fileDb' = [m \in Media |-> IF line[m] # Nil THEN line[m] ELSE fileDb[m]]
    BY <1>8 DEF LoadCsv
  <2>3. ASSUME NEW m \in Media, line[m] = e PROVE e \in csv.lines
    BY <2>3, ConstantsAssumption
  <2>4. QED
    BY <2>1, <2>2, <2>3 DEF Seen
<1>9. ASSUME zoneDb' = zoneDb, fileDb' = fileDb, csv' = csv, snap' = snap,
             \A q \in Requests : pc'[q] = pc[q] \/ pc'[q] \notin {"saving", "opened"}
      PROVE  Seen(e)
  BY <1>9 DEF Seen
<1>10. ASSUME NEW r \in Requests, Request(r) PROVE Seen(e) \/ Known(e)'
  <2>1. ASSUME NEW m \in Media, NEW kind \in Modes, Post(r, m, kind) PROVE Seen(e)
    BY <1>9, <2>1 DEF Post, memory, TypeOK
  <2>2. ASSUME NEW s \in Requests, CommitRefused(r, s) PROVE Seen(e)
    BY <1>9, <2>2 DEF CommitRefused, memory, TypeOK
  <2>3. ASSUME NEW m \in Media, DeleteRefused(r, m) PROVE Seen(e)
    BY <1>9, <2>3 DEF DeleteRefused, memory, TypeOK
  <2>4. QED
    BY <1>2, <1>3, <1>10, <2>1, <2>2, <2>3 DEF Request
<1>11. ASSUME NEW r \in Requests, Callback(r) PROVE Seen(e) \/ Known(e)'
  <2>1. ASSUME WriteOpens(r) PROVE Seen(e)
    BY <1>9, <2>1 DEF WriteOpens, memory, TypeOK
  <2>2. QED
    BY <1>1, <1>4, <1>5, <1>6, <1>11, <2>1 DEF Callback, WriteDone, WriteFails, fill
<1>12. ASSUME NEW r \in Requests, Timer(r) PROVE Seen(e)
  BY <1>9, <1>12 DEF Timer, ConfirmTimeout, TrashTimeout
<1>13. CASE Restart \/ UNCHANGED vars
  BY <1>9, <1>13 DEF Restart, vars, memory
<1>14. QED
  BY <1>7, <1>8, <1>10, <1>11, <1>12, <1>13 DEF Next, Lifecycle, Crash, WriteAfterEnd, LoadCsvFails

\* Every step keeps what is visible among what is known.
LEMMA VisStep == TypeOK /\ ReqInv /\ VisInv /\ [Next]_vars => VisInv'
BY KnownStep, SeenStep DEF VisInv

(***************************************************************************)
(* The theorems.                                                           *)
(***************************************************************************)

\* The inductive invariant holds initially.
LEMMA InitInv == Init => IInv
<1> SUFFICES ASSUME Init PROVE IInv
  OBVIOUS
<1>1. TypeOK
  BY ConstantsAssumption DEF Init, TypeOK, File, Csv, PC, Keys
<1>2. ReqInv
  BY DEF Init, ReqInv, ReqOK, IsPost, IsStaged, IsCommit, IsDelete
<1>3. OnceInv
  BY DEF Init, OnceInv, Commits, IsCommit
<1>4. VisInv
  BY ConstantsAssumption DEF Init, VisInv, Seen
<1>5. QED
  BY <1>1, <1>2, <1>3, <1>4 DEF IInv

\* The inductive invariant is inductive.
LEMMA NextInv == IInv /\ [Next]_vars => IInv'
BY TypeStep, ReqStep, OnceStep, VisStep DEF IInv

\* The inductive invariant holds in every reachable state.
THEOREM Invariance == Spec => []IInv
BY InitInv, NextInv, PTL DEF Spec

\* Every variable keeps its type: no handler, timer or stop leaves a table, a file
\* or an answer in a form that another one does not expect.
THEOREM TypeCorrect == Spec => []TypeOK
<1>1. IInv => TypeOK
  BY DEF IInv
<1>2. QED
  BY Invariance, <1>1, PTL

\* What is visible is seen.
LEMMA VisibleSeen ==
    ASSUME TypeOK, NEW e \in Requests, e \in Visible PROVE Seen(e)
BY DEF Visible, Entries, Seen, TypeOK

\* A post that waits for its commit, or waited too long, is in no list, no get and
\* no CSV file, for any number of requests and crashes.
THEOREM StagedAreHidden == Spec => []StagedHidden
<1>1. IInv => StagedHidden
  <2> SUFFICES ASSUME IInv, NEW e \in staging \cup trash, e \in Visible PROVE FALSE
    BY Zenon DEF StagedHidden
  <2>1. e \in Requests /\ Commits(e) = {} /\ IsStaged(e)
    BY DEF IInv, TypeOK, OnceInv, ReqInv, ReqOK
  <2>2. Known(e)
    BY <2>1, VisibleSeen DEF IInv, VisInv
  <2>3. QED
    BY <2>1, <2>2 DEF Known
<1>2. QED
  BY Invariance, <1>1, PTL

\* A staged post is visible only through a commit, and at most one commit of it is
\* accepted, whatever the commits, the timers and the stops do.
THEOREM CommitsAreUnique == Spec => []CommittedOnce
<1>1. IInv => CommittedOnce
  <2> SUFFICES ASSUME IInv, NEW r \in Requests, IsStaged(r)
               PROVE  /\ \A p, q \in Commits(r) : p = q
                      /\ r \in Visible => Commits(r) # {}
                      /\ r \in staging \cup trash => Commits(r) = {}
    BY DEF CommittedOnce
  <2>1. r \in Visible => Known(r)
    BY VisibleSeen DEF IInv, VisInv
  <2>2. QED
    BY <2>1 DEF IInv, OnceInv, Known
<1>2. QED
  BY Invariance, <1>1, PTL

(***************************************************************************)
(* The staging area implements StagingPromise.                             *)
(***************************************************************************)

\* What the phase of a post depends on.
Answered(r) == IsStaged(r) /\ "ok" \in reply[r]

\* The phase of a post, case by case.
LEMMA PhaseIs ==
    ASSUME NEW r \in Requests
    PROVE  /\ r \in staging => phase[r] = "staged"
           /\ r \notin staging /\ Commits(r) # {} => phase[r] = "committed"
           /\ r \notin staging /\ Commits(r) = {} /\ Answered(r) => phase[r] = "expired"
           /\ r \notin staging /\ Commits(r) = {} /\ ~Answered(r) => phase[r] = "new"
BY DEF phase, Answered

\* A post whose place, commits and answer do not change keeps its phase.
LEMMA PhaseSame ==
    ASSUME NEW r \in Requests, r \in staging' <=> r \in staging,
           Commits(r)' = Commits(r), Answered(r)' <=> Answered(r)
    PROVE  phase'[r] = phase[r]
BY DEF phase, Answered

\* The only answer that makes a staged post known to its client is the one that is
\* sent when it is staged.
LEMMA AnsweredStep ==
    ASSUME TypeOK, ReqInv, [Next]_vars, NEW t \in Requests, ~(pc[t] \in {"writing", "filling"} /\ t \in staging')
    PROVE  Answered(t)' <=> Answered(t)
<1>1. Answered(t) => Answered(t)'
  BY KeptStep DEF Kept, Answered, IsStaged
<1>2. ASSUME op'[t] = op[t], reply'[t] = reply[t] PROVE Answered(t)' <=> Answered(t)
  BY <1>2 DEF Answered, IsStaged
<1>3. ASSUME ~IsStaged(t)' PROVE Answered(t)' <=> Answered(t)
  BY <1>1, <1>3 DEF Answered
<1>4. ASSUME NEW r \in Requests, Request(r) PROVE Answered(t)' <=> Answered(t)
  <2>1. ASSUME NEW m \in Media, NEW kind \in Modes, Post(r, m, kind)
        PROVE  Answered(t)' <=> Answered(t)
    <3>1. CASE t = r
      BY <2>1, <3>1, <1>1 DEF Post, MayStart, Answered, ReqInv, ReqOK
    <3>2. CASE t # r
      BY <2>1, <3>2, <1>2 DEF Post, TypeOK
    <3>3. QED
      BY <3>1, <3>2
  <2>2. ASSUME NEW s \in Requests, CommitAccepted(r, s) \/ CommitRefused(r, s)
        PROVE  Answered(t)' <=> Answered(t)
    <3>1. op' = [op EXCEPT ![r] = [kind |-> "commit", media |-> uuid(s), suid |-> s]]
          /\ (t # r => reply'[t] = reply[t])
      BY <2>2 DEF CommitAccepted, CommitRefused, Commit, TypeOK
    <3>2. CASE t = r
      BY <3>1, <3>2, <1>3 DEF IsStaged, TypeOK
    <3>3. CASE t # r
      BY <3>1, <3>3, <1>2 DEF TypeOK
    <3>4. QED
      BY <3>2, <3>3
  <2>3. ASSUME NEW m \in Media, DeleteAccepted(r, m) \/ DeleteRefused(r, m)
        PROVE  Answered(t)' <=> Answered(t)
    <3>1. op' = [op EXCEPT ![r] = [kind |-> "delete", media |-> m, suid |-> Nil]]
          /\ (t # r => reply'[t] = reply[t])
      BY <2>3 DEF DeleteAccepted, DeleteRefused, Delete, TypeOK
    <3>2. CASE t = r
      BY <3>1, <3>2, <1>3 DEF IsStaged, TypeOK
    <3>3. CASE t # r
      BY <3>1, <3>3, <1>2 DEF TypeOK
    <3>4. QED
      BY <3>2, <3>3
  <2>4. QED
    BY <1>4, <2>1, <2>2, <2>3 DEF Request
<1>5. ASSUME NEW r \in Requests, Callback(r) PROVE Answered(t)' <=> Answered(t)
  <2>1. op' = op /\ (t # r => reply'[t] = reply[t])
    BY <1>5
       DEF Callback, WriteOpens, WriteDone, WriteFails, fill, recordOrStageEntry, SaveOpens, SaveDone,
           SaveFails, TypeOK
  <2>2. CASE t # r
    BY <2>1, <2>2, <1>2
  <2>3. CASE t = r /\ pc[r] \in {"saving", "opened"}
    BY <2>1, <2>3, <1>3 DEF ReqInv, ReqOK, IsStaged
  <2>4. CASE t = r /\ pc[r] \in {"writing", "filling"} /\ ~WriteOpens(r)
    <3>1. ~IsStaged(r)
      BY <1>5, <2>4
         DEF Callback, WriteDone, WriteFails, fill, recordOrStageEntry, stageEntry, SaveOpens,
             SaveDone, SaveFails, IsStaged
    <3>2. QED
      BY <2>1, <2>4, <3>1, <1>3 DEF IsStaged
  <2>5. CASE WriteOpens(r)
    BY <1>2, <2>5 DEF WriteOpens
  <2>6. QED
    BY <1>5, <2>2, <2>3, <2>4, <2>5
       DEF Callback, WriteDone, WriteFails, fill, SaveOpens, SaveDone, SaveFails
<1>6. ASSUME Stop \/ UNCHANGED <<op, reply>> PROVE Answered(t)' <=> Answered(t)
  BY <1>6, <1>2 DEF Stop
<1>7. QED
  BY <1>4, <1>5, <1>6
     DEF Next, Timer, ConfirmTimeout, TrashTimeout, Lifecycle, Crash, WriteAfterEnd, Restart, LoadCsv,
         LoadCsvFails, vars

\* A step moves the phase of one post, or ends the staging of all of them.
LEMMA PhaseStep == IInv /\ [Next]_vars => [Promise!Next]_phase
<1> SUFFICES ASSUME IInv, [Next]_vars PROVE [Promise!Next]_phase
  OBVIOUS
<1>0. TypeOK /\ ReqInv /\ OnceInv /\ TypeOK' /\ OnceInv'
  BY NextInv DEF IInv
<1>1. /\ phase = [r \in Requests |-> phase[r]]
      /\ phase' = [r \in Requests |-> phase'[r]]
  BY DEF phase
<1>2. ASSUME NEW t \in Requests, t \in staging' <=> t \in staging,
             pc[t] \notin {"writing", "filling"} \/ t \notin staging',
             \A q \in Requests : ~CommitAccepted(q, t)
      PROVE  phase'[t] = phase[t]
  BY <1>0, <1>2, CommitsStep, AnsweredStep, PhaseSame
<1>3. ASSUME staging' = staging PROVE phase' = phase
  <2>1. ASSUME NEW t \in Requests PROVE phase'[t] = phase[t]
    <3>1. \A q \in Requests : ~CommitAccepted(q, t)
      BY <1>3 DEF CommitAccepted
    <3>2. pc[t] \notin {"writing", "filling"} \/ t \notin staging'
      BY <1>0, <1>3 DEF ReqInv, ReqOK
    <3>3. QED
      BY <1>2, <1>3, <3>1, <3>2
  <2>2. QED
    BY <1>1, <2>1
<1>4. ASSUME NEW q \in Requests, NEW s \in Requests, CommitAccepted(q, s)
      PROVE  Promise!Commit(s)
  <2>1. s \in staging /\ staging' = staging \ {s} /\ trash' = trash
    BY <1>4 DEF CommitAccepted
  <2>2. phase[s] = "staged"
    BY <2>1, PhaseIs
  <2>3. phase'[s] = "committed"
    <3>1. Commits(s)' # {}
      <4>1. uuid(s) \in Media
        BY <1>0, <1>4, OpTypes DEF CommitAccepted, Commit, IsStaged
      <4>2. op'[q].kind = "commit" /\ op'[q].suid = s /\ op'[q] # Nil
        BY <1>0, <1>4, <4>1, CommitOpHas DEF CommitAccepted, Commit, TypeOK
      <4>3. s \in Entries(zoneDb')
        <5>1. zoneDb' \in [Keys -> Requests \cup {Nil}] /\ s \in Keys /\ zoneDb'[s] = s
          BY <1>0, <1>4 DEF CommitAccepted, TypeOK, Keys
        <5>2. QED
          BY <5>1, EntriesHas, ConstantsAssumption
      <4>4. snap'[q] = Entries(zoneDb')
        BY <1>0, <1>4 DEF CommitAccepted, saveZoneCSV, TypeOK
      <4>5. q \in Commits(s)'
        BY <4>2, <4>3, <4>4 DEF Commits, IsCommit
      <4>6. QED
        BY <4>5
    <3>2. s \notin staging'
      BY <2>1
    <3>3. QED
      BY <3>1, <3>2 DEF phase
  <2>4. ASSUME NEW t \in Requests, t # s PROVE phase'[t] = phase[t]
    <3>1. \A r \in Requests : ~CommitAccepted(r, t)
      BY <2>1, <2>4 DEF CommitAccepted
    <3>2. pc[t] \notin {"writing", "filling"} \/ t \notin staging'
      BY <1>0, <2>1 DEF ReqInv, ReqOK
    <3>3. QED
      BY <1>2, <2>1, <2>4, <3>1, <3>2
  <2>5. QED
    BY <1>1, <2>2, <2>3, <2>4 DEF Promise!Commit, Promise!Move
<1>5. ASSUME NEW r \in Requests, pc[r] \in {"writing", "filling"}, op' = op, staging' = staging \cup {r},
             "ok" \in reply'[r], IsStaged(r)
      PROVE  Promise!Stage(r)
  <2>1. r \notin staging /\ Commits(r) = {} /\ ~Answered(r)
    BY <1>0, <1>5 DEF ReqInv, ReqOK, Commits, Answered
  <2>2. phase[r] = "new"
    BY <2>1, PhaseIs
  <2>3. phase'[r] = "staged"
    BY <1>5 DEF phase
  <2>4. ASSUME NEW t \in Requests, t # r PROVE phase'[t] = phase[t]
    <3>1. \A q \in Requests : ~CommitAccepted(q, t)
      <4>1. SUFFICES ASSUME NEW q \in Requests, CommitAccepted(q, t) PROVE FALSE
        OBVIOUS
      <4>2. t \in staging /\ staging' = staging \ {t}
        BY <4>1 DEF CommitAccepted
      <4>3. QED
        BY <1>5, <4>2
    <3>2. pc[t] \notin {"writing", "filling"} \/ t \notin staging'
      BY <1>0, <1>5, <2>4 DEF ReqInv, ReqOK
    <3>3. QED
      BY <1>2, <1>5, <2>4, <3>1, <3>2
  <2>5. QED
    BY <1>1, <2>2, <2>3, <2>4 DEF Promise!Stage, Promise!Move
<1>6. ASSUME NEW r \in Requests, ConfirmTimeout(r)
      PROVE  Promise!Expire(r)
  <2>1. r \in staging /\ staging' = staging \ {r} /\ trash' = trash \cup {r} /\ op' = op
        /\ reply' = reply
    BY <1>6 DEF ConfirmTimeout
  <2>2. phase[r] = "staged"
    BY <2>1, PhaseIs
  <2>3. phase'[r] = "expired"
    <3>1. Commits(r)' = {} /\ r \notin staging'
      BY <1>0, <2>1 DEF OnceInv
    <3>2. IsStaged(r)' /\ "ok" \in reply'[r]
      BY <1>0, <2>1 DEF ReqInv, ReqOK, IsStaged
    <3>3. QED
      BY <3>1, <3>2 DEF phase
  <2>4. ASSUME NEW t \in Requests, t # r PROVE phase'[t] = phase[t]
    <3>1. \A q \in Requests : ~CommitAccepted(q, t)
      <4>1. SUFFICES ASSUME NEW q \in Requests, CommitAccepted(q, t) PROVE FALSE
        OBVIOUS
      <4>2. t \in staging /\ staging' = staging \ {t}
        BY <4>1 DEF CommitAccepted
      <4>3. QED
        BY <2>1, <2>4, <4>2
    <3>2. pc[t] \notin {"writing", "filling"} \/ t \notin staging'
      BY <1>0, <2>1 DEF ReqInv, ReqOK
    <3>3. QED
      BY <1>2, <2>1, <2>4, <3>1, <3>2
  <2>5. QED
    BY <1>1, <2>2, <2>3, <2>4 DEF Promise!Expire, Promise!Move
<1>7. ASSUME Stop PROVE Promise!ExpireAll
  <2>1. staging' = {} /\ op' = op /\ reply' = reply
    BY <1>7 DEF Stop
  <2>2. ASSUME NEW t \in Requests, NEW q \in Requests PROVE ~CommitAccepted(q, t)
    <3>1. SUFFICES ASSUME CommitAccepted(q, t) PROVE FALSE
      OBVIOUS
    <3>2. op[q] = Nil /\ op' = [op EXCEPT ![q] = [kind |-> "commit", media |-> uuid(t), suid |-> t]]
      BY <1>0, <3>1 DEF CommitAccepted, Commit, MayStart, ReqInv, ReqOK
    <3>3. uuid(t) \in Media
      BY <1>0, <3>1, OpTypes DEF CommitAccepted, Commit, IsStaged
    <3>4. QED
      BY <1>0, <2>1, <3>2, <3>3, CommitOpHas DEF TypeOK
  <2>3. ASSUME NEW t \in Requests, t \in staging PROVE phase'[t] = "expired"
    <3>1. Commits(t)' = {} /\ t \notin staging'
      <4>1. Commits(t) = {}
        BY <1>0, <2>3 DEF OnceInv
      <4>2. QED
        BY <1>0, <2>1, <2>2, <4>1, CommitsStep
    <3>2. IsStaged(t)' /\ "ok" \in reply'[t]
      BY <1>0, <2>1, <2>3 DEF ReqInv, ReqOK, IsStaged
    <3>3. QED
      BY <3>1, <3>2 DEF phase
  <2>4. ASSUME NEW t \in Requests, t \notin staging PROVE phase'[t] = phase[t]
    BY <1>2, <2>1, <2>2, <2>4
  <2>5. ASSUME NEW t \in Requests
        PROVE  phase'[t] = IF phase[t] = "staged" THEN "expired" ELSE phase[t]
    <3>1. t \in staging <=> phase[t] = "staged"
      BY DEF phase
    <3>2. QED
      BY <2>3, <2>4, <3>1
  <2>6. QED
    BY <1>1, <2>5 DEF Promise!ExpireAll
<1>8. ASSUME NEW r \in Requests, Request(r) PROVE [Promise!Next]_phase
  <2>1. CASE \E s \in Requests : CommitAccepted(r, s)
    BY <1>4, <2>1 DEF Promise!Next
  <2>2. CASE ~\E s \in Requests : CommitAccepted(r, s)
    <3>1. staging' = staging
      BY <1>8, <2>2 DEF Request, Post, CommitRefused, DeleteAccepted, DeleteRefused, memory
    <3>2. QED
      BY <1>3, <3>1
  <2>3. QED
    BY <2>1, <2>2
<1>9. ASSUME NEW r \in Requests, Callback(r) PROVE [Promise!Next]_phase
  <2>1. \/ staging' = staging
        \/ /\ pc[r] \in {"writing", "filling"} /\ op' = op /\ staging' = staging \cup {r}
           /\ op[r].kind = "staged" /\ "ok" \in reply'[r]
    BY <1>0, <1>9
       DEF Callback, WriteOpens, WriteDone, WriteFails, fill, recordOrStageEntry, recordEntry, stageEntry,
           SaveOpens, SaveDone, SaveFails, memory, TypeOK
  <2>2. pc[r] \in {"writing", "filling"} /\ op[r].kind = "staged" => IsStaged(r)
    BY <1>0 DEF ReqInv, ReqOK, IsPost, IsStaged
  <2>3. QED
    BY <1>3, <1>5, <2>1, <2>2 DEF Promise!Next
<1>10. ASSUME NEW r \in Requests, Timer(r) PROVE [Promise!Next]_phase
  BY <1>3, <1>6, <1>10 DEF Timer, TrashTimeout, Promise!Next
<1>11. CASE Lifecycle
  BY <1>3, <1>7, <1>11
     DEF Lifecycle, Crash, WriteAfterEnd, Restart, LoadCsv, LoadCsvFails, memory, Promise!Next
<1>12. CASE UNCHANGED vars
  BY <1>3, <1>12 DEF vars, memory
<1>13. QED
  BY <1>8, <1>9, <1>10, <1>11, <1>12 DEF Next

\* The staging area implements StagingPromise for any number of requests, media and
\* crashes: a staged post is committed at most once, and never after it expired.
THEOREM StagingRefines == Spec => StagingKept
<1>1. Init => Promise!Init
  <2> SUFFICES ASSUME Init PROVE Promise!Init
    OBVIOUS
  <2>1. ASSUME NEW r \in Requests PROVE phase[r] = "new"
    BY DEF Init, phase, Commits, IsCommit, IsStaged
  <2>2. phase = [r \in Requests |-> phase[r]]
    BY DEF phase
  <2>3. QED
    BY <2>1, <2>2 DEF Promise!Init
<1>2. QED
  BY Invariance, PhaseStep, <1>1, PTL DEF Spec, StagingKept, Promise!Spec
=============================================================================
