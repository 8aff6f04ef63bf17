------------------------- MODULE MediaTablesProofs --------------------------
(***************************************************************************)
(* Proofs about the tables, the files and the CSV file of MediaStore, and  *)
(* about what happens in the end to its requests and to what is staged.    *)
(* They rest on the inductive invariant of MediaStoreProofs and, each, on  *)
(* the absence of the faults that break the property.                      *)
(***************************************************************************)
EXTENDS MediaStoreProofs

(***************************************************************************)
(* The keys of the tables.                                                 *)
(***************************************************************************)

\* An entry that a table holds under a media is an entry of that media; one that the
\* zone holds under a staging id is the post of that id.
KeyInv ==
    /\ \A m \in Media, e \in Requests : zoneDb[m] = e \/ fileDb[m] = e => uuid(e) = m
    /\ \A s, e \in Requests : zoneDb[s] = e => e = s

\* What is visible is a post of a media, and stays one.
LEMMA SeenPost ==
    ASSUME IInv, [Next]_vars, NEW e \in Requests, Seen(e)
    PROVE  IsPost(e) /\ uuid(e) \in Media /\ op'[e] = op[e] /\ uuid(e)' = uuid(e)
<1>1. IsPost(e)
  BY DEF IInv, VisInv, Known
<1>2. op'[e] = op[e]
  BY <1>1, KeptStep DEF IInv, Kept, IsPost
<1>3. QED
  BY <1>1, <1>2, OpTypes DEF IInv, IsPost, uuid

\* The request that a write or a save belongs to was received.
LEMMA WriterOp ==
    ASSUME IInv, NEW r \in Requests, pc[r] \in {"writing", "filling", "saving", "opened"}
    PROVE  /\ op[r] # Nil /\ uuid(r) \in Media
           /\ entryOf(r) \in Requests /\ uuid(entryOf(r)) = uuid(r)
           /\ pc[r] \in {"writing", "filling"} => IsPost(r)
<1>1. op[r] # Nil /\ ReqOK(r)
  BY DEF IInv, ReqInv, ReqOK
<1>2. uuid(r) \in Media /\ entryOf(r) \in Requests
  BY <1>1, OpTypes DEF IInv
<1>3. uuid(entryOf(r)) = uuid(r)
  BY <1>1 DEF ReqOK, entryOf, IsCommit
<1>4. QED
  BY <1>1, <1>2, <1>3 DEF ReqOK

\* What a step may put in the zone: the media's new post, a committed post under its
\* staging id, or what the CSV file holds.
LEMMA ZoneStep ==
    ASSUME TypeOK, [Next]_vars, NEW k \in Keys
    PROVE  \/ zoneDb'[k] = zoneDb[k] \/ zoneDb'[k] = Nil
           \/ \E r \in Requests : /\ pc[r] \in {"writing", "filling"} /\ k = uuid(r) /\ zoneDb'[k] = r
                                  /\ op' = op
           \/ \E q \in Requests : k \in Requests /\ CommitAccepted(q, k) /\ zoneDb'[k] = k
           \/ /\ k \in Media /\ zoneDb'[k] \in csv.lines /\ uuid(zoneDb'[k]) = k
              /\ op' = op
<1>1. ASSUME NEW r \in Requests, NEW answers,
             pc[r] \in {"writing", "filling"}, recordOrStageEntry(r, answers)
      PROVE  zoneDb'[k] = zoneDb[k] \/ (k = uuid(r) /\ zoneDb'[k] = r /\ op' = op)
  BY <1>1 DEF recordOrStageEntry, stageEntry, recordEntry, TypeOK
<1>2. ASSUME NEW q \in Requests, NEW s \in Requests, CommitAccepted(q, s)
      PROVE  zoneDb'[k] = zoneDb[k] \/ (k = s /\ zoneDb'[k] = k)
  BY <1>2 DEF CommitAccepted, TypeOK
<1>3. ASSUME NEW q \in Requests, NEW d \in Media, DeleteAccepted(q, d)
      PROVE  zoneDb'[k] = zoneDb[k] \/ zoneDb'[k] = Nil
  BY <1>3 DEF DeleteAccepted, TypeOK
<1>4. ASSUME LoadCsv
      PROVE  \/ zoneDb'[k] = zoneDb[k]
             \/ /\ k \in Media /\ zoneDb'[k] \in csv.lines /\ uuid(zoneDb'[k]) = k
                /\ op' = op
  <2>1. PICK line \in [Media -> csv.lines \cup {Nil}] :
          /\ \A d \in Media :
                LET lines == {l \in csv.lines : uuid(l) = d}
                IN  line[d] \in IF lines = {} THEN {Nil} ELSE lines
          /\ zoneDb' = [x \in Keys |-> IF x \in Media /\ line[x] # Nil
                                         THEN line[x] ELSE zoneDb[x]]
    BY <1>4 DEF LoadCsv
  <2>2. QED
    BY <1>4, <2>1 DEF LoadCsv
<1>5. ASSUME Stop PROVE zoneDb'[k] = Nil
  BY <1>5 DEF Stop
<1>6. ASSUME NEW r \in Requests, Request(r)
      PROVE  \/ zoneDb'[k] = zoneDb[k] \/ zoneDb'[k] = Nil
             \/ k \in Requests /\ CommitAccepted(r, k) /\ zoneDb'[k] = k
  BY <1>2, <1>3, <1>6 DEF Request, Post, CommitRefused, DeleteRefused, memory
<1>7. ASSUME NEW r \in Requests, Callback(r)
      PROVE  \/ zoneDb'[k] = zoneDb[k]
             \/ pc[r] \in {"writing", "filling"} /\ k = uuid(r) /\ zoneDb'[k] = r /\ op' = op
  BY <1>1, <1>7
     DEF Callback, WriteOpens, WriteDone, WriteFails, fill, SaveOpens, SaveDone, SaveFails, memory
<1>8. ASSUME NEW r \in Requests, Timer(r) PROVE zoneDb' = zoneDb
  BY <1>8 DEF Timer, ConfirmTimeout, TrashTimeout
<1>9. CASE Restart \/ UNCHANGED vars
  BY <1>9 DEF Restart, vars, memory
<1>10. QED
  BY <1>4, <1>5, <1>6, <1>7, <1>8, <1>9
     DEF Next, Lifecycle, Crash, WriteAfterEnd, LoadCsvFails

\* What a step may put in the database: what a save that ends was about, or what the
\* CSV file holds.
LEMMA FileDbStep ==
    ASSUME TypeOK, [Next]_vars, NEW m \in Media
    PROVE  \/ fileDb'[m] = fileDb[m] \/ fileDb'[m] = Nil
           \/ \E q \in Requests : /\ SaveDone(q) /\ ~IsDelete(q) /\ m = uuid(q)
                                  /\ fileDb'[m] = entryOf(q)
           \/ /\ fileDb'[m] \in csv.lines /\ uuid(fileDb'[m]) = m /\ op' = op
              /\ zoneDb'[m] = fileDb'[m]
<1>1. ASSUME NEW q \in Requests, SaveDone(q)
      PROVE  \/ fileDb'[m] = fileDb[m] \/ fileDb'[m] = Nil
             \/ ~IsDelete(q) /\ m = uuid(q) /\ fileDb'[m] = entryOf(q)
  BY <1>1 DEF SaveDone, TypeOK
<1>2. ASSUME LoadCsv
      PROVE  \/ fileDb'[m] = fileDb[m]
             \/ /\ fileDb'[m] \in csv.lines /\ uuid(fileDb'[m]) = m /\ op' = op
                /\ zoneDb'[m] = fileDb'[m]
  <2>1. PICK line \in [Media -> csv.lines \cup {Nil}] :
          /\ \A d \in Media :
                LET lines == {l \in csv.lines : uuid(l) = d}
                IN  line[d] \in IF lines = {} THEN {Nil} ELSE lines
          /\ zoneDb' = [x \in Keys |-> IF x \in Media /\ line[x] # Nil
                                         THEN line[x] ELSE zoneDb[x]]
          /\ fileDb' = [d \in Media |-> IF line[d] # Nil THEN line[d] ELSE fileDb[d]]
    BY <1>2 DEF LoadCsv
  <2>2. QED
    BY <1>2, <2>1 DEF LoadCsv, Keys
<1>3. ASSUME Stop PROVE fileDb'[m] = Nil
  BY <1>3 DEF Stop
<1>4. ASSUME NEW r \in Requests, Request(r) PROVE fileDb' = fileDb
  BY <1>4 DEF Request, Post, CommitAccepted, CommitRefused, DeleteAccepted, DeleteRefused, memory
<1>5. ASSUME NEW r \in Requests, Callback(r) PROVE fileDb' = fileDb \/ SaveDone(r)
  BY <1>5
     DEF Callback, WriteOpens, WriteDone, WriteFails, fill, recordOrStageEntry, SaveOpens, SaveFails, memory
<1>6. ASSUME NEW r \in Requests, Timer(r) PROVE fileDb' = fileDb
  BY <1>6 DEF Timer, ConfirmTimeout, TrashTimeout
<1>7. CASE Restart \/ UNCHANGED vars
  BY <1>7 DEF Restart, vars, memory
<1>8. QED
  BY <1>1, <1>2, <1>3, <1>4, <1>5, <1>6, <1>7
     DEF Next, Lifecycle, Crash, WriteAfterEnd, LoadCsvFails

\* Every step keeps the keys of the tables.
LEMMA KeyStep == IInv /\ KeyInv /\ [Next]_vars => KeyInv'
<1> SUFFICES ASSUME IInv, KeyInv, [Next]_vars PROVE KeyInv'
  OBVIOUS
<1>0. TypeOK
  BY DEF IInv
<1>1. ASSUME NEW m \in Media, NEW e \in Requests, zoneDb'[m] = e \/ fileDb'[m] = e
      PROVE  uuid(e)' = m
  <2>1. CASE zoneDb[m] = e \/ fileDb[m] = e
    <3>1. Seen(e)
      BY <2>1 DEF Seen, Keys
    <3>2. QED
      BY <2>1, <3>1, SeenPost DEF KeyInv
  <2>2. CASE zoneDb'[m] = e /\ zoneDb[m] # e
    BY <1>0, <2>2, ZoneStep, ConstantsAssumption DEF Keys, uuid
  <2>3. CASE fileDb'[m] = e /\ fileDb[m] # e
    <3>1. CASE \E q \in Requests : SaveDone(q) /\ m = uuid(q) /\ e = entryOf(q)
      BY <3>1, WriterOp DEF SaveDone, uuid
    <3>2. CASE uuid(e) = m /\ op' = op
      BY <3>2 DEF uuid
    <3>3. QED
      BY <1>0, <2>3, <3>1, <3>2, FileDbStep, ConstantsAssumption
  <2>4. QED
    BY <1>1, <2>1, <2>2, <2>3
<1>2. ASSUME NEW s \in Requests, NEW e \in Requests, zoneDb'[s] = e
      PROVE  e = s
  <2>1. ASSUME NEW r \in Requests, pc[r] \in {"writing", "filling"} PROVE s # uuid(r)
    BY <2>1, WriterOp, ConstantsAssumption
  <2>2. QED
    BY <1>0, <1>2, <2>1, ZoneStep, ConstantsAssumption DEF Keys, KeyInv
<1>3. QED
  BY <1>1, <1>2 DEF KeyInv

\* The tables hold each entry under its media in every reachable state.
LEMMA KeysKept == Spec => [](IInv /\ KeyInv)
<1>1. Init => KeyInv
  BY ConstantsAssumption DEF Init, KeyInv, Keys
<1>2. QED
  BY InitInv, NextInv, KeyStep, <1>1, PTL DEF Spec

(***************************************************************************)
(* What the database serves, the zone lists.                               *)
(***************************************************************************)

\* The zone lists some entry of the media.
Listed(m) == \E k \in Keys, e \in Requests : zoneDb[k] = e /\ uuid(e) = m

\* A delete of the media took its entry out of the zone; the callback that takes it
\* out of the database has not run.
Leaving(m) ==
    \E q \in Requests : IsDelete(q) /\ uuid(q) = m /\ pc[q] \in {"saving", "opened", "hung"}

\* A media that is served is listed or on its way out, and one that is about to be
\* served is listed.
ListInv ==
    /\ \A m \in Media : fileDb[m] = Nil \/ Listed(m) \/ Leaving(m)
    /\ \A q \in Requests :
          pc[q] \in {"saving", "opened"} /\ ~IsDelete(q) => Listed(uuid(q))

\* What the zone lists is an entry of its table.
LEMMA ListedEntry ==
    ASSUME TypeOK, NEW m \in Media, Listed(m)
    PROVE  \E e \in Entries(zoneDb) : uuid(e) = m
<1>1. PICK k \in Keys, e \in Requests : zoneDb[k] = e /\ uuid(e) = m
  BY DEF Listed
<1>2. e \in Entries(zoneDb)
  BY <1>1, EntriesHas, ConstantsAssumption DEF TypeOK
<1>3. QED
  BY <1>1, <1>2

\* A media stays listed until its entry is deleted or the process stops.
LEMMA ListedStep ==
    ASSUME IInv, KeyInv, [Next]_vars, NEW m \in Media, Listed(m)
    PROVE  Listed(m)' \/ Stop \/ \E q \in Requests : DeleteAccepted(q, m)
<1>0. TypeOK
  BY DEF IInv
<1>1. PICK k \in Keys, e \in Requests : zoneDb[k] = e /\ uuid(e) = m
  BY DEF Listed
<1>2. Seen(e) /\ uuid(e)' = m
  BY <1>1, SeenPost DEF Seen
<1>3. CASE zoneDb'[k] = zoneDb[k]
  BY <1>1, <1>2, <1>3 DEF Listed
<1>4. CASE zoneDb'[k] = Nil
  <2>1. ASSUME NEW q \in Requests, NEW s \in Requests, CommitAccepted(q, s) PROVE FALSE
    BY <1>0, <1>1, <1>4, <2>1, ConstantsAssumption DEF CommitAccepted, TypeOK
  <2>2. ASSUME NEW q \in Requests, NEW d \in Media, DeleteAccepted(q, d)
        PROVE  d = m
    BY <1>0, <1>1, <1>4, <2>2, ConstantsAssumption DEF DeleteAccepted, TypeOK, KeyInv
  <2>3. ASSUME zoneDb' = zoneDb PROVE FALSE
    BY <1>1, <1>4, <2>3, ConstantsAssumption
  <2>4. ASSUME LoadCsv PROVE FALSE
    BY <1>1, <1>4, <2>4, ConstantsAssumption DEF LoadCsv
  <2>5. ASSUME NEW r \in Requests, NEW answers, recordOrStageEntry(r, answers)
        PROVE  FALSE
    BY <1>0, <1>1, <1>4, <2>5, ConstantsAssumption
       DEF recordOrStageEntry, stageEntry, recordEntry, TypeOK
  <2>6. QED
    BY <2>1, <2>2, <2>3, <2>4, <2>5
       DEF Next, Request, Post, CommitRefused, DeleteRefused, Callback, WriteOpens, WriteDone, WriteFails, fill,
           SaveOpens, SaveDone, SaveFails, Timer, ConfirmTimeout, TrashTimeout, Lifecycle,
           Crash, WriteAfterEnd, Restart, LoadCsvFails, vars, memory
<1>5. CASE \E f \in Requests : zoneDb'[k] = f /\ uuid(f)' = m
  BY <1>5 DEF Listed
<1>6. CASE \E r \in Requests : pc[r] \in {"writing", "filling"} /\ k = uuid(r) /\ zoneDb'[k] = r /\ op' = op
  BY <1>1, <1>5, <1>6, WriterOp DEF KeyInv, uuid
<1>7. CASE k \in Requests /\ zoneDb'[k] = k
  BY <1>1, <1>3, <1>7 DEF KeyInv
<1>8. CASE k \in Media /\ zoneDb'[k] \in csv.lines /\ uuid(zoneDb'[k]) = k /\ op' = op
  <2>1. k = m /\ zoneDb'[k] \in Requests
    BY <1>0, <1>1, <1>8 DEF KeyInv, TypeOK, Csv
  <2>2. PICK f \in Requests : f = zoneDb'[k]
    BY <2>1
  <2>3. uuid(f)' = m
    BY <1>8, <2>1, <2>2 DEF uuid
  <2>4. QED
    BY <1>5, <2>2, <2>3
<1>9. QED
  BY <1>0, <1>3, <1>4, <1>6, <1>7, <1>8, ZoneStep

\* A save begins where a content was written, or where a commit or a delete was
\* accepted.
LEMMA SaveBegins ==
    ASSUME TypeOK, [Next]_vars, NEW q \in Requests,
           pc'[q] \in {"saving", "opened"}, pc[q] \notin {"saving", "opened"}
    PROVE  /\ saveZoneCSV(q) /\ csv' = csv /\ server' = server
           /\ \A r \in Requests : r # q => pc'[r] = pc[r]
           /\ \/ pc[q] \in {"writing", "filling"} /\ recordEntry(q) /\ op' = op
              \/ \E s \in Requests : CommitAccepted(q, s)
              \/ \E m \in Media : DeleteAccepted(q, m)
<1> DEFINE P == /\ saveZoneCSV(q) /\ csv' = csv /\ server' = server
                /\ \A r \in Requests : r # q => pc'[r] = pc[r]
                /\ \/ pc[q] \in {"writing", "filling"} /\ recordEntry(q) /\ op' = op
                   \/ \E s \in Requests : CommitAccepted(q, s)
                   \/ \E m \in Media : DeleteAccepted(q, m)
<1>1. ASSUME NEW r \in Requests, NEW answers,
             pc[r] \in {"writing", "filling"}, recordOrStageEntry(r, answers)
      PROVE  P
  <2>1. r = q /\ recordEntry(q)
    BY <1>1
       DEF recordOrStageEntry, recordEntry, saveZoneCSV, stageEntry, afterAnswer, TypeOK
  <2>2. saveZoneCSV(q) /\ csv' = csv /\ server' = server /\ op' = op
    BY <1>1, <2>1 DEF recordOrStageEntry, recordEntry, process
  <2>3. \A t \in Requests : t # q => pc'[t] = pc[t]
    BY <2>2 DEF saveZoneCSV, TypeOK
  <2>4. QED
    BY <1>1, <2>1, <2>2, <2>3
<1>2. ASSUME NEW r \in Requests, saveZoneCSV(r)
      PROVE  r = q /\ \A t \in Requests : t # q => pc'[t] = pc[t]
  BY <1>2 DEF saveZoneCSV, TypeOK
<1>3. ASSUME NEW r \in Requests, NEW s \in Requests, CommitAccepted(r, s) PROVE P
  BY <1>2, <1>3 DEF CommitAccepted, process
<1>4. ASSUME NEW r \in Requests, NEW m \in Media, DeleteAccepted(r, m) PROVE P
  BY <1>2, <1>4 DEF DeleteAccepted, process
<1>5. ASSUME NEW r \in Requests, NEW v \in PC, pc' = [pc EXCEPT ![r] = v],
             v \notin {"saving", "opened"} \/ pc[r] = "saving"
      PROVE  FALSE
  BY <1>5 DEF TypeOK
<1>6. ASSUME NEW r \in Requests, Request(r) PROVE P
  <2>1. ASSUME NEW m \in Media, NEW kind, Post(r, m, kind) PROVE FALSE
    BY <1>5, <2>1 DEF Post, PC
  <2>2. ASSUME NEW s \in Requests, CommitRefused(r, s) PROVE FALSE
    BY <1>5, <2>2 DEF CommitRefused, PC
  <2>3. ASSUME NEW m \in Media, DeleteRefused(r, m) PROVE FALSE
    BY <1>5, <2>3 DEF DeleteRefused, PC
  <2>4. QED
    BY <1>3, <1>4, <1>6, <2>1, <2>2, <2>3 DEF Request
<1>7. ASSUME NEW r \in Requests, Callback(r) PROVE P
  <2>1. ASSUME WriteOpens(r) \/ SaveOpens(r) \/ SaveDone(r) \/ SaveFails(r) PROVE FALSE
    BY <1>5, <2>1 DEF WriteOpens, SaveOpens, SaveDone, SaveFails, afterAnswer, PC
  <2>2. QED
    BY <1>1, <1>7, <2>1 DEF Callback, WriteDone, WriteFails, fill
<1>8. ASSUME pc' = pc PROVE FALSE
  BY <1>8
<1>9. ASSUME Stop PROVE FALSE
  BY <1>9 DEF Stop, Pending, Writing
<1>10. ASSUME NEW r \in Requests, Timer(r) PROVE FALSE
  BY <1>8, <1>10 DEF Timer, ConfirmTimeout, TrashTimeout
<1>11. QED
  BY <1>6, <1>7, <1>8, <1>9, <1>10
     DEF Next, Lifecycle, Crash, WriteAfterEnd, Restart, LoadCsv, LoadCsvFails, vars

\* An accepted delete is about its media.
LEMMA DeleteIs ==
    ASSUME TypeOK, NEW q \in Requests, NEW m \in Media, DeleteAccepted(q, m)
    PROVE  /\ IsDelete(q)' /\ uuid(q)' = m /\ pc'[q] \in {"saving", "hung"}
           /\ pc[q] = "idle"
<1>1. op' = [op EXCEPT ![q] = [kind |-> "delete", media |-> m, suid |-> Nil]]
      /\ pc[q] = "idle"
  BY DEF DeleteAccepted, Delete, MayStart
<1>2. op'[q] = [kind |-> "delete", media |-> m, suid |-> Nil]
  BY <1>1 DEF TypeOK
<1>3. IsDelete(q)' /\ uuid(q)' = m
  BY <1>2, DeleteOpHas DEF IsDelete, uuid
<1>4. pc'[q] \in {"saving", "hung"}
  BY DEF DeleteAccepted, saveZoneCSV, TypeOK
<1>5. QED
  BY <1>1, <1>3, <1>4

\* An accepted commit is about the media of its post.
LEMMA CommitIs ==
    ASSUME IInv, NEW q \in Requests, NEW s \in Requests, CommitAccepted(q, s)
    PROVE  /\ IsCommit(q)' /\ entryOf(q)' = s /\ uuid(q)' = uuid(s) /\ uuid(s)' = uuid(s)
           /\ uuid(s) \in Media /\ IsStaged(s) /\ s \in staging /\ pc[q] = "idle"
<1>1. op' = [op EXCEPT ![q] = [kind |-> "commit", media |-> uuid(s), suid |-> s]]
      /\ pc[q] = "idle" /\ IsStaged(s) /\ s \in staging
  BY DEF CommitAccepted, Commit, MayStart
<1>2. uuid(s) \in Media /\ op[q] = Nil /\ op[s] # Nil
  BY <1>1, OpTypes DEF IInv, IsStaged, ReqInv, ReqOK
<1>3. op'[q] = [kind |-> "commit", media |-> uuid(s), suid |-> s] /\ op'[s] = op[s]
  BY <1>1, <1>2 DEF IInv, TypeOK
<1>4. QED
  BY <1>1, <1>2, <1>3, CommitOpHas DEF IsCommit, entryOf, uuid

\* A delete that was accepted stays on its way out until its last callback runs.
LEMMA LeavingStep ==
    ASSUME IInv, [Next]_vars, "csvError" \notin Faults, NEW m \in Media, Leaving(m)
    PROVE  Leaving(m)' \/ fileDb'[m] = Nil
<1>0. TypeOK /\ Kept
  BY KeptStep DEF IInv
<1>1. PICK q \in Requests : IsDelete(q) /\ uuid(q) = m /\ pc[q] \in {"saving", "opened", "hung"}
  BY DEF Leaving
<1>2. IsDelete(q)' /\ uuid(q)' = m
  BY <1>0, <1>1 DEF Kept, IsDelete, uuid
<1>3. ASSUME pc'[q] \in {"saving", "opened", "hung"} PROVE Leaving(m)'
  BY <1>2, <1>3 DEF Leaving
<1>4. ASSUME NEW r \in Requests, Request(r) PROVE pc'[q] = pc[q]
  BY <1>0, <1>1, <1>4
     DEF Request, Post, CommitAccepted, CommitRefused, Commit, DeleteAccepted, DeleteRefused,
         Delete, MayStart, saveZoneCSV, TypeOK
<1>5. ASSUME NEW r \in Requests, WriteOpens(r) \/ WriteDone(r) \/ WriteFails(r)
      PROVE  pc'[q] = pc[q]
  BY <1>0, <1>1, <1>5
     DEF WriteOpens, WriteDone, WriteFails, fill, recordOrStageEntry, recordEntry, stageEntry, saveZoneCSV, TypeOK
<1>6. ASSUME NEW r \in Requests, SaveOpens(r)
      PROVE  pc'[q] \in {"saving", "opened", "hung"}
  BY <1>0, <1>1, <1>6 DEF SaveOpens, TypeOK
<1>7. ASSUME NEW r \in Requests, SaveDone(r) PROVE Leaving(m)' \/ fileDb'[m] = Nil
  <2>1. CASE r = q
    BY <1>0, <1>1, <1>7, <2>1 DEF SaveDone, TypeOK
  <2>2. CASE r # q
    BY <1>0, <1>1, <1>3, <1>7, <2>2 DEF SaveDone, TypeOK
  <2>3. QED
    BY <2>1, <2>2
<1>8. ASSUME NEW r \in Requests, Callback(r) PROVE Leaving(m)' \/ fileDb'[m] = Nil
  BY <1>1, <1>3, <1>5, <1>6, <1>7, <1>8 DEF Callback, SaveFails
<1>9. ASSUME Stop PROVE fileDb'[m] = Nil
  BY <1>9 DEF Stop
<1>10. ASSUME pc' = pc PROVE Leaving(m)'
  BY <1>1, <1>3, <1>10
<1>11. QED
  BY <1>1, <1>3, <1>4, <1>8, <1>9, <1>10
     DEF Next, Timer, ConfirmTimeout, TrashTimeout, Lifecycle, Crash, WriteAfterEnd, Restart,
         LoadCsv, LoadCsvFails, vars

\* Where no client starts a request on a media that another one is busy with, and the
\* CSV file can be written, every step keeps the agreement of the two tables.
LEMMA ListStep ==
    ASSUME "overlapMedia" \notin Faults, "csvError" \notin Faults,
           IInv, KeyInv, ListInv, [Next]_vars
    PROVE  ListInv'
<1>0. TypeOK /\ Kept
  BY KeptStep DEF IInv
<1>1. ASSUME NEW m \in Media, fileDb'[m] # Nil PROVE Listed(m)' \/ Leaving(m)'
  <2>1. ~Stop
    BY <1>1 DEF Stop
  <2>2. ASSUME Listed(m) PROVE Listed(m)' \/ Leaving(m)'
    <3>1. ASSUME NEW q \in Requests, DeleteAccepted(q, m) PROVE Leaving(m)'
      BY <1>0, <3>1, DeleteIs DEF Leaving
    <3>2. QED
      BY <2>1, <2>2, <3>1, ListedStep
  <2>3. CASE fileDb'[m] = fileDb[m]
    BY <1>1, <2>2, <2>3, LeavingStep DEF ListInv
  <2>4. ASSUME NEW q \in Requests, SaveDone(q), ~IsDelete(q), m = uuid(q)
        PROVE  Listed(m)' \/ Leaving(m)'
    BY <2>2, <2>4 DEF ListInv, SaveDone
  <2>5. CASE /\ fileDb'[m] \in csv.lines /\ uuid(fileDb'[m]) = m /\ op' = op
             /\ zoneDb'[m] = fileDb'[m]
    <3>1. PICK e \in Requests : e = fileDb'[m]
      BY <1>0, <2>5 DEF TypeOK, Csv
    <3>2. zoneDb'[m] = e /\ uuid(e)' = m /\ m \in Keys
      BY <2>5, <3>1 DEF uuid, Keys
    <3>3. QED
      BY <3>2 DEF Listed
  <2>6. QED
    BY <1>0, <1>1, <2>3, <2>4, <2>5, FileDbStep
<1>2. ASSUME NEW q \in Requests, pc'[q] \in {"saving", "opened"}, ~IsDelete(q)'
      PROVE  Listed(uuid(q))'
  <2>1. CASE pc[q] \in {"saving", "opened"}
    <3>1. op'[q] = op[q] /\ uuid(q) \in Media /\ op[q] # Nil
      BY <1>0, <2>1, WriterOp DEF Kept
    <3>2. Listed(uuid(q))
      BY <1>2, <2>1, <3>1 DEF ListInv, IsDelete
    <3>3. ~Stop
      BY <1>2 DEF Stop, Pending, Writing
    <3>4. ASSUME NEW d \in Requests, DeleteAccepted(d, uuid(q)) PROVE FALSE
      BY <2>1, <3>1, <3>4 DEF DeleteAccepted, Delete, MayStart, Working, Pending, Writing
    <3>5. PICK m \in Media : m = uuid(q)
      BY <3>1
    <3>6. Listed(m)' /\ m = uuid(q)'
      BY <3>1, <3>2, <3>3, <3>4, <3>5, ListedStep DEF uuid
    <3>7. QED
      BY <3>6
  <2>2. CASE pc[q] \notin {"saving", "opened"}
    <3>1. CASE pc[q] \in {"writing", "filling"} /\ recordEntry(q) /\ op' = op
      <4>1. uuid(q) \in Media /\ uuid(q)' = uuid(q)
        BY <3>1, WriterOp DEF uuid
      <4>2. uuid(q) \in Keys /\ zoneDb'[uuid(q)] = q
        BY <1>0, <3>1, <4>1 DEF recordEntry, TypeOK, Keys
      <4>3. QED
        BY <4>1, <4>2 DEF Listed
    <3>2. ASSUME NEW s \in Requests, CommitAccepted(q, s) PROVE Listed(uuid(q))'
      <4>1. s \in Keys /\ zoneDb'[s] = s
        BY <1>0, <3>2 DEF CommitAccepted, TypeOK, Keys
      <4>2. uuid(s)' = uuid(q)'
        BY <3>2, CommitIs
      <4>3. QED
        BY <4>1, <4>2 DEF Listed
    <3>3. ASSUME NEW m \in Media, DeleteAccepted(q, m) PROVE FALSE
      BY <1>0, <1>2, <3>3, DeleteIs
    <3>4. QED
      BY <1>0, <1>2, <2>2, <3>1, <3>2, <3>3, SaveBegins
  <2>3. QED
    BY <2>1, <2>2
<1>3. QED
  BY <1>1, <1>2 DEF ListInv

\* Where the CSV file can be written and no client starts a request on a media that
\* another one is busy with, the database serves a media whose requests are over only
\* when the zone lists it: whatever requests on other media are under way at the same
\* time, whatever contents fail to be written, with requests served before the CSV
\* file is loaded, and across any number of stops.
THEOREM ServedAreListed ==
    ASSUME "overlapMedia" \notin Faults, "csvError" \notin Faults
    PROVE  Spec => []ServedIsListed
<1>1. Init => ListInv
  BY ConstantsAssumption DEF Init, ListInv
<1>2. IInv /\ KeyInv /\ ListInv /\ [Next]_vars => ListInv'
  BY ListStep
<1>3. IInv /\ ListInv => ServedIsListed
  <2> SUFFICES ASSUME IInv, ListInv, NEW m \in Media, fileDb[m] # Nil
               PROVE  \/ Working(m)
                      \/ \E q \in Requests : pc[q] = "hung" /\ uuid(q) = m
                      \/ \E e \in Entries(zoneDb) : uuid(e) = m
    BY DEF ServedIsListed
  <2>1. CASE Listed(m)
    BY <2>1, ListedEntry DEF IInv
  <2>2. CASE Leaving(m)
    BY <2>2 DEF Leaving, Working, Pending, Writing, IsDelete
  <2>3. QED
    BY <2>1, <2>2 DEF ListInv
<1>4. QED
  BY KeysKept, <1>1, <1>2, <1>3, PTL DEF Spec

(***************************************************************************)
(* The files: which post created the file that a path names, and which     *)
(* writes are open on it.                                                  *)
(***************************************************************************)

\* A write of the post opened a file.
Created(f) == pc[f] \notin {"idle", "writing"}

\* A path names a file that a post of its media created, two paths never name the
\* same file, and a write is open on a file of its media.
FileInv ==
    /\ \A m \in Media, f \in Requests :
          final[m] = f \/ staged[m] = f => Created(f) /\ uuid(f) = m
    /\ \A m \in Media : staged[m] # Nil => staged[m] # final[m]
    /\ \A r \in Requests :
          /\ pc[r] = "filling" <=> fd[r] # Nil
          /\ \A f \in Requests : fd[r] = f => Created(f) /\ uuid(f) = uuid(r)

\* A content is being written from the step that received its post.
LEMMA WritingStep ==
    ASSUME TypeOK, [Next]_vars, NEW q \in Requests, pc'[q] = "writing", pc[q] # "writing"
    PROVE  \E m \in Media, kind \in Modes : Post(q, m, kind)
<1>1. ASSUME NEW r \in Requests, NEW m \in Media, NEW kind \in Modes, Post(r, m, kind)
      PROVE  r = q
  BY <1>1 DEF Post, TypeOK
<1>2. ASSUME NEW r \in Requests, Request(r), ~\E m \in Media, kind \in Modes : Post(r, m, kind)
      PROVE  FALSE
  BY <1>2
     DEF Request, CommitAccepted, CommitRefused, DeleteAccepted, DeleteRefused, saveZoneCSV,
         TypeOK
<1>3. ASSUME NEW r \in Requests, Callback(r) PROVE FALSE
  BY <1>3
     DEF Callback, WriteOpens, WriteDone, WriteFails, recordOrStageEntry, recordEntry, stageEntry,
         saveZoneCSV, afterAnswer, SaveOpens, SaveDone, SaveFails, TypeOK
<1>4. QED
  BY <1>1, <1>2, <1>3
     DEF Next, Timer, ConfirmTimeout, TrashTimeout, Lifecycle, Crash, WriteAfterEnd, Restart,
         LoadCsv, LoadCsvFails, Stop, Pending, Writing, vars

\* A file is open from the step that opens it to the callback of its write.
LEMMA FillingStep ==
    ASSUME TypeOK, [Next]_vars, NEW q \in Requests
    PROVE  \/ (pc'[q] = "filling" <=> pc[q] = "filling") /\ fd'[q] = fd[q]
           \/ WriteOpens(q) \/ WriteDone(q) \/ WriteFails(q) \/ Stop
<1> DEFINE Same == (pc'[q] = "filling" <=> pc[q] = "filling") /\ fd'[q] = fd[q]
<1>1. ASSUME NEW r \in Requests, Request(r) PROVE Same
  <2>1. fd' = fd
    BY <1>1
       DEF Request, Post, CommitAccepted, CommitRefused, DeleteAccepted, DeleteRefused, disk
  <2>2. pc[r] = "idle"
    BY <1>1
       DEF Request, Post, CommitAccepted, CommitRefused, Commit, DeleteAccepted, DeleteRefused,
           Delete, MayStart
  <2>3. \E to \in PC \ {"filling"} : pc' = [pc EXCEPT ![r] = to]
    BY <1>1
       DEF Request, Post, CommitAccepted, CommitRefused, DeleteAccepted, DeleteRefused,
           saveZoneCSV, PC
  <2>4. QED
    BY <2>1, <2>2, <2>3 DEF TypeOK
<1>2. ASSUME NEW r \in Requests, r # q, WriteOpens(r) \/ WriteDone(r) \/ WriteFails(r)
      PROVE  Same
  <2>1. fd'[q] = fd[q]
    BY <1>2 DEF WriteOpens, WriteDone, WriteFails, fill, TypeOK
  <2>2. pc'[q] = pc[q]
    BY <1>2
       DEF WriteOpens, WriteDone, WriteFails, fill, recordOrStageEntry, recordEntry, stageEntry,
           saveZoneCSV, TypeOK
  <2>3. QED
    BY <2>1, <2>2
<1>3. ASSUME NEW r \in Requests, SaveOpens(r) \/ SaveDone(r) \/ SaveFails(r) PROVE Same
  BY <1>3 DEF SaveOpens, SaveDone, SaveFails, afterAnswer, disk, TypeOK
<1>4. ASSUME NEW r \in Requests, Timer(r) PROVE Same
  BY <1>4 DEF Timer, ConfirmTimeout, TrashTimeout, disk
<1>5. CASE Restart \/ LoadCsv \/ UNCHANGED vars
  BY <1>5 DEF Restart, LoadCsv, vars, disk
<1>6. QED
  BY <1>1, <1>2, <1>3, <1>4, <1>5
     DEF Next, Callback, Lifecycle, Crash, WriteAfterEnd, LoadCsvFails

\* A file that was created stays the file of its post.
LEMMA CreatedStep ==
    ASSUME IInv, [Next]_vars, NEW f \in Requests, Created(f)
    PROVE  Created(f)' /\ op[f] # Nil /\ uuid(f) \in Media /\ uuid(f)' = uuid(f)
<1>1. op[f] # Nil
  BY DEF Created, IInv, ReqInv, ReqOK
<1>2. op'[f] = op[f] /\ uuid(f) \in Media
  BY <1>1, KeptStep, OpTypes DEF IInv, Kept
<1>3. pc'[f] # "idle"
  BY <1>1, <1>2, ReqStep DEF IInv, ReqInv, ReqOK
<1>4. ASSUME pc'[f] = "writing" PROVE FALSE
  <2>1. PICK m \in Media, kind \in Modes : Post(f, m, kind)
    BY <1>4, WritingStep DEF Created, IInv
  <2>2. pc[f] = "idle"
    BY <2>1 DEF Post, MayStart
  <2>3. QED
    BY <2>2 DEF Created
<1>5. QED
  BY <1>1, <1>2, <1>3, <1>4 DEF Created, uuid

\* How a step may change the paths of a media: a write opens a file, a timer, a delete
\* removes it, a commit moves it.
LEMMA PathStep ==
    ASSUME IInv, [Next]_vars, NEW m \in Media
    PROVE  \/ staged'[m] = staged[m] /\ final'[m] = final[m]
           \/ /\ \E t \in staging : uuid(t) = m /\ staging' = staging \ {t}
              /\ staged'[m] = Nil /\ final'[m] = final[m]
           \/ /\ \E q \in Requests : DeleteAccepted(q, m)
              /\ staged'[m] = staged[m] /\ final'[m] = Nil
           \/ \E r \in Requests :
                 /\ WriteOpens(r) /\ uuid(r) = m
                 /\ \/ op[r].kind = "staged" /\ staged'[m] = opens(r) /\ final'[m] = final[m]
                    \/ op[r].kind # "staged" /\ final'[m] = opens(r) /\ staged'[m] = staged[m]
           \/ /\ \E q, s \in Requests : /\ CommitAccepted(q, s) /\ uuid(s) = m
                                        /\ s \in staging /\ staging' = staging \ {s}
              /\ staged'[m] = Nil /\ final'[m] = staged[m] /\ staged[m] # Nil
<1>0. TypeOK
  BY DEF IInv
<1>1. ASSUME NEW t \in Requests, ConfirmTimeout(t)
      PROVE  \/ staged'[m] = staged[m] /\ final'[m] = final[m]
             \/ /\ t \in staging /\ uuid(t) = m /\ staging' = staging \ {t}
                /\ staged'[m] = Nil /\ final'[m] = final[m]
  BY <1>0, <1>1 DEF ConfirmTimeout, TypeOK
<1>2. ASSUME NEW q \in Requests, NEW d \in Media, DeleteAccepted(q, d)
      PROVE  \/ staged'[m] = staged[m] /\ final'[m] = final[m]
             \/ d = m /\ staged'[m] = staged[m] /\ final'[m] = Nil
  BY <1>0, <1>2 DEF DeleteAccepted, TypeOK
<1>3. ASSUME NEW r \in Requests, WriteOpens(r)
      PROVE  \/ staged'[m] = staged[m] /\ final'[m] = final[m]
             \/ /\ uuid(r) = m
                /\ \/ op[r].kind = "staged" /\ staged'[m] = opens(r) /\ final'[m] = final[m]
                   \/ op[r].kind # "staged" /\ final'[m] = opens(r) /\ staged'[m] = staged[m]
  BY <1>0, <1>3 DEF WriteOpens, TypeOK
<1>4. ASSUME NEW q \in Requests, NEW s \in Requests, CommitAccepted(q, s)
      PROVE  \/ staged'[m] = staged[m] /\ final'[m] = final[m]
             \/ /\ uuid(s) = m /\ s \in staging /\ staging' = staging \ {s}
                /\ staged'[m] = Nil /\ final'[m] = staged[m] /\ staged[m] # Nil
  BY <1>0, <1>4 DEF CommitAccepted, disk, TypeOK
<1>5. ASSUME NEW r \in Requests,
             \/ \E d \in Media, kind \in Modes : Post(r, d, kind)
             \/ \E s \in Requests : CommitRefused(r, s)
             \/ \E d \in Media : DeleteRefused(r, d)
      PROVE  staged' = staged /\ final' = final
  BY <1>5 DEF Post, CommitRefused, DeleteRefused, disk
<1>6. ASSUME NEW r \in Requests, Callback(r), ~WriteOpens(r)
      PROVE  staged' = staged /\ final' = final
  BY <1>6 DEF Callback, WriteDone, WriteFails, SaveOpens, SaveDone, SaveFails, disk
<1>7. ASSUME NEW r \in Requests, TrashTimeout(r) PROVE staged' = staged /\ final' = final
  BY <1>7 DEF TrashTimeout, disk
<1>8. ASSUME Stop \/ Restart \/ LoadCsv \/ UNCHANGED vars
      PROVE  staged' = staged /\ final' = final
  BY <1>8 DEF Stop, Restart, LoadCsv, vars, disk
<1>9. ASSUME NEW r \in Requests, Request(r)
      PROVE  \/ staged' = staged /\ final' = final
             \/ \E s \in Requests : CommitAccepted(r, s)
             \/ \E d \in Media : DeleteAccepted(r, d)
  BY <1>5, <1>9 DEF Request
<1>10. QED
  BY <1>1, <1>2, <1>3, <1>4, <1>6, <1>7, <1>8, <1>9
     DEF Next, Timer, Lifecycle, Crash, WriteAfterEnd, LoadCsvFails

\* The content of a file changes when a write opens it, or while one is open on it.
LEMMA DataStep ==
    ASSUME TypeOK, [Next]_vars, NEW f \in Requests
    PROVE  \/ data'[f] = data[f]
           \/ \E r \in Requests : WriteOpens(r) /\ opens(r) = f
           \/ \E r \in Requests : /\ pc[r] = "filling" /\ fd[r] = f
                                  /\ WriteDone(r) \/ WriteFails(r) \/ Stop
<1>1. ASSUME NEW r \in Requests, Request(r) PROVE data' = data
  BY <1>1
     DEF Request, Post, CommitAccepted, CommitRefused, DeleteAccepted, DeleteRefused, disk
<1>2. ASSUME NEW r \in Requests, WriteOpens(r)
      PROVE  data'[f] = data[f] \/ opens(r) = f
  BY <1>2 DEF WriteOpens, TypeOK
<1>3. ASSUME NEW r \in Requests, WriteDone(r) \/ WriteFails(r)
      PROVE  data'[f] = data[f] \/ (pc[r] = "filling" /\ fd[r] = f)
  BY <1>3 DEF WriteDone, WriteFails, fill, TypeOK
<1>4. ASSUME NEW r \in Requests, Callback(r), ~WriteOpens(r), ~WriteDone(r), ~WriteFails(r)
      PROVE  data' = data
  BY <1>4 DEF Callback, SaveOpens, SaveDone, SaveFails, disk
<1>5. ASSUME NEW r \in Requests, Timer(r) PROVE data' = data
  BY <1>5 DEF Timer, ConfirmTimeout, TrashTimeout, disk
<1>6. ASSUME Stop, ~\E r \in Requests : pc[r] = "filling" /\ fd[r] = f
      PROVE  data'[f] = data[f]
  <2>1. data'[f] \in Leftovers(f)
    BY <1>6 DEF Stop, AfterStop
  <2>2. {r \in Requests : pc[r] = "filling" /\ fd[r] = f} = {}
    BY <1>6
  <2>3. QED
    BY <2>1, <2>2 DEF Leftovers
<1>7. CASE Restart \/ LoadCsv \/ UNCHANGED vars
  BY <1>7 DEF Restart, LoadCsv, vars, disk
<1>8. QED
  BY <1>1, <1>2, <1>3, <1>4, <1>5, <1>6, <1>7
     DEF Next, Lifecycle, Crash, WriteAfterEnd, LoadCsvFails

\* A write that opens a file of a media, or a new one, is a write of that media.
LEMMA OpensOwn ==
    ASSUME IInv, FileInv, NEW r \in Requests, WriteOpens(r)
    PROVE  /\ IsPost(r) /\ uuid(r) \in Media /\ opens(r) \in Requests
           /\ opens(r) # r => Created(opens(r)) /\ opens(r) = target(r)
           /\ uuid(opens(r)) = uuid(r)
<1>1. pc[r] = "writing"
  BY DEF WriteOpens
<1>2. IsPost(r) /\ uuid(r) \in Media /\ opens(r) \in Requests
  BY <1>1, WriterOp, FileTypes DEF IInv
<1>3. ASSUME target(r) # Nil
      PROVE  opens(r) = target(r) /\ Created(opens(r)) /\ uuid(opens(r)) = uuid(r)
  BY <1>2, <1>3 DEF FileInv, opens, target
<1>4. target(r) = Nil => opens(r) = r
  BY DEF opens
<1>5. QED
  BY <1>2, <1>3, <1>4

\* Every step keeps the agreement of the paths, the files and the writes.
LEMMA FileStep == IInv /\ FileInv /\ [Next]_vars => FileInv'
<1> SUFFICES ASSUME IInv, FileInv, [Next]_vars PROVE FileInv'
  OBVIOUS
<1>0. TypeOK
  BY DEF IInv
<1>1. ASSUME NEW r \in Requests, WriteOpens(r), NEW f, f = opens(r)
      PROVE  /\ Created(f)' /\ f \in Requests /\ uuid(f)' = uuid(r) /\ uuid(r)' = uuid(r)
             /\ fd'[r] = f /\ pc'[r] = "filling" /\ pc[r] = "writing"
  <2>1. pc[r] = "writing" /\ pc'[r] = "filling" /\ fd'[r] = opens(r) /\ op' = op
    BY <1>0, <1>1 DEF WriteOpens, TypeOK
  <2>2. f \in Requests /\ uuid(f) = uuid(r) /\ (f # r => Created(f))
    BY <1>1, OpensOwn
  <2>3. uuid(f)' = uuid(f) /\ uuid(r)' = uuid(r)
    BY <2>1 DEF uuid
  <2>4. Created(r)'
    BY <2>1 DEF Created
  <2>5. Created(f)'
    BY <2>2, <2>4, CreatedStep
  <2>6. QED
    BY <1>1, <2>1, <2>2, <2>3, <2>5
<1>2. ASSUME NEW m \in Media, NEW f \in Requests, final'[m] = f \/ staged'[m] = f
      PROVE  Created(f)' /\ uuid(f)' = m
  <2>1. CASE final[m] = f \/ staged[m] = f
    BY <2>1, CreatedStep DEF FileInv
  <2>2. CASE ~(final[m] = f \/ staged[m] = f)
    <3>1. PICK r \in Requests : WriteOpens(r) /\ uuid(r) = m /\ f = opens(r)
      BY <1>2, <2>2, PathStep, ConstantsAssumption
    <3>2. QED
      BY <1>1, <3>1
  <2>3. QED
    BY <2>1, <2>2
<1>3. ASSUME NEW m \in Media, staged'[m] # Nil PROVE staged'[m] # final'[m]
  <2>1. CASE staged'[m] = staged[m] /\ final'[m] \in {final[m], Nil}
    BY <1>3, <2>1 DEF FileInv
  <2>2. ASSUME NEW r \in Requests, WriteOpens(r), uuid(r) = m, op[r].kind = "staged",
               staged'[m] = opens(r), final'[m] = final[m]
        PROVE  staged'[m] # final'[m]
    <3>1. opens(r) = IF staged[m] = Nil THEN r ELSE staged[m]
      BY <2>2 DEF opens, target
    <3>2. final[m] # r
      BY <1>1, <2>2 DEF FileInv, Created
    <3>3. QED
      BY <2>2, <3>1, <3>2 DEF FileInv
  <2>3. ASSUME NEW r \in Requests, WriteOpens(r), uuid(r) = m, op[r].kind # "staged",
               final'[m] = opens(r), staged'[m] = staged[m]
        PROVE  staged'[m] # final'[m]
    <3>1. opens(r) = IF final[m] = Nil THEN r ELSE final[m]
      BY <2>3 DEF opens, target
    <3>2. staged[m] # r
      BY <1>1, <2>3 DEF FileInv, Created
    <3>3. QED
      BY <1>3, <2>3, <3>1, <3>2 DEF FileInv
  <2>4. QED
    BY <1>3, <2>1, <2>2, <2>3, PathStep
<1>4. ASSUME NEW r \in Requests
      PROVE  /\ pc'[r] = "filling" <=> fd'[r] # Nil
             /\ \A f \in Requests : fd'[r] = f => Created(f)' /\ uuid(f)' = uuid(r)'
  <2>1. CASE WriteOpens(r)
    BY <1>1, <2>1, ConstantsAssumption
  <2>2. CASE WriteDone(r) \/ WriteFails(r)
    <3>1. fd'[r] = Nil
      BY <1>0, <2>2 DEF WriteDone, WriteFails, fill, FileInv, TypeOK
    <3>2. pc'[r] # "filling"
      BY <1>0, <2>2
         DEF WriteDone, WriteFails, recordOrStageEntry, recordEntry, stageEntry, saveZoneCSV,
             afterAnswer, TypeOK
    <3>3. QED
      BY <3>1, <3>2, ConstantsAssumption
  <2>3. CASE Stop
    BY <2>3, ConstantsAssumption DEF Stop, Pending, Writing
  <2>4. CASE (pc'[r] = "filling" <=> pc[r] = "filling") /\ fd'[r] = fd[r]
    <3>1. ASSUME NEW f \in Requests, fd[r] = f PROVE Created(f)' /\ uuid(f)' = uuid(r)'
      <4>1. Created(f) /\ uuid(f) = uuid(r) /\ pc[r] = "filling"
        BY <3>1, ConstantsAssumption DEF FileInv
      <4>2. Created(r)
        BY <4>1 DEF Created
      <4>3. QED
        BY <4>1, <4>2, CreatedStep
    <3>2. QED
      BY <2>4, <3>1 DEF FileInv
  <2>5. QED
    BY <1>0, <2>1, <2>2, <2>3, <2>4, FillingStep
<1>5. QED
  BY <1>2, <1>3, <1>4 DEF FileInv

\* The paths, the files and the writes agree in every reachable state.
LEMMA FilesKept == Spec => [](IInv /\ FileInv)
<1>1. Init => FileInv
  BY ConstantsAssumption DEF Init, FileInv
<1>2. QED
  BY Invariance, FileStep, <1>1, PTL DEF Spec

(***************************************************************************)
(* What the database serves is whole.                                      *)
(***************************************************************************)

\* Every post of the media goes through staging.
StagedOnly(m) == \A r \in Requests : IsPost(r) /\ uuid(r) = m => IsStaged(r)

\* A post that works on a file of its media: its content is being written, or waits
\* for its commit.
Holding(r) == pc[r] \in {"writing", "filling"} \/ r \in staging

\* A media has one such post, the staged file holds the whole content that a commit
\* will move, a write that is open on it finds it empty, and a media that was committed
\* keeps a whole content.
WholeInv ==
    /\ \A r, s \in Requests : Holding(r) /\ Holding(s) /\ uuid(r) = uuid(s) => r = s
    /\ \A r \in staging : reply[r] = {"ok"} =>
          staged[uuid(r)] # Nil /\ data[staged[uuid(r)]] = {r}
    /\ \A r \in Requests : pc[r] = "filling" /\ IsStaged(r) =>
          fd[r] = staged[uuid(r)] /\ data[fd[r]] = {}
    /\ \A s \in Requests :
          Commits(s) # {} /\ StagedOnly(uuid(s)) /\ ~Deleted(uuid(s))
              => /\ final[uuid(s)] # Nil
                 /\ \E r \in Requests : data[final[uuid(s)]] = {r}

\* A request is answered when it is received, when its content is written, or when
\* its save ends.
LEMMA ReplyStep ==
    ASSUME TypeOK, [Next]_vars, NEW q \in Requests,
           pc[q] \notin {"idle", "writing", "filling", "saving", "opened"}
    PROVE  reply'[q] = reply[q]
<1>1. ASSUME NEW r \in Requests, Request(r) PROVE reply'[q] = reply[q]
  BY <1>1
     DEF Request, Post, CommitAccepted, CommitRefused, Commit, DeleteAccepted, DeleteRefused,
         Delete, MayStart, TypeOK
<1>2. ASSUME NEW r \in Requests, Callback(r) PROVE reply'[q] = reply[q]
  BY <1>2
     DEF Callback, WriteOpens, WriteDone, WriteFails, fill, recordOrStageEntry, SaveOpens, SaveDone, SaveFails,
         TypeOK
<1>3. QED
  BY <1>1, <1>2
     DEF Next, Timer, ConfirmTimeout, TrashTimeout, Lifecycle, Crash, WriteAfterEnd, Restart,
         LoadCsv, LoadCsvFails, Stop, vars

\* A received post has its media.
LEMMA PostIs ==
    ASSUME TypeOK, NEW q \in Requests, NEW m \in Media, NEW kind, Post(q, m, kind)
    PROVE  /\ uuid(q)' = m /\ \A r \in Requests : r # q => op'[r] = op[r]
           /\ staging' = staging
           /\ "overlapMedia" \notin Faults => ~Working(m) /\ ~Waiting(m)
BY DEF Post, MayStart, memory, uuid, TypeOK

\* A post is staged by the callback of its write.
LEMMA Staged ==
    ASSUME TypeOK, [Next]_vars, NEW s \in Requests, s \in staging'
    PROVE  \/ s \in staging
           \/ /\ pc[s] \in {"writing", "filling"} /\ op[s].kind = "staged"
              /\ WriteDone(s) \/ WriteFails(s)
<1>1. ASSUME NEW r \in Requests, Request(r) PROVE staging' \subseteq staging
  BY <1>1
     DEF Request, Post, CommitAccepted, CommitRefused, DeleteAccepted, DeleteRefused, memory
<1>2. ASSUME NEW r \in Requests, WriteDone(r) \/ WriteFails(r)
      PROVE  \/ staging' = staging
             \/ /\ pc[r] \in {"writing", "filling"} /\ op[r].kind = "staged"
                /\ staging' = staging \cup {r}
  BY <1>2 DEF WriteDone, WriteFails, fill, recordOrStageEntry, recordEntry, stageEntry
<1>3. ASSUME NEW r \in Requests, WriteOpens(r) \/ SaveOpens(r) \/ SaveDone(r) \/ SaveFails(r)
      PROVE  staging' = staging
  BY <1>3 DEF WriteOpens, SaveOpens, SaveDone, SaveFails, memory
<1>4. ASSUME NEW r \in Requests, Timer(r) PROVE staging' \subseteq staging
  BY <1>4 DEF Timer, ConfirmTimeout, TrashTimeout
<1>5. ASSUME Lifecycle PROVE staging' \subseteq staging
  BY <1>5 DEF Lifecycle, Crash, WriteAfterEnd, Restart, LoadCsv, LoadCsvFails, Stop, memory
<1>6. QED
  BY <1>1, <1>2, <1>3, <1>4, <1>5 DEF Next, Callback, vars, memory

\* The post that works on a file of a media did so before the step, or was just
\* received.
LEMMA HoldingStep ==
    ASSUME IInv, [Next]_vars, NEW r \in Requests, Holding(r)'
    PROVE  \/ Holding(r) /\ uuid(r)' = uuid(r) /\ uuid(r) \in Media
           \/ \E m \in Media, kind \in Modes : Post(r, m, kind)
<1>0. TypeOK /\ Kept
  BY KeptStep DEF IInv
<1>1. CASE pc'[r] = "writing" /\ pc[r] # "writing"
  BY <1>0, <1>1, WritingStep
<1>2. CASE Holding(r)
  <2>1. op[r] # Nil
    BY <1>2 DEF Holding, IInv, ReqInv, ReqOK, IsStaged
  <2>2. op'[r] = op[r] /\ uuid(r) \in Media
    BY <1>0, <2>1, OpTypes DEF Kept
  <2>3. QED
    BY <1>2, <2>2 DEF uuid
<1>3. CASE pc'[r] = "filling" /\ pc[r] # "filling"
  <2>1. WriteOpens(r)
    <3>1. ~Stop
      BY <1>3 DEF Stop, Pending, Writing
    <3>2. ASSUME WriteDone(r) \/ WriteFails(r) PROVE FALSE
      BY <1>0, <1>3, <3>2
         DEF WriteDone, WriteFails, recordOrStageEntry, recordEntry, stageEntry, saveZoneCSV,
             afterAnswer, TypeOK
    <3>3. QED
      BY <1>0, <1>3, <3>1, <3>2, FillingStep
  <2>2. Holding(r)
    BY <2>1 DEF WriteOpens, Holding
  <2>3. QED
    BY <1>2, <2>2
<1>4. CASE r \in staging'
  BY <1>0, <1>2, <1>4, Staged DEF Holding
<1>5. QED
  BY <1>1, <1>2, <1>3, <1>4 DEF Holding

\* The file of a post that works on the staged file of its media, before and after a
\* step, is left alone by everybody else.
LEMMA HeldFile ==
    ASSUME IInv, FileInv, WholeInv, [Next]_vars, NEW r \in Requests, uuid(r) \in Media,
           NEW f \in Requests, f = staged[uuid(r)],
           \/ r \in staging /\ r \in staging'
           \/ pc[r] = "filling" /\ pc'[r] = "filling"
    PROVE  staged'[uuid(r)] = f /\ data'[f] = data[f]
<1>0. TypeOK /\ ReqInv
  BY DEF IInv
<1>1. Holding(r) /\ Created(f) /\ uuid(f) = uuid(r)
  BY DEF Holding, FileInv
<1>2. pc[r] # "writing" /\ (r \in staging => pc[r] # "filling")
  BY <1>0 DEF ReqInv, ReqOK
<1>3. ~Stop
  BY DEF Stop, Pending, Writing
<1>4. ASSUME NEW t \in Requests, Holding(t), uuid(t) = uuid(r) PROVE t = r
  BY <1>1, <1>4 DEF WholeInv
<1>5. ASSUME NEW t \in Requests, WriteOpens(t), uuid(t) = uuid(r) PROVE FALSE
  BY <1>2, <1>4, <1>5 DEF WriteOpens, Holding
<1>6. ASSUME NEW t \in staging, uuid(t) = uuid(r), staging' = staging \ {t} PROVE FALSE
  <2>1. t = r
    BY <1>0, <1>4, <1>6 DEF Holding, TypeOK
  <2>2. QED
    BY <1>2, <1>6, <2>1
<1>7. ASSUME NEW t \in Requests, pc[t] = "filling", fd[t] = f, WriteDone(t) \/ WriteFails(t)
      PROVE  FALSE
  <2>1. t = r
    BY <1>1, <1>4, <1>7 DEF FileInv, Holding
  <2>2. pc'[t] # "filling"
    BY <1>0, <1>7
       DEF WriteDone, WriteFails, recordOrStageEntry, recordEntry, stageEntry, saveZoneCSV,
           afterAnswer, TypeOK
  <2>3. QED
    BY <1>2, <1>7, <2>1, <2>2
<1>8. ASSUME NEW t \in Requests, WriteOpens(t), opens(t) = f PROVE FALSE
  BY <1>1, <1>5, <1>8, OpensOwn
<1>9. data'[f] = data[f]
  BY <1>0, <1>3, <1>7, <1>8, DataStep
<1>10. staged'[uuid(r)] = staged[uuid(r)]
  <2>1. PICK m \in Media : m = uuid(r)
    OBVIOUS
  <2>2. staged'[m] = staged[m]
    BY <1>5, <1>6, <2>1, PathStep DEF IInv, TypeOK
  <2>3. QED
    BY <2>1, <2>2
<1>11. QED
  BY <1>9, <1>10

\* A media that was deleted stays so.
LEMMA DeletedStep ==
    ASSUME IInv, [Next]_vars, NEW m \in Media, Deleted(m)
    PROVE  Deleted(m)'
<1>0. TypeOK /\ Kept
  BY KeptStep DEF IInv
<1>1. PICK q \in Requests :
          IsDelete(q) /\ uuid(q) = m /\ (snap[q] # {} \/ reply[q] # {"error"})
  BY DEF Deleted
<1>2. ReqOK(q) /\ op'[q] = op[q]
  BY <1>0, <1>1 DEF IInv, ReqInv, Kept, IsDelete
<1>3. pc[q] \notin {"idle", "writing", "filling"}
  BY <1>1, <1>2 DEF ReqOK, IsDelete, IsPost
<1>4. snap'[q] = snap[q]
  BY <1>0, <1>3 DEF Kept
<1>5. snap'[q] # {} \/ reply'[q] # {"error"}
  <2>1. CASE snap[q] # {}
    BY <1>4, <2>1
  <2>2. CASE snap[q] = {}
    <3>1. pc[q] \notin {"saving", "opened"}
      BY <1>2, <2>2 DEF ReqOK
    <3>2. QED
      BY <1>0, <1>1, <1>3, <2>2, <3>1, ReplyStep
  <2>3. QED
    BY <2>1, <2>2
<1>6. QED
  BY <1>1, <1>2, <1>5 DEF Deleted, IsDelete, uuid

\* A media one post of which did not go through staging stays so.
LEMMA StagedOnlyStep ==
    ASSUME IInv, [Next]_vars, NEW m \in Media, StagedOnly(m)'
    PROVE  StagedOnly(m)
<1>1. ASSUME NEW r \in Requests, IsPost(r), uuid(r) = m PROVE IsStaged(r)
  <2>1. op'[r] = op[r]
    BY <1>1, KeptStep DEF IInv, Kept, IsPost
  <2>2. QED
    BY <1>1, <2>1 DEF StagedOnly, IsPost, IsStaged, uuid
<1>2. QED
  BY <1>1 DEF StagedOnly

\* The path of a media that is only posted through staging and was never deleted
\* changes with its commits only.
LEMMA FinalStep ==
    ASSUME IInv, FileInv, [Next]_vars, NEW m \in Media, StagedOnly(m)', ~Deleted(m)'
    PROVE  \/ final'[m] = final[m]
           \/ \E q, s \in Requests : /\ CommitAccepted(q, s) /\ uuid(s) = m
                                     /\ final'[m] = staged[m]
<1>0. TypeOK /\ ReqInv /\ StagedOnly(m)
  BY StagedOnlyStep DEF IInv
<1>1. ASSUME NEW r \in Requests, WriteOpens(r), uuid(r) = m, op[r].kind # "staged"
      PROVE  FALSE
  BY <1>0, <1>1, OpensOwn DEF StagedOnly, IsStaged
<1>2. ASSUME NEW q \in Requests, DeleteAccepted(q, m) PROVE FALSE
  <2>1. IsDelete(q)' /\ uuid(q)' = m /\ pc[q] = "idle"
    BY <1>0, <1>2, DeleteIs
  <2>2. reply'[q] = {}
    BY <1>0, <1>2, <2>1 DEF DeleteAccepted, ReqInv, ReqOK
  <2>3. QED
    BY <2>1, <2>2 DEF Deleted
<1>3. QED
  BY <1>1, <1>2, PathStep

\* The content of its file changes only by a write that was open on it, which a commit
\* moved there with its file.
LEMMA ContentStep ==
    ASSUME IInv, FileInv, [Next]_vars, NEW m \in Media, StagedOnly(m), NEW f \in Requests,
           f = final[m]
    PROVE  \/ data'[f] = data[f]
           \/ \E r \in Requests : IsStaged(r) /\ uuid(r) = m /\ pc[r] = "filling" /\ fd[r] = f
<1>0. TypeOK
  BY DEF IInv
<1>1. Created(f) /\ uuid(f) = m
  BY DEF FileInv
<1>2. ASSUME NEW r \in Requests, WriteOpens(r), opens(r) = f PROVE FALSE
  <2>1. IsPost(r) /\ uuid(r) = m
    BY <1>1, <1>2, OpensOwn
  <2>2. IsStaged(r) /\ op[r].kind = "staged"
    BY <2>1 DEF StagedOnly, IsStaged
  <2>3. r # f
    BY <1>1, <1>2 DEF WriteOpens, Created
  <2>4. f = staged[m]
    BY <1>2, <2>1, <2>2, <2>3 DEF opens, target
  <2>5. QED
    BY <2>4, ConstantsAssumption DEF FileInv
<1>3. ASSUME NEW r \in Requests, pc[r] = "filling", fd[r] = f
      PROVE  IsStaged(r) /\ uuid(r) = m
  <2>1. IsPost(r) /\ uuid(r) = m
    BY <1>1, <1>3, WriterOp DEF FileInv
  <2>2. QED
    BY <2>1 DEF StagedOnly
<1>4. QED
  BY <1>0, <1>2, <1>3, DataStep

\* What changes the file of a media that is only posted through staging, until it is
\* deleted: a commit puts another one at its path, and a write of a staged post which
\* was open when a commit moved the file goes on in it.
FileByCommit ==
    \A m \in Media : StagedOnly(m)' /\ ~Deleted(m)' =>
        /\ \/ final'[m] = final[m]
           \/ \E q, s \in Requests : CommitAccepted(q, s) /\ uuid(s) = m
        /\ final[m] # Nil =>
              \/ data'[final[m]] = data[final[m]]
              \/ \E r \in Requests : IsStaged(r) /\ uuid(r) = m /\ fd[r] = final[m]

\* Whatever fails, overlaps or stops, a media that is only posted through staging keeps
\* the file at its path until a commit replaces it or a delete is received, and the
\* content of that file until then, unless another staged post of the media was being
\* written to the very file that a commit moved there: no write opens it, and no timer,
\* no stop and no start of the process touches it.
THEOREM FilesChangeByCommit == Spec => [][FileByCommit]_vars
<1>1. IInv /\ FileInv /\ [Next]_vars => FileByCommit
  <2> SUFFICES ASSUME IInv, FileInv, [Next]_vars, NEW m \in Media, StagedOnly(m)', ~Deleted(m)'
               PROVE  /\ \/ final'[m] = final[m]
                         \/ \E q, s \in Requests : CommitAccepted(q, s) /\ uuid(s) = m
                      /\ final[m] # Nil =>
                            \/ data'[final[m]] = data[final[m]]
                            \/ \E r \in Requests : /\ IsStaged(r) /\ uuid(r) = m
                                                    /\ fd[r] = final[m]
    BY DEF FileByCommit
  <2>1. StagedOnly(m)
    BY StagedOnlyStep
  <2>2. final[m] # Nil => final[m] \in Requests
    BY DEF IInv, TypeOK, File
  <2>3. QED
    BY <2>1, <2>2, FinalStep, ContentStep
<1>2. QED
  BY <1>1, FilesKept, PTL DEF Spec

\* A commit moves the whole content of its post to the file of the media.
LEMMA CommitMoves ==
    ASSUME IInv, WholeInv, NEW q \in Requests, NEW s \in Requests, CommitAccepted(q, s)
    PROVE  final'[uuid(s)] # Nil /\ data'[final'[uuid(s)]] = {s}
<1>1. uuid(s) \in Media /\ s \in staging /\ reply[s] = {"ok"}
  BY CommitIs DEF CommitAccepted, Commit
<1>2. staged[uuid(s)] # Nil /\ data[staged[uuid(s)]] = {s}
  BY <1>1 DEF WholeInv
<1>3. final' = [final EXCEPT ![uuid(s)] = staged[uuid(s)]] /\ data' = data
  BY <1>2 DEF CommitAccepted
<1>4. QED
  BY <1>1, <1>2, <1>3 DEF IInv, TypeOK

\* The post that a callback stages, when it was answered no error, is the whole content
\* of the staged file of its media.
LEMMA StagedWhole ==
    ASSUME IInv, FileInv, WholeInv, NEW r \in Requests, op[r].kind = "staged",
           WriteDone(r) \/ WriteFails(r), reply'[r] = {"ok"}
    PROVE  staged'[uuid(r)] # Nil /\ data'[staged'[uuid(r)]] = {r}
<1>0. TypeOK
  BY DEF IInv
<1>1. ~WriteFails(r)
  <2>1. SUFFICES ASSUME WriteFails(r) PROVE FALSE
    OBVIOUS
  <2>2. reply' = [reply EXCEPT ![r] = {"error"} \cup {"ok"}]
    BY <2>1 DEF WriteFails, recordOrStageEntry
  <2>3. reply'[r] = {"error", "ok"}
    BY <1>0, <2>2 DEF TypeOK
  <2>4. QED
    BY <2>3
<1>2. /\ pc[r] = "filling" /\ staged' = staged
      /\ \E content \in Whole(r, data[fd[r]]) : data' = [data EXCEPT ![fd[r]] = content]
  BY <1>1 DEF WriteDone, fill
<1>3. IsStaged(r)
  BY <1>2, WriterOp DEF IsStaged
<1>4. fd[r] = staged[uuid(r)] /\ data[fd[r]] = {}
  BY <1>2, <1>3 DEF WholeInv
<1>5. fd[r] # Nil /\ fd[r] \in Requests
  BY <1>0, <1>2 DEF FileInv, TypeOK, File
<1>6. Whole(r, {}) = {{r}}
  BY DEF Whole
<1>7. data' = [data EXCEPT ![fd[r]] = {r}]
  BY <1>2, <1>4, <1>6
<1>8. QED
  BY <1>0, <1>2, <1>4, <1>5, <1>7 DEF TypeOK

\* Where no client starts a request on a media that another one is busy with, every
\* step keeps the ownership and the content of the files.
LEMMA WholeStep ==
    ASSUME "overlapMedia" \notin Faults, IInv, FileInv, WholeInv, [Next]_vars
    PROVE  WholeInv'
<1>0. TypeOK /\ Kept /\ ReqInv /\ TypeOK' /\ ReqInv' /\ FileInv'
  BY KeptStep, TypeStep, ReqStep, FileStep DEF IInv
<1>1. ASSUME NEW r \in Requests, NEW s \in Requests, Holding(r)', Holding(s)',
             uuid(r)' = uuid(s)'
      PROVE  r = s
  <2>1. ASSUME NEW x \in Requests, NEW y \in Requests, NEW m \in Media, NEW kind \in Modes,
               Holding(x)', Holding(y)', uuid(x)' = uuid(y)', Post(x, m, kind), x # y
        PROVE  FALSE
    <3>1. uuid(x)' = m /\ op'[y] = op[y] /\ ~Working(m) /\ ~Waiting(m)
      BY <1>0, <2>1, PostIs
    <3>2. pc'[y] = pc[y] /\ staging' = staging
      BY <1>0, <2>1 DEF Post, memory, TypeOK
    <3>3. Holding(y) /\ uuid(y) = m
      BY <2>1, <3>1, <3>2 DEF Holding, uuid
    <3>4. op[y] # Nil
      BY <1>0, <3>3 DEF Holding, ReqInv, ReqOK, IsStaged
    <3>5. QED
      BY <3>1, <3>3, <3>4 DEF Holding, Working, Waiting, Pending, Writing
  <2>2. CASE \E m \in Media, kind \in Modes : Post(r, m, kind)
    BY <1>1, <2>1, <2>2
  <2>3. CASE \E m \in Media, kind \in Modes : Post(s, m, kind)
    BY <1>1, <2>1, <2>3
  <2>4. CASE Holding(r) /\ uuid(r)' = uuid(r) /\ Holding(s) /\ uuid(s)' = uuid(s)
    BY <1>1, <2>4 DEF WholeInv
  <2>5. QED
    BY <1>1, <2>2, <2>3, <2>4, HoldingStep
<1>2. ASSUME NEW r \in Requests, r \in staging', reply'[r] = {"ok"}
      PROVE  (staged[uuid(r)])' # Nil /\ (data[staged[uuid(r)]])' = {r}
  <2>1. r \in staging \/ pc[r] \in {"writing", "filling"}
    BY <1>0, <1>2, Staged
  <2>2. op[r] # Nil
    BY <1>0, <2>1 DEF ReqInv, ReqOK, IsStaged
  <2>3. uuid(r)' = uuid(r) /\ uuid(r) \in Media
    BY <1>0, <2>2, OpTypes DEF Kept, uuid
  <2>4. CASE r \in staging
    <3>1. reply[r] = {"ok"}
      <4>1. pc[r] \in {"done", "twice"}
        BY <1>0, <2>4 DEF ReqInv, ReqOK
      <4>2. QED
        BY <1>0, <1>2, <4>1, ReplyStep
    <3>2. staged[uuid(r)] # Nil /\ data[staged[uuid(r)]] = {r}
      BY <2>4, <3>1 DEF WholeInv
    <3>3. PICK f \in Requests : f = staged[uuid(r)]
      BY <1>0, <2>3, <3>2 DEF TypeOK, File
    <3>4. staged'[uuid(r)] = f /\ data'[f] = data[f]
      BY <1>2, <2>3, <2>4, <3>3, HeldFile
    <3>5. QED
      BY <2>3, <3>2, <3>3, <3>4
  <2>5. CASE r \notin staging
    <3>1. op[r].kind = "staged" /\ (WriteDone(r) \/ WriteFails(r))
      BY <1>0, <1>2, <2>5, Staged
    <3>2. staged'[uuid(r)] # Nil /\ data'[staged'[uuid(r)]] = {r}
      BY <1>2, <3>1, StagedWhole
    <3>3. QED
      BY <2>3, <3>2
  <2>6. QED
    BY <2>4, <2>5
<1>3. ASSUME NEW r \in Requests, pc'[r] = "filling", IsStaged(r)'
      PROVE  fd'[r] = (staged[uuid(r)])' /\ data'[fd'[r]] = {}
  <2>1. CASE WriteOpens(r)
    <3>1. op' = op /\ uuid(r) \in Media /\ opens(r) \in Requests
      BY <2>1, OpensOwn DEF WriteOpens
    <3>2. op[r].kind = "staged" /\ uuid(r)' = uuid(r)
      BY <1>3, <3>1 DEF IsStaged, uuid
    <3>3. /\ fd' = [fd EXCEPT ![r] = opens(r)] /\ data' = [data EXCEPT ![opens(r)] = {}]
          /\ staged' = [staged EXCEPT ![uuid(r)] = opens(r)]
      BY <2>1, <3>2 DEF WriteOpens
    <3>4. QED
      BY <1>0, <3>1, <3>2, <3>3 DEF TypeOK
  <2>2. CASE WriteDone(r) \/ WriteFails(r)
    BY <1>0, <1>3, <2>2
       DEF WriteDone, WriteFails, recordOrStageEntry, recordEntry, stageEntry, saveZoneCSV,
           afterAnswer, TypeOK
  <2>3. CASE Stop
    BY <1>3, <2>3 DEF Stop, Pending, Writing
  <2>4. CASE pc[r] = "filling" /\ fd'[r] = fd[r]
    <3>1. IsPost(r) /\ uuid(r) \in Media /\ op[r] # Nil
      BY <2>4, WriterOp
    <3>2. op'[r] = op[r] /\ uuid(r)' = uuid(r)
      BY <1>0, <3>1 DEF Kept, uuid
    <3>3. fd[r] = staged[uuid(r)] /\ data[fd[r]] = {}
      BY <1>3, <2>4, <3>2 DEF WholeInv, IsStaged
    <3>4. PICK f \in Requests : f = fd[r]
      BY <1>0, <2>4 DEF FileInv, TypeOK, File
    <3>5. staged'[uuid(r)] = f /\ data'[f] = data[f]
      BY <1>3, <2>4, <3>1, <3>3, <3>4, HeldFile
    <3>6. QED
      BY <2>4, <3>2, <3>3, <3>4, <3>5
  <2>5. QED
    BY <1>0, <1>3, <2>1, <2>2, <2>3, <2>4, FillingStep
<1>4. ASSUME NEW s \in Requests, Commits(s)' # {}, StagedOnly(uuid(s))', ~Deleted(uuid(s))'
      PROVE  /\ (final[uuid(s)])' # Nil
             /\ \E r \in Requests : (data[final[uuid(s)]])' = {r}
  <2>1. uuid(s)' = uuid(s) /\ uuid(s) \in Media
    <3>1. IsStaged(s)
      <4>1. ASSUME NEW q \in Requests, q \in Commits(s) PROVE IsStaged(s)
        BY <1>0, <4>1 DEF Commits, ReqInv, ReqOK, IsCommit
      <4>2. ASSUME NEW q \in Requests, CommitAccepted(q, s) PROVE IsStaged(s)
        BY <4>2, CommitIs
      <4>3. QED
        BY <1>0, <1>4, <4>1, <4>2, CommitsStep DEF Commits
    <3>2. op'[s] = op[s]
      BY <1>0, <3>1 DEF Kept, IsStaged
    <3>3. QED
      BY <1>0, <3>1, <3>2, OpTypes DEF IsStaged, uuid
  <2>2. PICK m \in Media : m = uuid(s)
    BY <2>1
  <2>3. StagedOnly(m)' /\ ~Deleted(m)'
    <3>1. m = uuid(s)'
      BY <2>1, <2>2
    <3>2. QED
      BY <1>4, <3>1 DEF StagedOnly, Deleted
  <2>4. StagedOnly(m) /\ ~Deleted(m)
    BY <2>3, StagedOnlyStep, DeletedStep
  <2>5. ASSUME NEW q \in Requests, NEW t \in Requests, CommitAccepted(q, t), uuid(t) = m
        PROVE  final'[m] # Nil /\ data'[final'[m]] = {t}
    BY <2>5, CommitMoves
  <2>6. CASE \E q, t \in Requests : CommitAccepted(q, t) /\ uuid(t) = m
    BY <2>1, <2>2, <2>5, <2>6
  <2>7. CASE ~\E q, t \in Requests : CommitAccepted(q, t) /\ uuid(t) = m
    <3>1. Commits(s) # {}
      BY <1>0, <1>4, <2>2, <2>7, CommitsStep
    <3>2. final[m] # Nil /\ \E r \in Requests : data[final[m]] = {r}
      BY <2>2, <2>4, <3>1 DEF WholeInv
    <3>3. final'[m] = final[m]
      BY <2>3, <2>7, FinalStep
    <3>4. PICK f \in Requests : f = final[m]
      BY <1>0, <3>2 DEF TypeOK, File
    <3>5. ASSUME NEW r \in Requests, IsStaged(r), uuid(r) = m, pc[r] = "filling", fd[r] = f
          PROVE  FALSE
      BY <3>2, <3>4, <3>5 DEF WholeInv, FileInv
    <3>6. data'[f] = data[f]
      BY <2>4, <3>4, <3>5, ContentStep
    <3>7. QED
      BY <2>1, <2>2, <3>2, <3>3, <3>4, <3>6
  <2>8. QED
    BY <2>6, <2>7
<1>5. ASSUME NEW r \in staging' PROVE r \in Requests
  BY <1>0, <1>5 DEF TypeOK
<1>6. QED
  BY <1>1, <1>2, <1>3, <1>4, <1>5 DEF WholeInv

\* Where no client starts a request on a media that another one is busy with, a media
\* that is served, is only posted through staging and was never deleted has the whole
\* content of one post, whatever writes fail, to the media's files or to the CSV file,
\* whenever the process stops, and with requests served before the CSV file is loaded.
THEOREM ServedAreWhole ==
    ASSUME "overlapMedia" \notin Faults
    PROVE  Spec => []ServedIsWhole
<1>1. Init => WholeInv
  BY DEF Init, WholeInv, Holding, IsStaged, Commits, IsCommit
<1>2. IInv /\ KeyInv /\ FileInv /\ WholeInv /\ [Next]_vars => WholeInv'
  BY WholeStep
<1>3. IInv /\ KeyInv /\ WholeInv => ServedIsWhole
  <2> SUFFICES ASSUME IInv, KeyInv, WholeInv, NEW m \in Media, fileDb[m] # Nil, ~Deleted(m),
                      StagedOnly(m)
               PROVE  final[m] # Nil /\ \E r \in Requests : data[final[m]] = {r}
    BY DEF ServedIsWhole, StagedOnly
  <2>1. PICK e \in Requests : fileDb[m] = e
    BY DEF IInv, TypeOK
  <2>2. Known(e) /\ uuid(e) = m
    BY <2>1 DEF IInv, VisInv, Seen, KeyInv
  <2>3. Commits(e) # {}
    BY <2>2 DEF Known, StagedOnly
  <2>4. QED
    BY <2>2, <2>3 DEF WholeInv
<1>4. QED
  BY KeysKept, FilesKept, <1>1, <1>2, <1>3, PTL DEF Spec

(***************************************************************************)
(* The CSV file of a zone where nothing is under way.                      *)
(***************************************************************************)

\* The CSV file gives back, media by media, what the zone lists.
Settled ==
    /\ ~csv.torn
    /\ Entries(zoneDb) \subseteq csv.lines
    /\ {uuid(e) : e \in csv.lines} = {uuid(e) : e \in Entries(zoneDb)}

\* Requests come one at a time, once the CSV file is loaded; a save under way writes
\* what the zone holds, and finds the file empty.
CsvInv ==
    /\ server # "up" => /\ \A k \in Keys : zoneDb[k] = Nil
                        /\ \A q \in Requests : pc[q] \notin Pending
    /\ \A p, q \in Requests : pc[p] \in Pending /\ pc[q] \in Pending => p = q
    /\ \A q \in Requests : pc[q] \in {"saving", "opened"} => snap[q] = Entries(zoneDb)
    /\ \A q \in Requests : pc[q] = "opened" => csv.lines = {} /\ ~csv.torn
    /\ \/ server # "up" \/ Entries(zoneDb) = {} \/ Settled
       \/ \E q \in Requests : pc[q] \in {"saving", "opened"}

\* The entries of a table that does not change do not change.
LEMMA EntriesSame == zoneDb' = zoneDb => Entries(zoneDb)' = Entries(zoneDb)
BY DEF Entries

\* A CSV file and a zone that a step leaves alone stay in agreement.
LEMMA SettledKept ==
    ASSUME IInv, [Next]_vars, Settled, zoneDb' = zoneDb, csv' = csv
    PROVE  Settled'
<1>1. Entries(zoneDb)' = Entries(zoneDb)
  BY EntriesSame
<1>2. ASSUME NEW e \in csv.lines PROVE uuid(e)' = uuid(e)
  BY <1>2, SeenPost DEF IInv, TypeOK, Csv, Seen
<1>3. {uuid(e) : e \in csv.lines}' = {uuid(e) : e \in csv.lines}
  BY <1>2
<1>4. {uuid(e) : e \in Entries(zoneDb)}' = {uuid(e) : e \in Entries(zoneDb)}
  BY <1>1, <1>2 DEF Settled
<1>5. QED
  BY <1>1, <1>3, <1>4 DEF Settled

\* Where requests come one at a time, one that is accepted finds the zone loaded and
\* at rest.
LEMMA StartsAlone ==
    ASSUME "overlapZone" \notin Faults, "early" \notin Faults,
           NEW r \in Requests, NEW m, MayStart(r, m)
    PROVE  server = "up" /\ pc[r] = "idle" /\ \A q \in Requests : pc[q] \notin Pending
BY DEF MayStart, Alive

\* A save that begins where nothing else is under way keeps the agreement.
LEMMA SaveAlone ==
    ASSUME TypeOK, NEW r \in Requests, server = "up", server' = server, saveZoneCSV(r),
           \A q \in Requests : q # r => pc[q] \notin Pending
    PROVE  CsvInv'
<1>1. \A q \in Requests : q # r => pc'[q] \notin Pending
  BY DEF saveZoneCSV, TypeOK
<1>2. /\ snap'[r] = Entries(zoneDb)'
      /\ pc'[r] = IF Entries(zoneDb)' = {} THEN "hung" ELSE "saving"
  BY DEF saveZoneCSV, TypeOK, Entries
<1>3. pc'[r] # "opened"
  BY <1>2
<1>4. \A q \in Requests : pc'[q] \in {"saving", "opened"} => q = r
  BY <1>1 DEF Pending, Writing
<1>5. QED
  BY <1>1, <1>2, <1>3, <1>4 DEF CsvInv

\* A step that leaves the zone and its CSV file alone, and begins or ends at most a
\* content, keeps the agreement.
LEMMA CsvQuiet ==
    ASSUME IInv, CsvInv, [Next]_vars, zoneDb' = zoneDb, csv' = csv, snap' = snap,
           server' = server \/ {server, server'} \subseteq {"down", "loading"},
           \A q \in Requests : \/ pc'[q] = pc[q]
                               \/ pc'[q] \notin Pending /\ pc[q] \notin {"saving", "opened"}
                               \/ /\ server = "up" /\ pc'[q] = "writing"
                                  /\ \A p \in Requests : pc[p] \notin Pending
                                  /\ \A p \in Requests : p # q => pc'[p] = pc[p]
                               \/ pc[q] = "writing" /\ pc'[q] = "filling"
    PROVE  CsvInv'
<1>1. Entries(zoneDb)' = Entries(zoneDb)
  BY EntriesSame
<1>2. \A q \in Requests : pc[q] \in {"saving", "opened"} => pc'[q] = pc[q]
  BY DEF Pending, Writing
<1>3. \A q \in Requests : pc'[q] \in {"saving", "opened"} => pc[q] = pc'[q]
  BY DEF Pending, Writing
<1>4. \A p, q \in Requests : pc'[p] \in Pending /\ pc'[q] \in Pending => p = q
  BY DEF CsvInv, Pending, Writing
<1>5. server' # "up" => \A q \in Requests : pc'[q] \notin Pending
  BY DEF CsvInv, Pending, Writing
<1>6. \/ server' # "up" \/ Entries(zoneDb)' = {} \/ Settled'
      \/ \E q \in Requests : pc'[q] \in {"saving", "opened"}
  BY <1>1, <1>2, SettledKept DEF CsvInv
<1>7. /\ server' # "up" => \A k \in Keys : zoneDb'[k] = Nil
      /\ \A q \in Requests : pc'[q] \in {"saving", "opened"} => snap'[q] = Entries(zoneDb)'
      /\ \A q \in Requests : pc'[q] = "opened" => csv'.lines = {} /\ ~csv'.torn
  BY <1>1, <1>3 DEF CsvInv
<1>8. QED
  BY <1>4, <1>5, <1>6, <1>7 DEF CsvInv

\* A save that ends leaves in the file what the zone holds.
LEMMA CsvWritten ==
    ASSUME IInv, CsvInv, NEW q \in Requests, SaveDone(q)
    PROVE  CsvInv'
<1>0. TypeOK
  BY DEF IInv
<1>1. /\ pc[q] = "opened" /\ csv' \in Overwritten(snap[q]) /\ zoneDb' = zoneDb
      /\ snap' = snap /\ op' = op /\ server' = server
      /\ pc' = [pc EXCEPT ![q] = afterAnswer(reply[q])]
  BY DEF SaveDone, process
<1>2. snap[q] = Entries(zoneDb) /\ csv.lines = {} /\ ~csv.torn /\ server = "up"
  BY <1>1 DEF CsvInv, Pending, Writing
<1>3. csv'.lines = Entries(zoneDb) /\ ~csv'.torn
  BY <1>1, <1>2 DEF Overwritten
<1>4. \A p \in Requests : pc'[p] \notin Pending
  BY <1>0, <1>1 DEF CsvInv, Pending, Writing, afterAnswer, TypeOK
<1>5. Entries(zoneDb)' = Entries(zoneDb)
  BY <1>1, EntriesSame
<1>6. Settled'
  BY <1>3, <1>5 DEF Settled
<1>7. QED
  BY <1>1, <1>2, <1>4, <1>6 DEF CsvInv, Pending, Writing

\* A file that is opened is empty.
LEMMA CsvOpened ==
    ASSUME IInv, CsvInv, NEW q \in Requests, SaveOpens(q)
    PROVE  CsvInv'
<1>0. TypeOK
  BY DEF IInv
<1>1. /\ pc[q] = "saving" /\ csv'.lines = {} /\ ~csv'.torn /\ zoneDb' = zoneDb
      /\ snap' = snap /\ server' = server /\ pc' = [pc EXCEPT ![q] = "opened"]
  BY DEF SaveOpens, process, memory
<1>2. Entries(zoneDb)' = Entries(zoneDb)
  BY <1>1, EntriesSame
<1>3. pc'[q] = "opened" /\ \A p \in Requests : p # q => pc'[p] = pc[p] /\ pc'[p] \notin Pending
  BY <1>0, <1>1 DEF CsvInv, Pending, Writing, TypeOK
<1>4. server = "up"
  BY <1>1 DEF CsvInv, Pending, Writing
<1>5. QED
  BY <1>1, <1>2, <1>3, <1>4 DEF CsvInv, Pending, Writing

\* A file that is loaded gives the zone one entry for each media it names.
LEMMA CsvLoaded ==
    ASSUME IInv, CsvInv, [Next]_vars, LoadCsv
    PROVE  CsvInv'
<1>0. TypeOK
  BY DEF IInv
<1>1. /\ server = "loading" /\ server' = "up" /\ ~csv.torn /\ csv' = csv /\ op' = op
      /\ pc' = pc /\ snap' = snap
  BY DEF LoadCsv
<1>2. PICK line \in [Media -> csv.lines \cup {Nil}] :
        /\ \A d \in Media :
              LET lines == {l \in csv.lines : uuid(l) = d}
              IN  line[d] \in IF lines = {} THEN {Nil} ELSE lines
        /\ zoneDb' = [x \in Keys |-> IF x \in Media /\ line[x] # Nil
                                       THEN line[x] ELSE zoneDb[x]]
  BY DEF LoadCsv
<1>3. /\ \A k \in Keys : zoneDb[k] = Nil
      /\ \A q \in Requests : pc[q] \notin Pending
  BY <1>1 DEF CsvInv
<1>4. csv.lines \subseteq Requests
  BY <1>0 DEF TypeOK, Csv
<1>5. ASSUME NEW e \in csv.lines
      PROVE  /\ uuid(e) \in Media /\ line[uuid(e)] \in csv.lines
             /\ uuid(line[uuid(e)]) = uuid(e) /\ line[uuid(e)] \in Entries(zoneDb)'
  <2>1. uuid(e) \in Media
    BY <1>4, <1>5, SeenPost DEF Seen
  <2>2. line[uuid(e)] \in csv.lines /\ uuid(line[uuid(e)]) = uuid(e)
    BY <1>2, <1>5, <2>1
  <2>3. line[uuid(e)] # Nil
    BY <1>4, <2>2, ConstantsAssumption
  <2>4. zoneDb'[uuid(e)] = line[uuid(e)] /\ uuid(e) \in DOMAIN zoneDb'
    BY <1>2, <2>1, <2>3 DEF Keys
  <2>5. line[uuid(e)] \in Entries(zoneDb)'
    BY <2>3, <2>4 DEF Entries
  <2>6. QED
    BY <2>1, <2>2, <2>5
<1>6. Entries(zoneDb)' \subseteq csv.lines
  <2>1. ASSUME NEW k \in Keys, zoneDb'[k] # Nil PROVE zoneDb'[k] \in csv.lines
    BY <1>2, <1>3, <2>1
  <2>2. DOMAIN zoneDb' = Keys
    BY <1>2
  <2>3. QED
    BY <2>1, <2>2 DEF Entries
<1>7. {uuid(e) : e \in csv.lines} = {uuid(e) : e \in Entries(zoneDb)'}
  BY <1>5, <1>6
<1>8. Settled'
  BY <1>1, <1>6, <1>7 DEF Settled, uuid
<1>9. QED
  BY <1>1, <1>3, <1>8 DEF CsvInv, Pending, Writing

\* A stop leaves an empty zone and no request under way.
LEMMA CsvStopped == TypeOK /\ Stop => CsvInv'
<1> SUFFICES ASSUME TypeOK, Stop PROVE CsvInv'
  OBVIOUS
<1>1. /\ server' = "down" /\ \A k \in Keys : zoneDb'[k] = Nil
      /\ \A q \in Requests : pc'[q] \notin Pending
  BY DEF Stop, Pending, Writing
<1>2. QED
  BY <1>1 DEF CsvInv, Pending, Writing

\* Where requests come one at a time after the CSV file is loaded, and the CSV file
\* can be written, every step keeps the agreement of the zone and its CSV file.
LEMMA CsvStep ==
    ASSUME "overlapZone" \notin Faults, "early" \notin Faults, "csvError" \notin Faults,
           IInv, CsvInv, [Next]_vars
    PROVE  CsvInv'
<1>0. TypeOK
  BY DEF IInv
<1>1. ASSUME NEW r \in Requests, NEW m \in Media, NEW kind \in Modes, Post(r, m, kind)
      PROVE  CsvInv'
  <2>1. server = "up" /\ \A q \in Requests : pc[q] \notin Pending
    BY <1>1, StartsAlone DEF Post
  <2>2. /\ zoneDb' = zoneDb /\ csv' = csv /\ snap' = snap /\ server' = server
        /\ pc' = [pc EXCEPT ![r] = "writing"]
    BY <1>1 DEF Post, process, memory
  <2>3. pc'[r] = "writing" /\ \A p \in Requests : p # r => pc'[p] = pc[p]
    BY <1>0, <2>2 DEF TypeOK
  <2>4. QED
    BY <2>1, <2>2, <2>3, CsvQuiet
<1>2. ASSUME NEW r \in Requests, NEW answers,
             pc[r] \in {"writing", "filling"}, recordOrStageEntry(r, answers)
      PROVE  CsvInv'
  <2>1. server = "up" /\ \A q \in Requests : q # r => pc[q] \notin Pending
    BY <1>2 DEF CsvInv, Pending, Writing
  <2>2. csv' = csv /\ server' = server
    BY <1>2 DEF recordOrStageEntry, process
  <2>3. CASE stageEntry(r, answers)
    <3>1. /\ zoneDb' = zoneDb /\ snap' = snap
          /\ pc' = [pc EXCEPT ![r] = afterAnswer(answers)]
      BY <2>3 DEF stageEntry
    <3>2. pc'[r] \notin Pending /\ \A p \in Requests : p # r => pc'[p] = pc[p]
      BY <1>0, <3>1 DEF TypeOK, afterAnswer, Pending, Writing
    <3>3. QED
      BY <1>2, <2>2, <3>1, <3>2, CsvQuiet
  <2>4. CASE recordEntry(r)
    BY <1>0, <2>1, <2>2, <2>4, SaveAlone DEF recordEntry
  <2>5. QED
    BY <1>2, <2>3, <2>4 DEF recordOrStageEntry
<1>3. ASSUME NEW q \in Requests, NEW s \in Requests, CommitAccepted(q, s)
      PROVE  CsvInv'
  <2>1. server = "up" /\ \A p \in Requests : pc[p] \notin Pending
    BY <1>3, StartsAlone DEF CommitAccepted, Commit
  <2>2. QED
    BY <1>0, <1>3, <2>1, SaveAlone DEF CommitAccepted, process
<1>4. ASSUME NEW q \in Requests, NEW m \in Media, DeleteAccepted(q, m)
      PROVE  CsvInv'
  <2>1. server = "up" /\ \A p \in Requests : pc[p] \notin Pending
    BY <1>4, StartsAlone DEF DeleteAccepted, Delete
  <2>2. QED
    BY <1>0, <1>4, <2>1, SaveAlone DEF DeleteAccepted, process
<1>5. ASSUME NEW q \in Requests, pc[q] = "idle", pc' = [pc EXCEPT ![q] = "done"],
             zoneDb' = zoneDb, csv' = csv, snap' = snap, server' = server
      PROVE  CsvInv'
  <2>1. pc'[q] \notin Pending /\ \A p \in Requests : p # q => pc'[p] = pc[p]
    BY <1>0, <1>5 DEF TypeOK, Pending, Writing
  <2>2. QED
    BY <1>5, <2>1, CsvQuiet
<1>6. ASSUME NEW r \in Requests, Request(r) PROVE CsvInv'
  <2>1. ASSUME NEW s \in Requests, CommitRefused(r, s) PROVE CsvInv'
    BY <1>5, <2>1 DEF CommitRefused, Commit, MayStart, process, memory
  <2>2. ASSUME NEW m \in Media, DeleteRefused(r, m) PROVE CsvInv'
    BY <1>5, <2>2 DEF DeleteRefused, Delete, MayStart, process, memory
  <2>3. QED
    BY <1>1, <1>3, <1>4, <1>6, <2>1, <2>2 DEF Request
<1>7. ASSUME NEW r \in Requests, Callback(r) PROVE CsvInv'
  <2>1. CASE WriteOpens(r)
    <3>1. /\ pc[r] = "writing" /\ zoneDb' = zoneDb /\ csv' = csv /\ snap' = snap
          /\ server' = server /\ pc' = [pc EXCEPT ![r] = "filling"]
      BY <2>1 DEF WriteOpens, process, memory
    <3>2. pc'[r] = "filling" /\ \A p \in Requests : p # r => pc'[p] = pc[p]
      BY <1>0, <3>1 DEF TypeOK
    <3>3. QED
      BY <3>1, <3>2, CsvQuiet
  <2>2. CASE WriteDone(r) \/ WriteFails(r)
    BY <1>2, <2>2 DEF WriteDone, WriteFails, fill
  <2>3. QED
    BY <1>7, <2>1, <2>2, CsvOpened, CsvWritten DEF Callback, SaveFails
<1>8. ASSUME zoneDb' = zoneDb, csv' = csv, snap' = snap, pc' = pc,
             server' = server \/ {server, server'} \subseteq {"down", "loading"}
      PROVE  CsvInv'
  BY <1>8, CsvQuiet
<1>9. ASSUME NEW r \in Requests, Timer(r) PROVE CsvInv'
  BY <1>8, <1>9 DEF Timer, ConfirmTimeout, TrashTimeout, process
<1>10. CASE Restart \/ UNCHANGED vars
  BY <1>8, <1>10 DEF Restart, vars, process, memory
<1>11. QED
  BY <1>0, <1>6, <1>7, <1>9, <1>10, CsvLoaded, CsvStopped
     DEF Next, Lifecycle, Crash, WriteAfterEnd, LoadCsvFails

\* Where requests come one at a time after the CSV file is loaded, and the CSV file
\* can be written, the CSV file of a zone that is at rest and not empty gives back,
\* media by media, what the zone lists: whatever contents fail to be written, and
\* across any number of stops in the middle of a save.
THEOREM CsvIsSettled ==
    ASSUME "overlapZone" \notin Faults, "early" \notin Faults, "csvError" \notin Faults
    PROVE  Spec => []SettledCsv
<1>1. Init => CsvInv
  BY DEF Init, CsvInv, Pending, Writing
<1>2. IInv /\ CsvInv /\ [Next]_vars => CsvInv'
  BY CsvStep
<1>3. CsvInv => SettledCsv
  BY DEF CsvInv, SettledCsv, Settled, Pending, Writing
<1>4. QED
  BY KeysKept, <1>1, <1>2, <1>3, PTL DEF Spec

(***************************************************************************)
(* Liveness.  That an action may be taken is the one fact about it which   *)
(* no prover here establishes: the theorems take it as their hypothesis.   *)
(***************************************************************************)

\* The guards of the two timers of stageEntry, and of the callbacks of a request.
TimersMayFire ==
    \A r \in Requests : r \in staging \cup trash => ENABLED <<Timer(r)>>_vars
CallbacksMayRun ==
    \A r \in Requests : pc[r] \in Pending => ENABLED <<Callback(r)>>_vars

\* A post that waits for its commit, or waited too long, is committed or forgotten in
\* the end (stageEntry, and the two timers it arms), whatever fails or stops.
THEOREM StagingIsLeft == FairSpec /\ []TimersMayFire => StagingEnds
<1> DEFINE Fair(r) == WF_vars(Callback(r)) /\ WF_vars(Timer(r))
           Leaves(r) == (r \in staging \cup trash) ~> (r \notin staging \cup trash)
<1>1. ASSUME NEW r \in Requests
      PROVE  Spec /\ Fair(r) /\ []TimersMayFire => Leaves(r)
  <2> DEFINE Waits == r \in staging
             Late  == r \in trash
             Out   == r \notin staging \cup trash
  <2>1. IInv /\ Waits /\ <<Timer(r)>>_vars => Late'
    BY DEF Timer, ConfirmTimeout, TrashTimeout, IInv, OnceInv
  <2>2. IInv /\ Late /\ [Next]_vars => Late' \/ Out'
    <3> SUFFICES ASSUME IInv, Late, [Next]_vars PROVE r \notin staging'
      OBVIOUS
    <3>1. r \notin staging /\ pc[r] \notin {"writing", "filling"}
      BY DEF IInv, OnceInv, ReqInv, ReqOK
    <3>2. QED
      BY <3>1, Staged DEF IInv
  <2>3. IInv /\ Late /\ <<Timer(r)>>_vars => Out'
    BY DEF Timer, ConfirmTimeout, TrashTimeout, IInv, OnceInv
  <2>4. /\ TimersMayFire /\ Waits => ENABLED <<Timer(r)>>_vars
        /\ TimersMayFire /\ Late => ENABLED <<Timer(r)>>_vars
    BY DEF TimersMayFire
  <2>5. r \in staging \cup trash <=> Waits \/ Late
    OBVIOUS
  <2>6. (Waits \/ Late \/ Out)'
    OBVIOUS
  <2>7. QED
    BY Invariance, <2>1, <2>2, <2>3, <2>4, <2>5, <2>6, PTL DEF Spec
<1>2. FairSpec => Spec /\ \A r \in Requests : Fair(r)
  BY PTL DEF FairSpec, Fairness
<1>3. (\A r \in Requests : Leaves(r)) => StagingEnds
  BY PTL DEF StagingEnds
<1> HIDE DEF Fair, Leaves
<1>4. QED
  BY <1>1, <1>2, <1>3

\* No content fails to be written and the process does not stop: it is not killed,
\* nobody saves the CSV file before it is loaded, and no post is answered twice.
Steady == {"crash", "diskError", "early"} \cap Faults = {}

CalmInv ==
    /\ server # "down"
    /\ server = "loading" => ~csv.torn /\ \A r \in Requests : pc[r] = "idle"
    /\ \A r \in Requests : pc[r] # "twice" /\ (pc[r] \in Pending => reply[r] = {})

\* Then nothing stops the process.
LEMMA CalmNext ==
    ASSUME Steady, CalmInv, [Next]_vars
    PROVE  \/ \E r \in Requests : Request(r) \/ Callback(r) \/ Timer(r)
           \/ LoadCsv \/ UNCHANGED vars
<1>1. ~Crash
  BY DEF Steady, Crash
<1>2. ASSUME NEW r \in Requests PROVE ~WriteAfterEnd(r)
  BY DEF CalmInv, WriteAfterEnd
<1>3. ~Restart /\ ~LoadCsvFails
  BY DEF CalmInv, Restart, LoadCsvFails
<1>4. QED
  BY <1>1, <1>2, <1>3 DEF Next, Lifecycle

\* Where a callback leads: to the writing of the content, to the save of the CSV file,
\* to its writing, to the answer.
Advances(r) ==
    \/ pc[r] = "writing" /\ pc'[r] = "filling"
    \/ pc[r] = "filling" /\ pc'[r] = "saving"
    \/ pc[r] = "saving" /\ pc'[r] = "opened"
    \/ pc[r] \in Pending /\ pc'[r] = "done" /\ reply'[r] # {}

\* A callback takes its request further: a post has a line to save, and is answered once.
LEMMA CallbackMoves ==
    ASSUME Steady, IInv, CalmInv, NEW r \in Requests, Callback(r)
    PROVE  /\ Advances(r)
           /\ pc'[r] \in Pending => reply'[r] = {}
           /\ \A q \in Requests : q # r => pc'[q] = pc[q] /\ reply'[q] = reply[q]
           /\ server' = server
<1> USE DEF IInv, TypeOK, CalmInv
<1>1. CASE WriteDone(r)
  <2>1. recordOrStageEntry(r, {})
    BY <1>1 DEF WriteDone
  <2>2. pc[r] = "filling" /\ uuid(r) \in Media
    BY <1>1, WriterOp DEF WriteDone, fill
  <2>3. CASE recordEntry(r) /\ reply' = [reply EXCEPT ![r] = {}]
    <3>1. zoneDb' = [zoneDb EXCEPT ![uuid(r)] = r] /\ saveZoneCSV(r)
      BY <2>3 DEF recordEntry
    <3>2. zoneDb'[uuid(r)] = r /\ uuid(r) \in DOMAIN zoneDb' /\ r # Nil
      BY <2>2, <3>1, ConstantsAssumption DEF Keys
    <3>3. Entries(zoneDb') # {}
      BY <3>2 DEF Entries
    <3>4. pc' = [pc EXCEPT ![r] = "saving"]
      BY <3>1, <3>3 DEF saveZoneCSV
    <3>5. QED
      BY <2>1, <2>2, <2>3, <3>4 DEF Advances, recordOrStageEntry, process
  <2>4. CASE stageEntry(r, {}) /\ reply' = [reply EXCEPT ![r] = {} \cup {"ok"}]
    <3>1. pc' = [pc EXCEPT ![r] = "done"]
      BY <2>4 DEF stageEntry, afterAnswer
    <3>2. QED
      BY <2>1, <2>2, <2>4, <3>1 DEF Advances, Pending, Writing, recordOrStageEntry, process
  <2>5. QED
    BY <2>1, <2>3, <2>4 DEF recordOrStageEntry
<1>2. CASE WriteFails(r)
  BY <1>2 DEF WriteFails, Steady
<1>3. CASE WriteOpens(r) \/ SaveOpens(r)
  <2>1. pc[r] \in {"writing", "saving"} /\ reply[r] = {}
    BY <1>3 DEF WriteOpens, SaveOpens, Pending, Writing
  <2>2. CASE WriteOpens(r)
    BY <2>1, <2>2 DEF WriteOpens, Advances, process
  <2>3. CASE SaveOpens(r)
    BY <2>1, <2>3 DEF SaveOpens, Advances, process
  <2>4. QED
    BY <1>3, <2>2, <2>3
<1>4. CASE SaveDone(r) \/ SaveFails(r)
  <2>1. pc[r] \in {"saving", "opened"} /\ reply[r] = {}
    BY <1>4 DEF SaveDone, SaveFails, Pending, Writing
  <2>2. pc' = [pc EXCEPT ![r] = "done"]
    BY <1>4, <2>1 DEF SaveDone, SaveFails, afterAnswer
  <2>3. PICK answer \in {"ok", "error"} : reply' = [reply EXCEPT ![r] = reply[r] \cup {answer}]
    BY <1>4 DEF SaveDone, SaveFails
  <2>4. server' = server
    BY <1>4 DEF SaveDone, SaveFails, process
  <2>5. QED
    BY <2>1, <2>2, <2>3, <2>4 DEF Advances, Pending, Writing
<1>5. QED
  BY <1>1, <1>2, <1>3, <1>4 DEF Callback

\* A request that is received starts, or is refused at once.
LEMMA RequestStarts ==
    ASSUME TypeOK, NEW r \in Requests, Request(r)
    PROVE  /\ pc[r] = "idle" /\ Alive /\ server' = server
           /\ pc'[r] \in Pending => reply'[r] = reply[r]
           /\ pc'[r] # "twice"
           /\ \A q \in Requests : q # r => pc'[q] = pc[q] /\ reply'[q] = reply[q]
<1> USE DEF TypeOK, MayStart, process, Pending, Writing
<1>1. ASSUME NEW m \in Media, NEW kind \in Modes, Post(r, m, kind)
      PROVE  pc' = [pc EXCEPT ![r] = "writing"] /\ reply' = reply
  BY <1>1 DEF Post
<1>2. ASSUME NEW s \in Requests, CommitAccepted(r, s)
      PROVE  reply' = reply /\ \E to \in {"hung", "saving"} : pc' = [pc EXCEPT ![r] = to]
  BY <1>2 DEF CommitAccepted, saveZoneCSV
<1>3. ASSUME NEW m \in Media, DeleteAccepted(r, m)
      PROVE  reply' = reply /\ \E to \in {"hung", "saving"} : pc' = [pc EXCEPT ![r] = to]
  BY <1>3 DEF DeleteAccepted, saveZoneCSV
<1>4. ASSUME NEW s \in Requests, CommitRefused(r, s)
      PROVE  pc' = [pc EXCEPT ![r] = "done"] /\ reply' = [reply EXCEPT ![r] = {"error"}]
  BY <1>4 DEF CommitRefused
<1>5. ASSUME NEW m \in Media, DeleteRefused(r, m)
      PROVE  pc' = [pc EXCEPT ![r] = "done"] /\ reply' = [reply EXCEPT ![r] = {"error"}]
  BY <1>5 DEF DeleteRefused
<1>6. pc[r] = "idle" /\ Alive /\ server' = server
  BY DEF Request, Post, CommitAccepted, CommitRefused, Commit, DeleteAccepted, DeleteRefused, Delete
<1>7. QED
  BY <1>1, <1>2, <1>3, <1>4, <1>5, <1>6 DEF Request

\* A request that is under way stays where it is, or its callback takes it further.
LEMMA CalmStep ==
    ASSUME Steady, IInv, CalmInv, [Next]_vars
    PROVE  /\ CalmInv'
           /\ \A r \in Requests : pc[r] \in Pending => pc'[r] = pc[r] \/ Advances(r)
<1>1. ASSUME NEW q \in Requests, Request(q)
      PROVE  /\ CalmInv'
             /\ \A r \in Requests : pc[r] \in Pending => pc'[r] = pc[r]
  <2>1. server = "up" /\ server' = "up" /\ pc[q] = "idle" /\ reply[q] = {}
    BY <1>1, RequestStarts DEF IInv, ReqInv, ReqOK, Alive, Steady
  <2>2. QED
    BY <1>1, <2>1, RequestStarts DEF IInv, CalmInv, Pending, Writing
<1>2. ASSUME NEW q \in Requests, Callback(q)
      PROVE  /\ CalmInv'
             /\ \A r \in Requests : pc[r] \in Pending => pc'[r] = pc[r] \/ Advances(r)
  <2>1. pc[q] \in Pending /\ pc'[q] # "twice"
    BY <1>2, CallbackMoves DEF Advances, Pending, Writing
  <2>2. server # "loading"
    BY <2>1 DEF CalmInv, Pending, Writing
  <2>3. QED
    BY <1>2, <2>1, <2>2, CallbackMoves DEF CalmInv
<1>3. ASSUME UNCHANGED <<server, csv, pc, reply>>
      PROVE  /\ CalmInv'
             /\ \A r \in Requests : pc[r] \in Pending => pc'[r] = pc[r]
  BY <1>3 DEF CalmInv
<1>4. ASSUME NEW r \in Requests, Timer(r) PROVE UNCHANGED <<server, csv, pc, reply>>
  BY <1>4 DEF Timer, ConfirmTimeout, TrashTimeout, process
<1>5. CASE LoadCsv
  BY <1>5 DEF LoadCsv, CalmInv
<1>6. CASE UNCHANGED vars
  BY <1>3, <1>6 DEF vars, process
<1>7. QED
  BY <1>1, <1>2, <1>3, <1>4, <1>5, <1>6, CalmNext

LEMMA CalmKept == Steady => (Spec => []CalmInv)
<1>1. Init => CalmInv
  BY DEF Init, CalmInv, Pending, Writing
<1>2. Steady /\ IInv /\ CalmInv /\ [Next]_vars => CalmInv'
  BY CalmStep
<1>3. SUFFICES ASSUME Steady PROVE Spec => []CalmInv
  OBVIOUS
<1>4. IInv /\ CalmInv /\ [Next]_vars => CalmInv'
  BY <1>2, <1>3
<1>5. QED
  BY <1>1, <1>4, Invariance, PTL DEF Spec

\* Where the process goes on and contents can be written, every post, commit and delete
\* that went to write something is answered, once: the save of the CSV file that it
\* waits for ends, well or not, whatever other requests write meanwhile.
THEOREM WritesAreAnswered ==
    ASSUME Steady PROVE FairSpec /\ []CallbacksMayRun => PostsAnswered
<1> DEFINE Fair(r) == WF_vars(Callback(r)) /\ WF_vars(Timer(r))
           Reached(r) == (pc[r] \in Pending /\ ~IsDelete(r)) ~> (reply[r] # {} /\ pc[r] = "done")
<1>1. ASSUME NEW r \in Requests
      PROVE  Spec /\ Fair(r) /\ []CallbacksMayRun => Reached(r)
  <2> DEFINE Writes == pc[r] = "writing"
             Fills  == pc[r] = "filling"
             Saves  == pc[r] = "saving"
             Opened == pc[r] = "opened"
             Over   == reply[r] # {} /\ pc[r] = "done"
             Calm   == IInv /\ CalmInv
  <2>1. Spec => []Calm
    BY Invariance, CalmKept, PTL
  <2>2. /\ Calm /\ Writes /\ [Next]_vars => Writes' \/ Fills' \/ Over'
        /\ Calm /\ Fills /\ [Next]_vars => Fills' \/ Saves' \/ Over'
        /\ Calm /\ Saves /\ [Next]_vars => Saves' \/ Opened' \/ Over'
        /\ Calm /\ Opened /\ [Next]_vars => Opened' \/ Over'
    BY CalmStep DEF Advances, Pending, Writing
  <2>3. /\ Calm /\ Writes /\ <<Callback(r)>>_vars => Fills' \/ Over'
        /\ Calm /\ Fills /\ <<Callback(r)>>_vars => Saves' \/ Over'
        /\ Calm /\ Saves /\ <<Callback(r)>>_vars => Opened' \/ Over'
        /\ Calm /\ Opened /\ <<Callback(r)>>_vars => Over'
    BY CallbackMoves DEF Advances, Pending, Writing
  <2>4. /\ CallbacksMayRun /\ Writes => ENABLED <<Callback(r)>>_vars
        /\ CallbacksMayRun /\ Fills => ENABLED <<Callback(r)>>_vars
        /\ CallbacksMayRun /\ Saves => ENABLED <<Callback(r)>>_vars
        /\ CallbacksMayRun /\ Opened => ENABLED <<Callback(r)>>_vars
    BY DEF CallbacksMayRun, Pending, Writing
  <2>5. pc[r] \in Pending /\ ~IsDelete(r) => Writes \/ Fills \/ Saves \/ Opened
    BY DEF Pending, Writing
  <2> HIDE DEF Writes, Fills, Saves, Opened, Over, Calm
  <2>6. Spec /\ Fair(r) /\ []CallbacksMayRun => (Writes \/ Fills \/ Saves \/ Opened ~> Over)
    BY <2>1, <2>2, <2>3, <2>4, PTL DEF Spec
  <2>7. QED
    BY <2>5, <2>6, PTL DEF Over
<1>2. FairSpec => Spec /\ \A r \in Requests : Fair(r)
  BY PTL DEF FairSpec, Fairness
<1>3. (\A r \in Requests : Reached(r)) => PostsAnswered
  BY PTL DEF PostsAnswered
<1> HIDE DEF Fair, Reached
<1>4. QED
  BY <1>1, <1>2, <1>3

\* A staged path belongs to a post that waits for its commit, or will once its content
\* is written.
Fills(r) == pc[r] = "filling" /\ IsStaged(r)
Owns(r)  == r \in staging \/ Fills(r)

OwnedInv == \A m \in Media : staged[m] # Nil => \E r \in Requests : uuid(r) = m /\ Owns(r)

\* A post whose content is being written goes on to wait for its commit; it leaves the
\* staging area with its path.
LEMMA OwnedStep ==
    ASSUME Steady, IInv, CalmInv, [Next]_vars
    PROVE  /\ \A r \in Requests :
                 /\ r \in staging => r \in staging' \/ staged'[uuid(r)] = Nil
                 /\ Fills(r) => Fills(r)' \/ r \in staging'
                 /\ Owns(r) => uuid(r) \in Media /\ uuid(r)' = uuid(r)
           /\ \A m \in Media :
                 \/ staged'[m] = staged[m] \/ staged'[m] = Nil
                 \/ \E r \in Requests : uuid(r)' = m /\ Fills(r)'
<1>0. TypeOK /\ Kept /\ ReqInv
  BY KeptStep DEF IInv
<1>1. ASSUME NEW r \in Requests, Owns(r)
      PROVE  uuid(r) \in Media /\ uuid(r)' = uuid(r) /\ op'[r] = op[r]
  <2>1. op[r] # Nil
    BY <1>0, <1>1 DEF Owns, Fills, ReqInv, ReqOK, IsStaged
  <2>2. QED
    BY <1>0, <2>1, OpTypes DEF Kept, uuid
<1>3. ASSUME NEW r \in Requests, r \in staging
      PROVE  r \in staging' \/ staged'[uuid(r)] = Nil
  <2> SUFFICES ASSUME r \notin staging' PROVE staged'[uuid(r)] = Nil
    OBVIOUS
  <2>1. uuid(r) \in Media
    BY <1>1, <1>3 DEF Owns
  <2>2. CASE \E q, s \in Requests : CommitAccepted(q, s)
    <3>1. PICK q \in Requests, s \in Requests : CommitAccepted(q, s)
      BY <2>2
    <3>2. s = r
      BY <1>3, <3>1 DEF CommitAccepted
    <3>3. staged[uuid(r)] = Nil => staged' = staged
      BY <3>1, <3>2 DEF CommitAccepted, disk
    <3>4. staged[uuid(r)] # Nil => staged' = [staged EXCEPT ![uuid(r)] = Nil]
      BY <3>1, <3>2 DEF CommitAccepted
    <3>5. QED
      BY <1>0, <2>1, <3>3, <3>4 DEF TypeOK
  <2>3. CASE \E s \in Requests : Timer(s)
    <3>1. PICK s \in Requests : ConfirmTimeout(s)
      BY <1>3, <2>3 DEF Timer, TrashTimeout
    <3>2. s = r
      BY <1>3, <3>1 DEF ConfirmTimeout
    <3>3. QED
      BY <1>0, <2>1, <3>1, <3>2 DEF ConfirmTimeout, TypeOK
  <2>4. CASE \E q \in Requests : Request(q)
    BY <1>3, <2>2, <2>4
       DEF Request, Post, CommitRefused, DeleteAccepted, DeleteRefused, memory
  <2>5. CASE \E q \in Requests : Callback(q)
    BY <1>3, <2>5
       DEF Callback, WriteOpens, WriteDone, WriteFails, recordOrStageEntry, recordEntry,
           stageEntry, SaveOpens, SaveDone, SaveFails, memory
  <2>6. CASE LoadCsv \/ UNCHANGED vars
    BY <1>3, <2>6 DEF LoadCsv, vars, memory
  <2>7. QED
    BY <2>3, <2>4, <2>5, <2>6, CalmNext
<1>4. ASSUME NEW r \in Requests, Fills(r) PROVE Fills(r)' \/ r \in staging'
  <2>1. op'[r] = op[r] /\ op[r].kind = "staged"
    BY <1>1, <1>4 DEF Owns, Fills, IsStaged
  <2>2. CASE WriteDone(r) \/ WriteFails(r)
    BY <2>1, <2>2 DEF WriteDone, WriteFails, recordOrStageEntry, stageEntry
  <2>3. CASE pc'[r] = pc[r]
    BY <1>4, <2>1, <2>3 DEF Fills, IsStaged
  <2>4. ASSUME ~(WriteDone(r) \/ WriteFails(r)) PROVE pc'[r] = pc[r]
    <3>1. ASSUME NEW q \in Requests, Request(q) PROVE pc'[r] = pc[r]
      BY <1>0, <1>4, <3>1, RequestStarts DEF Fills
    <3>2. ASSUME NEW q \in Requests, Callback(q) PROVE pc'[r] = pc[r]
      <4>1. CASE q = r
        BY <1>4, <2>4, <3>2, <4>1
           DEF Fills, Callback, WriteOpens, SaveOpens, SaveDone, SaveFails
      <4>2. CASE q # r
        BY <3>2, <4>2, CallbackMoves
      <4>3. QED
        BY <4>1, <4>2
    <3>3. ASSUME NEW q \in Requests, Timer(q) PROVE pc'[r] = pc[r]
      BY <3>3 DEF Timer, ConfirmTimeout, TrashTimeout
    <3>4. CASE LoadCsv \/ UNCHANGED vars
      BY <3>4 DEF LoadCsv, vars
    <3>5. QED
      BY <3>1, <3>2, <3>3, <3>4, CalmNext
  <2>5. QED
    BY <2>2, <2>3, <2>4
<1>5. ASSUME NEW m \in Media
      PROVE  \/ staged'[m] = staged[m] \/ staged'[m] = Nil
             \/ \E r \in Requests : uuid(r)' = m /\ Fills(r)'
  <2>1. ASSUME NEW r \in Requests, WriteOpens(r), uuid(r) = m, op[r].kind = "staged"
        PROVE  uuid(r)' = m /\ Fills(r)'
    <3>1. op' = op /\ pc'[r] = "filling"
      BY <1>0, <2>1 DEF WriteOpens, TypeOK
    <3>2. op[r] # Nil
      BY <1>0, <2>1, WriterOp DEF WriteOpens
    <3>3. QED
      BY <2>1, <3>1, <3>2 DEF Fills, IsStaged, uuid
  <2>2. QED
    BY <1>0, <2>1, PathStep
<1>6. QED
  BY <1>1, <1>3, <1>4, <1>5

\* What one of several leads to, they all do.
LEMMA AnyLeadsTo ==
    ASSUME NEW m \in Media
    PROVE  (\A r \in Requests : (uuid(r) = m /\ Owns(r) ~> staged[m] = Nil))
           => ((\E r \in Requests : uuid(r) = m /\ Owns(r)) ~> staged[m] = Nil)
<1> DEFINE Has(r) == uuid(r) = m /\ Owns(r)
           Gone   == staged[m] = Nil
<1>1. (\A r \in Requests : (Has(r) ~> Gone)) => [](\A r \in Requests : (Has(r) => <>Gone))
  <2>1. ASSUME NEW r \in Requests PROVE (Has(r) ~> Gone) => [](Has(r) => <>Gone)
    BY PTL
  <2> HIDE DEF Has, Gone
  <2>2. (\A r \in Requests : (Has(r) ~> Gone)) => \A r \in Requests : [](Has(r) => <>Gone)
    BY <2>1
  <2>3. (\A r \in Requests : [](Has(r) => <>Gone)) => [](\A r \in Requests : (Has(r) => <>Gone))
    OBVIOUS
  <2>4. QED
    BY <2>2, <2>3
<1> HIDE DEF Has, Gone
<1>2. (\A r \in Requests : (Has(r) => <>Gone)) => ((\E r \in Requests : Has(r)) => <>Gone)
  OBVIOUS
<1>3. (\A r \in Requests : (Has(r) ~> Gone)) => ((\E r \in Requests : Has(r)) ~> Gone)
  BY <1>1, <1>2, PTL
<1>4. QED
  BY <1>3 DEF Has, Gone

\* Where the process goes on and contents can be written, no staged file stays behind:
\* it goes with the commit of its post or with the first of its two timers.
THEOREM StagedFilesGo ==
    ASSUME Steady
    PROVE  FairSpec /\ []CallbacksMayRun /\ []TimersMayFire => StagedFilesReclaimed
<1> DEFINE Fair(r) == WF_vars(Callback(r)) /\ WF_vars(Timer(r))
           May == []CallbacksMayRun /\ []TimersMayFire
           Reclaimed(m) == (staged[m] # Nil) ~> (staged[m] = Nil)
           Ends(r, m) == uuid(r) = m /\ Owns(r) ~> staged[m] = Nil
<1>1. Spec => [](IInv /\ CalmInv /\ OwnedInv)
  <2>1. Init => OwnedInv
    BY DEF Init, OwnedInv
  <2>2. IInv /\ CalmInv /\ OwnedInv /\ [Next]_vars => OwnedInv'
    <3> SUFFICES ASSUME IInv, CalmInv, OwnedInv, [Next]_vars, NEW m \in Media, staged'[m] # Nil
                 PROVE  \E r \in Requests : uuid(r)' = m /\ Owns(r)'
      BY DEF OwnedInv
    <3>1. CASE staged'[m] = staged[m]
      <4>1. PICK r \in Requests : uuid(r) = m /\ Owns(r)
        BY <3>1 DEF OwnedInv
      <4>2. uuid(r)' = m /\ Owns(r)'
        BY <4>1, OwnedStep DEF Owns
      <4>3. QED
        BY <4>2
    <3>2. CASE \E r \in Requests : uuid(r)' = m /\ Fills(r)'
      BY <3>2 DEF Owns
    <3>3. QED
      BY <3>1, <3>2, OwnedStep
  <2>3. QED
    BY <2>1, <2>2, Invariance, CalmKept, PTL DEF Spec
<1>2. ASSUME NEW m \in Media, NEW r \in Requests
      PROVE  Spec /\ Fair(r) /\ May => Ends(r, m)
  <2> DEFINE Starts == uuid(r) = m /\ Fills(r)
             Waits  == uuid(r) = m /\ r \in staging
             Gone == staged[m] = Nil
             Calm == IInv /\ CalmInv /\ OwnedInv
  <2>1. /\ Calm /\ Starts /\ [Next]_vars => Starts' \/ Waits'
        /\ Calm /\ Waits /\ [Next]_vars => Waits' \/ Gone'
    BY OwnedStep DEF Owns
  <2>2. /\ Calm /\ Starts /\ <<Callback(r)>>_vars => Waits'
        /\ Calm /\ Waits /\ <<Timer(r)>>_vars => Gone'
    <3>1. ASSUME Calm, Starts, <<Callback(r)>>_vars PROVE Waits'
      <4>1. uuid(r)' = uuid(r) /\ (Fills(r)' \/ r \in staging')
        BY <3>1, OwnedStep DEF Owns, Next
      <4>2. pc'[r] # "filling"
        BY <3>1, CallbackMoves DEF Fills, Advances
      <4>3. QED
        BY <3>1, <4>1, <4>2 DEF Fills
    <3>2. ASSUME Calm, Waits, <<Timer(r)>>_vars PROVE Gone'
      BY <3>2 DEF Timer, ConfirmTimeout, TrashTimeout, IInv, OnceInv, TypeOK
    <3>3. QED
      BY <3>1, <3>2
  <2>3. /\ CallbacksMayRun /\ Starts => ENABLED <<Callback(r)>>_vars
        /\ TimersMayFire /\ Waits => ENABLED <<Timer(r)>>_vars
    BY DEF CallbacksMayRun, TimersMayFire, Fills, Pending, Writing
  <2>4. uuid(r) = m /\ Owns(r) <=> Starts \/ Waits
    BY DEF Owns
  <2> HIDE DEF Starts, Waits, Gone, Calm
  <2>5. Spec => []Calm
    BY <1>1 DEF Calm
  <2>6. Spec /\ Fair(r) /\ May => (Starts \/ Waits ~> Gone)
    BY <2>1, <2>2, <2>3, <2>5, PTL DEF Spec
  <2>7. QED
    BY <2>4, <2>6, PTL DEF Gone
<1>3. ASSUME NEW m \in Media
      PROVE  Spec /\ (\A r \in Requests : Ends(r, m)) => Reclaimed(m)
  <2>1. OwnedInv /\ staged[m] # Nil => \E r \in Requests : uuid(r) = m /\ Owns(r)
    BY DEF OwnedInv
  <2>2. QED
    BY <1>1, <2>1, AnyLeadsTo, PTL
<1>4. FairSpec => Spec /\ \A r \in Requests : Fair(r)
  BY PTL DEF FairSpec, Fairness
<1>5. (\A m \in Media : Reclaimed(m)) => StagedFilesReclaimed
  BY PTL DEF StagedFilesReclaimed
<1> HIDE DEF Fair, Reclaimed, Ends
<1>6. QED
  BY <1>2, <1>3, <1>4, <1>5
=============================================================================
