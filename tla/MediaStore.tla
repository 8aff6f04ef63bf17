----------------------------- MODULE MediaStore -----------------------------
(***************************************************************************)
(* The storage driver of rudi-media: one BasicZone (basiczone.js) and the  *)
(* BasicFileDB above it (basicdb.js), with the handlers of index.js that   *)
(* post, commit and delete a media.                                        *)
(*                                                                         *)
(* Node runs one callback at a time; every asynchronous write (writeFile)  *)
(* and every timer (setTimeout) ends in a callback of its own, so each     *)
(* handler is cut at those points and the parts are separate actions.      *)
(*                                                                         *)
(* A request identifier is used once.  The entry object that a post        *)
(* creates, its content and the staging identifier (uuidv4) it may get     *)
(* are all named by the identifier of the post: they are in one-to-one     *)
(* correspondence.  The path of a media is named by the media: on disk it  *)
(* is <uuid>_<filename>, and a media keeps its file name.  A file, which a *)
(* rename moves with the descriptors open on it, is named by the post that *)
(* created it.                                                             *)
(***************************************************************************)
EXTENDS FiniteSets, Naturals

CONSTANTS
    Requests,   \* identifiers of the HTTP requests, each used at most once
    Media,      \* media uuids
    Nil,        \* "undefined"
    Modes,      \* how clients post: "direct" (a user with --x in the zone),
                \* "append" (media-access-method: Append), "staged" (the others)
    Faults,     \* what the environment may do, see FaultKinds
    MaxCrash    \* bound on the number of crashes

\* overlapMedia: a client starts a request on a media another one is busy with
\* overlapZone:  a request starts while another one waits for the CSV file
\* early:        requests are served before the CSV file is loaded
\* diskError:    writing the content of a media may fail
\* csvError:     writing the CSV file may fail
\* crash:        the process may stop at any point, and be started again
FaultKinds ==
    {"overlapMedia", "overlapZone", "early", "diskError", "csvError", "crash"}

ASSUME ConstantsAssumption ==
    /\ Nil \notin Requests /\ Nil \notin Media
    /\ Requests \cap Media = {}
    /\ Modes \subseteq {"direct", "append", "staged"}
    /\ Faults \subseteq FaultKinds
    /\ MaxCrash \in Nat

VARIABLES
    server,   \* "loading" (CSV not read yet), "up", or "down"
    crashes,  \* number of crashes so far
    zoneDb,   \* BasicZone.db: media uuid or staging id -> entry
    staging,  \* BasicZone.staging_db: the staging ids that can be committed
    trash,    \* BasicZone.staging_trash: the staging ids that came too late
    fileDb,   \* BasicFileDB.db: media uuid -> entry
    final,    \* the paths <uuid>_<filename>: the file they name
    staged,   \* the paths .staged_<uuid>_<filename>, likewise
    data,     \* the files: the posts whose whole content they hold
    fd,       \* the file that the write of a post is open on
    csv,      \* the file _file.csv
    op,       \* what each request asks for
    pc,       \* where each request is
    snap,     \* the CSV content computed by the saveZoneCSV of a request
    reply     \* the statuses that the handler of each request answered

memory  == <<zoneDb, staging, trash, fileDb>>
disk    == <<final, staged, data, fd>>
process == <<server, crashes>>
vars    == <<process, memory, disk, csv, op, pc, snap, reply>>

-----------------------------------------------------------------------------
(* Data *)

Keys == Media \cup Requests

PostOp   == [kind : {"direct", "append", "staged"}, media : Media, suid : {Nil}]
CommitOp == [kind : {"commit"}, media : Media, suid : Requests]
DeleteOp == [kind : {"delete"}, media : Media, suid : {Nil}]
Op       == PostOp \cup CommitOp \cup DeleteOp

ASSUME NilAssumption == Nil \notin Op

\* idle    not received           writing  writeFile(content) called
\* filling the file was opened    saving   writeFile(csv) called
\* opened  csv truncated, not written yet
\* hung    no callback will ever run
\* done    answered               twice    answered, and answered again
\* lost    the process stopped before that
PC ==
    {"idle", "writing", "filling", "saving", "opened", "hung", "done", "twice", "lost"}
Writing == {"writing", "filling"}
Pending == Writing \cup {"saving", "opened"}

Csv  == [lines : SUBSET Requests, torn : BOOLEAN]
File == Requests \cup {Nil}

IsPost(r)   == op[r] # Nil /\ op[r].kind \in {"direct", "append", "staged"}
IsStaged(r) == op[r] # Nil /\ op[r].kind = "staged"
IsCommit(r) == op[r] # Nil /\ op[r].kind = "commit"
IsDelete(r) == op[r] # Nil /\ op[r].kind = "delete"

\* The media of an entry, and the entry a request is about.
uuid(e)    == op[e].media
entryOf(r) == IF op[r].kind = "commit" THEN op[r].suid ELSE r

\* The entries of a table (BasicZone.db or BasicFileDB.db).
Entries(db) == {db[k] : k \in DOMAIN db} \ {Nil}

\* The file that a write opens: the one at its path, or a new one.
target(r) == IF op[r].kind = "staged" THEN staged[uuid(r)] ELSE final[uuid(r)]
opens(r)  == IF target(r) = Nil THEN r ELSE target(r)

\* What the write of a post leaves of a file that holds was, when it failed anywhere
\* and when it completed.  Flag 'a' only adds to the file; flag 'w' truncated it when
\* it opened it, but another write may have filled it since: both may be left.
Partial(r, was) == {was} \cup (IF op[r].kind = "append" THEN {} ELSE {{}})
Whole(r, was)   == {was \cup {r}} \cup (IF op[r].kind = "append" THEN {} ELSE {{r}})

\* The CSV file after a write of lines at its beginning.  The file was truncated
\* when it was opened, but another save may have filled it since: where that text
\* is longer its end remains, cut at any byte.
Overwritten(lines) ==
    {c \in [lines : SUBSET (csv.lines \cup lines), torn : BOOLEAN] :
        /\ lines \subseteq c.lines
        /\ c.torn => csv.torn \/ ~(csv.lines \subseteq lines)}

\* The CSV file after a write of lines that stopped anywhere.
CutShort(lines) == [lines : SUBSET lines, torn : BOOLEAN]

-----------------------------------------------------------------------------
(* Which requests the environment sends *)

Alive == server = "up" \/ (server = "loading" /\ "early" \in Faults)

\* Some request on the media is not over.
Working(m) == \E r \in Requests : op[r] # Nil /\ uuid(r) = m /\ pc[r] \in Pending

\* Some post of the media waits for its commit.
Waiting(m) == \E r \in staging : uuid(r) = m

MayStart(r, m) ==
    /\ Alive
    /\ pc[r] = "idle"
    /\ "overlapMedia" \in Faults \/ ~Working(m)
    /\ "overlapZone" \in Faults \/ \A q \in Requests : pc[q] \notin Pending

-----------------------------------------------------------------------------
(* Building blocks of the handlers *)

\* Where a request ends when it is answered after answers were given: the response
\* was ended by the first of them.
afterAnswer(answers) == IF answers = {} THEN "done" ELSE "twice"

\* Faulty: a deleted key leaves a hole that is saved too.
saveZoneCSV_holes(r) ==
    /\ snap' = [snap EXCEPT ![r] = {zoneDb'[k] : k \in Keys}]
    /\ pc' = [pc EXCEPT ![r] = "saving"]

\* Faulty: the content is computed before the change.
saveZoneCSV_stale(r) ==
    /\ snap' = [snap EXCEPT ![r] = Entries(zoneDb)]
    /\ pc' = [pc EXCEPT ![r] = "saving"]

\* saveZoneCSV: the content is computed now and written later.  When it is empty
\* nothing is written and neither of the callbacks is ever called.
saveZoneCSV(r) ==
    LET content == Entries(zoneDb')
    IN  /\ snap' = [snap EXCEPT ![r] = content]
        /\ pc' = [pc EXCEPT ![r] = IF content = {} THEN "hung" ELSE "saving"]

\* Faulty: the entry is registered as soon as it is staged.
stageEntry_registered(r, answers) ==
    /\ staging' = staging \cup {r}
    /\ zoneDb' = [zoneDb EXCEPT ![r] = r]
    /\ pc' = [pc EXCEPT ![r] = afterAnswer(answers)]
    /\ UNCHANGED snap

\* stageEntry, and the two timers it arms.
stageEntry(r, answers) ==
    /\ staging' = staging \cup {r}
    /\ pc' = [pc EXCEPT ![r] = afterAnswer(answers)]
    /\ UNCHANGED <<zoneDb, snap>>

recordEntry(r) ==
    /\ zoneDb' = [zoneDb EXCEPT ![uuid(r)] = r]
    /\ saveZoneCSV(r)
    /\ UNCHANGED staging

\* The callback of the writeFile of newBasicEntryFromMetadata, which has answered
\* answers before it records or stages the entry.  The entry is recorded or staged
\* whether the write succeeded or not.
recordOrStageEntry(r, answers) ==
    /\ \/ /\ op[r].kind = "staged"
          /\ stageEntry(r, answers)
          /\ reply' = [reply EXCEPT ![r] = answers \cup {"ok"}]
       \/ /\ op[r].kind # "staged"
          /\ recordEntry(r)
          /\ reply' = [reply EXCEPT ![r] = answers]
    /\ UNCHANGED <<process, trash, fileDb, csv, op>>

-----------------------------------------------------------------------------
(* Posting a media: postFile, addEntry, newBasicEntryFromMetadata *)

Post(r, m, kind) ==
    /\ MayStart(r, m)
    /\ "overlapMedia" \in Faults \/ ~Waiting(m)
    /\ op' = [op EXCEPT ![r] = [kind |-> kind, media |-> m, suid |-> Nil]]
    /\ pc' = [pc EXCEPT ![r] = "writing"]
    /\ UNCHANGED <<process, memory, disk, csv, snap, reply>>

\* writeFile opens the file: flag 'w' truncates it, flag 'a' creates it when it is
\* missing.
WriteOpens(r) ==
    /\ pc[r] = "writing"
    /\ pc' = [pc EXCEPT ![r] = "filling"]
    /\ fd' = [fd EXCEPT ![r] = opens(r)]
    /\ data' = [data EXCEPT ![opens(r)] = IF op[r].kind = "append" THEN @ ELSE {}]
    /\ \/ /\ op[r].kind = "staged"
          /\ staged' = [staged EXCEPT ![uuid(r)] = opens(r)]
          /\ UNCHANGED final
       \/ /\ op[r].kind # "staged"
          /\ final' = [final EXCEPT ![uuid(r)] = opens(r)]
          /\ UNCHANGED staged
    /\ UNCHANGED <<process, memory, csv, op, snap, reply>>

\* The content goes to the file that was opened, whatever path it has by now.
fill(r, contents) ==
    /\ pc[r] = "filling"
    /\ \E content \in contents : data' = [data EXCEPT ![fd[r]] = content]
    /\ fd' = [fd EXCEPT ![r] = Nil]

WriteDone(r) ==
    /\ fill(r, Whole(r, data[fd[r]]))
    /\ recordOrStageEntry(r, {})
    /\ UNCHANGED <<final, staged>>

WriteFails(r) ==
    /\ "diskError" \in Faults
    /\ \/ pc[r] = "writing" /\ UNCHANGED <<data, fd>>
       \/ fill(r, Partial(r, data[fd[r]]))
    /\ recordOrStageEntry(r, {"error"})
    /\ UNCHANGED <<final, staged>>

\* Faulty: the file removed is not the staged one.
ConfirmTimeout_final(r) ==
    /\ r \in staging
    /\ staging' = staging \ {r}
    /\ trash' = trash \cup {r}
    /\ final' = [final EXCEPT ![uuid(r)] = Nil]
    /\ UNCHANGED <<process, zoneDb, fileDb, staged, data, fd, csv, op, pc, snap, reply>>

\* Faulty: the staged file is kept.
ConfirmTimeout_keep(r) ==
    /\ r \in staging
    /\ staging' = staging \ {r}
    /\ trash' = trash \cup {r}
    /\ UNCHANGED <<process, zoneDb, fileDb, disk, csv, op, pc, snap, reply>>

\* The first timer: the media was not committed in time.
ConfirmTimeout(r) ==
    /\ r \in staging
    /\ staging' = staging \ {r}
    /\ trash' = trash \cup {r}
    /\ staged' = [staged EXCEPT ![uuid(r)] = Nil]
    /\ UNCHANGED <<process, zoneDb, fileDb, final, data, fd, csv, op, pc, snap, reply>>

\* Faulty: the entry stays in the trash.
TrashTimeout_keep(r) == r \in trash /\ UNCHANGED vars

\* The second timer: the staging id is forgotten.
TrashTimeout(r) ==
    /\ r \in trash
    /\ trash' = trash \ {r}
    /\ UNCHANGED <<process, zoneDb, staging, fileDb, disk, csv, op, pc, snap, reply>>

-----------------------------------------------------------------------------
(* Committing a staged media: commitMedia, commit, commitEntry *)

\* A client commits an id it was given (a post answered an error first gives none);
\* the commit may come after the timers.
Commit(q, r) ==
    /\ IsStaged(r) /\ reply[r] = {"ok"}
    /\ MayStart(q, uuid(r))
    /\ op' = [op EXCEPT ![q] = [kind |-> "commit", media |-> uuid(r), suid |-> r]]

\* Faulty: the staging id can still be committed after a commit.
CommitAccepted_again(q, r) ==
    /\ Commit(q, r)
    /\ r \in staging
    /\ zoneDb' = [zoneDb EXCEPT ![r] = r]
    /\ saveZoneCSV(q)
    /\ UNCHANGED <<process, staging, trash, fileDb, disk, csv, reply>>

\* Faulty: an id that is in the trash can still be committed.
CommitAccepted_late(q, r) ==
    /\ Commit(q, r)
    /\ r \in staging \cup trash
    /\ staging' = staging \ {r} /\ trash' = trash \ {r}
    /\ zoneDb' = [zoneDb EXCEPT ![r] = r]
    /\ saveZoneCSV(q)
    /\ UNCHANGED <<process, fileDb, disk, csv, reply>>

CommitAccepted(q, r) ==
    /\ Commit(q, r)
    /\ r \in staging
    /\ staging' = staging \ {r}
    /\ zoneDb' = [zoneDb EXCEPT ![r] = r]
    /\ IF staged[uuid(r)] = Nil
         THEN UNCHANGED disk         \* renameSync fails, which is only logged
         ELSE /\ final' = [final EXCEPT ![uuid(r)] = staged[uuid(r)]]
              /\ staged' = [staged EXCEPT ![uuid(r)] = Nil]
              /\ UNCHANGED <<data, fd>>
    /\ saveZoneCSV(q)
    /\ UNCHANGED <<process, trash, fileDb, csv, reply>>

CommitRefused(q, r) ==
    /\ Commit(q, r)
    /\ r \notin staging
    /\ pc' = [pc EXCEPT ![q] = "done"]
    /\ reply' = [reply EXCEPT ![q] = {"error"}]
    /\ UNCHANGED <<process, memory, disk, csv, snap>>

-----------------------------------------------------------------------------
(* Deleting a media: deleteMedia, mdelete, deleteEntry *)

Delete(q, m) ==
    /\ MayStart(q, m)
    /\ "overlapMedia" \in Faults \/ ~Waiting(m)
    /\ op' = [op EXCEPT ![q] = [kind |-> "delete", media |-> m, suid |-> Nil]]

DeleteAccepted(q, m) ==
    /\ Delete(q, m)
    /\ fileDb[m] # Nil /\ zoneDb[m] # Nil
    /\ zoneDb' = [zoneDb EXCEPT ![m] = Nil]
    /\ final' = [final EXCEPT ![m] = Nil]
    /\ saveZoneCSV(q)
    /\ UNCHANGED <<process, staging, trash, fileDb, staged, data, fd, csv, reply>>

\* A media committed since the server started is in zone.db under its staging
\* id: deleteEntry does not find it.
DeleteRefused(q, m) ==
    /\ Delete(q, m)
    /\ fileDb[m] = Nil \/ zoneDb[m] = Nil
    /\ pc' = [pc EXCEPT ![q] = "done"]
    /\ reply' = [reply EXCEPT ![q] = {"error"}]
    /\ UNCHANGED <<process, memory, disk, csv, snap>>

-----------------------------------------------------------------------------
(* Writing the CSV file, and the callbacks of the request that asked for it *)

SaveOpens(q) ==
    /\ pc[q] = "saving"
    /\ pc' = [pc EXCEPT ![q] = "opened"]
    /\ csv' = [lines |-> {}, torn |-> FALSE]
    /\ UNCHANGED <<process, memory, disk, op, snap, reply>>

\* Faulty: the database keeps an entry that the zone deleted.
SaveDone_keep(q) ==
    /\ pc[q] = "opened"
    /\ csv' \in Overwritten(snap[q])
    /\ fileDb' = [fileDb EXCEPT ![uuid(q)] = IF IsDelete(q) THEN @ ELSE entryOf(q)]
    /\ pc' = [pc EXCEPT ![q] = afterAnswer(reply[q])]
    /\ reply' = [reply EXCEPT ![q] = @ \cup {"ok"}]
    /\ UNCHANGED <<process, zoneDb, staging, trash, disk, op, snap>>

\* addDone, commitDone and deleteDone of BasicFileDB.
SaveDone(q) ==
    /\ pc[q] = "opened"
    /\ csv' \in Overwritten(snap[q])
    /\ fileDb' = [fileDb EXCEPT ![uuid(q)] = IF IsDelete(q) THEN Nil ELSE entryOf(q)]
    /\ pc' = [pc EXCEPT ![q] = afterAnswer(reply[q])]
    /\ reply' = [reply EXCEPT ![q] = @ \cup {"ok"}]
    /\ UNCHANGED <<process, zoneDb, staging, trash, disk, op, snap>>

\* Faulty: the error is not passed on.
SaveFails_silent(q) ==
    /\ "csvError" \in Faults
    /\ pc[q] = "opened" /\ csv' \in CutShort(snap[q])
    /\ pc' = [pc EXCEPT ![q] = "hung"]
    /\ UNCHANGED <<process, memory, disk, op, snap, reply>>

SaveFails(q) ==
    /\ "csvError" \in Faults
    /\ \/ pc[q] = "saving" /\ UNCHANGED csv
       \/ pc[q] = "opened" /\ csv' \in CutShort(snap[q])
    /\ pc' = [pc EXCEPT ![q] = afterAnswer(reply[q])]
    /\ reply' = [reply EXCEPT ![q] = @ \cup {"error"}]
    /\ UNCHANGED <<process, memory, disk, op, snap>>

-----------------------------------------------------------------------------
(* Stopping, starting and loading the CSV file *)

\* What a file may hold after a stop: the writes that are open on it stop anywhere.
Leftovers(f) ==
    LET writers == {r \in Requests : pc[r] = "filling" /\ fd[r] = f}
    IN  {c \in SUBSET (data[f] \cup writers) :
            (\A r \in writers : op[r].kind = "append") => data[f] \subseteq c}

AfterStop ==
    {d \in [Requests -> UNION {Leftovers(f) : f \in Requests}] :
        \A f \in Requests : d[f] \in Leftovers(f)}

\* The process ends: its memory is lost, writes that are under way stop anywhere.
Stop ==
    /\ server' = "down"
    /\ zoneDb' = [k \in Keys |-> Nil]
    /\ fileDb' = [m \in Media |-> Nil]
    /\ staging' = {} /\ trash' = {}
    /\ data' \in AfterStop
    /\ fd' = [r \in Requests |-> Nil]
    /\ csv' \in {csv} \cup UNION {CutShort(snap[q]) :
                                    q \in {r \in Requests : pc[r] = "opened"}}
    /\ pc' = [r \in Requests |-> IF pc[r] \in Pending \cup {"hung", "twice"}
                                   THEN "lost" ELSE pc[r]]
    /\ UNCHANGED <<final, staged, op, snap, reply>>

\* A second answer writes to a response that was ended: its error event, which
\* nothing listens to, ends the process, unless the response was closed before.
WriteAfterEnd(r) ==
    /\ pc[r] = "twice"
    /\ UNCHANGED crashes
    /\ Stop

Crash ==
    /\ "crash" \in Faults /\ crashes < MaxCrash
    /\ server # "down"
    /\ crashes' = crashes + 1
    /\ Stop

Restart ==
    /\ server = "down"
    /\ server' = "loading"
    /\ UNCHANGED <<crashes, memory, disk, csv, op, pc, snap, reply>>

\* One line per media is kept: where the file has several, the one read last.
LoadCsv ==
    /\ server = "loading" /\ ~csv.torn
    /\ server' = "up"
    /\ \E line \in [Media -> csv.lines \cup {Nil}] :
          /\ \A m \in Media :
                LET lines == {e \in csv.lines : uuid(e) = m}
                IN  line[m] \in IF lines = {} THEN {Nil} ELSE lines
          /\ zoneDb' = [k \in Keys |-> IF k \in Media /\ line[k] # Nil
                                         THEN line[k] ELSE zoneDb[k]]
          /\ fileDb' = [m \in Media |-> IF line[m] # Nil THEN line[m] ELSE fileDb[m]]
    /\ UNCHANGED <<crashes, staging, trash, disk, csv, op, pc, snap, reply>>

\* newBasicEntryFromCsv throws out of the callback of readFile: nothing catches it.
LoadCsvFails ==
    /\ server = "loading" /\ csv.torn
    /\ UNCHANGED crashes
    /\ Stop

-----------------------------------------------------------------------------

Init ==
    /\ server = "loading" /\ crashes = 0
    /\ zoneDb = [k \in Keys |-> Nil]
    /\ fileDb = [m \in Media |-> Nil]
    /\ staging = {} /\ trash = {}
    /\ final = [m \in Media |-> Nil]
    /\ staged = [m \in Media |-> Nil]
    /\ data = [f \in Requests |-> {}]
    /\ fd = [r \in Requests |-> Nil]
    /\ csv = [lines |-> {}, torn |-> FALSE]
    /\ op = [r \in Requests |-> Nil]
    /\ pc = [r \in Requests |-> "idle"]
    /\ snap = [r \in Requests |-> {}]
    /\ reply = [r \in Requests |-> {}]

Request(r) ==
    \/ \E m \in Media, kind \in Modes : Post(r, m, kind)
    \/ \E s \in Requests : CommitAccepted(r, s) \/ CommitRefused(r, s)
    \/ \E m \in Media : DeleteAccepted(r, m) \/ DeleteRefused(r, m)

Callback(r) ==
    \/ WriteOpens(r) \/ WriteDone(r) \/ WriteFails(r)
    \/ SaveOpens(r) \/ SaveDone(r) \/ SaveFails(r)

Timer(r) == ConfirmTimeout(r) \/ TrashTimeout(r)

Lifecycle == Crash \/ (\E r \in Requests : WriteAfterEnd(r)) \/ Restart \/ LoadCsv \/ LoadCsvFails

Next ==
    \/ \E r \in Requests : Request(r) \/ Callback(r) \/ Timer(r)
    \/ Lifecycle

Spec == Init /\ [][Next]_vars

\* Node runs the callbacks of the writes it started and the timers it armed, and
\* reads the CSV file when it starts; clients owe nothing.
Fairness ==
    /\ \A r \in Requests : WF_vars(Callback(r)) /\ WF_vars(Timer(r))
    /\ WF_vars(LoadCsv)

FairSpec == Spec /\ Fairness

-----------------------------------------------------------------------------
(* Properties *)

TypeOK ==
    /\ server \in {"loading", "up", "down"} /\ crashes \in 0 .. MaxCrash
    /\ zoneDb \in [Keys -> Requests \cup {Nil}]
    /\ fileDb \in [Media -> Requests \cup {Nil}]
    /\ staging \subseteq Requests /\ trash \subseteq Requests
    /\ final \in [Media -> File] /\ staged \in [Media -> File]
    /\ data \in [Requests -> SUBSET Requests] /\ fd \in [Requests -> File]
    /\ csv \in Csv
    /\ op \in [Requests -> Op \cup {Nil}]
    /\ pc \in [Requests -> PC]
    /\ snap \in [Requests -> SUBSET Requests]
    /\ reply \in [Requests -> SUBSET {"ok", "error"}]

\* The entries that the zone lists, that the database serves, that the CSV file
\* holds or that a save under way is about to write to it.
Visible ==
    Entries(zoneDb) \cup Entries(fileDb) \cup csv.lines
        \cup UNION {snap[r] : r \in {q \in Requests : pc[q] \in {"saving", "opened"}}}

\* A post that waits for its commit, or that waited too long, is visible nowhere:
\* not in a list, not through a get, not after a restart.
StagedHidden == (staging \cup trash) \cap Visible = {}

\* The commits of a post that commitEntry accepted: they went on to save the CSV.
Commits(r) == {q \in Requests : IsCommit(q) /\ op[q].suid = r /\ snap[q] # {}}

\* A staged post is visible only through a commit, and through a single one: a
\* second commit, or one that lost the race with the timer, changes nothing.
CommittedOnce ==
    \A r \in Requests :
        IsStaged(r) => /\ \A p, q \in Commits(r) : p = q
                       /\ r \in Visible => Commits(r) # {}
                       /\ r \in staging \cup trash => Commits(r) = {}

\* The life of the staged posts implements StagingPromise: no interleaving of
\* commits, timers and stops commits a post twice, or one that was given up.
phase ==
    [r \in Requests |-> IF r \in staging THEN "staged"
                        ELSE IF Commits(r) # {} THEN "committed"
                        ELSE IF IsStaged(r) /\ "ok" \in reply[r] THEN "expired"
                        ELSE "new"]
Promise == INSTANCE StagingPromise WITH Posts <- Requests
StagingKept == Promise!Spec

\* What the database serves is what the zone lists once the requests on the media
\* are over: BasicFileDB.db and BasicZone.db are updated by different callbacks.
\* A delete that was never answered is not over.
ServedIsListed ==
    \A m \in Media :
        \/ fileDb[m] = Nil \/ Working(m)
        \/ \E q \in Requests : pc[q] = "hung" /\ uuid(q) = m
        \/ \E e \in Entries(zoneDb) : uuid(e) = m

\* When no save is under way the CSV file gives back, media by media, what the
\* zone lists, unless the zone became empty.
SettledCsv ==
    \/ server # "up" \/ Entries(zoneDb) = {}
    \/ \E r \in Requests : pc[r] \in Pending
    \/ /\ ~csv.torn
       /\ Entries(zoneDb) \subseteq csv.lines
       /\ {uuid(e) : e \in csv.lines} = {uuid(e) : e \in Entries(zoneDb)}

\* The same whatever the zone holds: "a permanent file is created and updated in
\* all storage zones [to] setup the media database when it restarts" (Readme.md).
CsvUpToDate ==
    \/ server # "up"
    \/ \E r \in Requests : pc[r] \in Pending
    \/ {uuid(e) : e \in csv.lines} = {uuid(e) : e \in Entries(zoneDb)}

\* Some delete of the media was accepted (one that is refused saves nothing).
Deleted(m) ==
    \E q \in Requests :
        IsDelete(q) /\ uuid(q) = m /\ (snap[q] # {} \/ reply[q] # {"error"})

\* Commits replace a file in one step (renameSync): a media that is served, that is
\* only posted through staging and was never deleted, has a file with the whole
\* content of one post, whatever writes fail and whenever the process stops.
ServedIsWhole ==
    \A m \in Media :
        \/ fileDb[m] = Nil \/ Deleted(m)
        \/ \E r \in Requests : IsPost(r) /\ uuid(r) = m /\ ~IsStaged(r)
        \/ final[m] # Nil /\ \E r \in Requests : data[final[m]] = {r}

\* Every post and every commit is answered in the end, where every content can be
\* written and the process does not stop.
PostsAnswered ==
    \A r \in Requests :
        (pc[r] \in Pending /\ ~IsDelete(r)) ~> (reply[r] # {} /\ pc[r] = "done")

\* A staged media is committed or forgotten in the end, and its file does not
\* stay behind.
StagingEnds ==
    \A r \in Requests : (r \in staging \cup trash) ~> (r \notin staging \cup trash)
StagedFilesReclaimed == \A m \in Media : (staged[m] # Nil) ~> (staged[m] = Nil)
=============================================================================
