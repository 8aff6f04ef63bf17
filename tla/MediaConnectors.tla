-------------------------- MODULE MediaConnectors --------------------------
(***************************************************************************)
(* How rudi-media gives access to its medias: BasicFileDB opens a storage  *)
(* connector to a media (get), serves its content (find) until a timer     *)
(* removes it (deleleteFileId), checks the content of a media (check), and *)
(* logs it all, into MongoDB too (recordEntry, logEntry, addMedia).        *)
(*                                                                         *)
(* What a zone does of overlapping requests on a media is the matter of    *)
(* MediaStore, with writes of contents that fail and stops: here requests  *)
(* that change a media wait for each other, but nothing waits for those    *)
(* that read it.  A staged post is seen here when it is committed: until   *)
(* then it touches nothing of what is read.                                *)
(*                                                                         *)
(* An entry is named by the post that made it.  A file, which a rename     *)
(* moves and which reads hold open, is named by the post that created it.  *)
(* A content is the set of the posts that are whole in it, in the order    *)
(* they came: one, or several that were appended; none where it is cut.    *)
(***************************************************************************)
EXTENDS Naturals, FiniteSets

CONSTANTS
    Posts,      \* the posts, those found in the CSV file included
    Conns,      \* connector ids, each used at most once
    Gets,       \* requests to read a media, each used at most once
    Media,      \* media uuids
    FileNames,
    Nil,
    Faults      \* what the environment may do, see FaultKinds

\* early:    requests are served before the entries of the CSV file are recorded
\* csvError: writing the CSV file may fail
\* stop:     the process may be interrupted, once
FaultKinds == {"early", "csvError", "stop"}

ASSUME ConstantsAssumption ==
    /\ Nil \notin Posts \cup Conns \cup Gets \cup Media \cup FileNames
    /\ Posts \cap Media = {}
    /\ IsFiniteSet(Posts)
    /\ Faults \subseteq FaultKinds

VARIABLES
    server,     \* "up", "closing" (no new request), or "down"
    entry,      \* the entries: [media, name, kind]
    md5,        \* their hashes: the content each one is the hash of
    zoneDb,     \* BasicZone.db: media uuid or staging id -> entry
    db,         \* BasicFileDB.db: media uuid -> entry
    file,       \* the paths <uuid>_<filename>: the file they name
    data,       \* the files: their content
    load, post, \* where the recording of an entry of the CSV file, the post of an
    drop,       \* entry and its deletion are
    storageId,  \* BasicFileDB.storageId
    timer,      \* the connectors whose timer is armed
    journal,    \* the last operation logged of each connector
    get,        \* what a request reads, and what it may find
    answer,     \* its status, and the content served or checked
    age,        \* (history) the number of entries made before this one
    due,        \* (history) the posts of the media that were listed when its
                \* connector was opened
    raced       \* (history) the medias that were listed by a request while an entry
                \* of the CSV file was still being recorded

store == <<entry, zoneDb, age>>
disk  == <<file, data>>
logs  == <<load, post, drop>>
conns == <<storageId, timer, journal, due>>
reads == <<get, answer>>
vars  == <<server, store, md5, disk, db, logs, conns, reads, raced>>

-----------------------------------------------------------------------------
(* Data *)

\* Where the recording, the post or the deletion of an entry is:
\* writing  the file is open, its content is being written
\* saving   the CSV file is being saved     hung   it is not, for want of a line
\* failed   it could not be saved           logging   MongoDB logs the entry
Over == {"none", "hung", "failed", "done"}

\* How an entry came: written or appended to the file of its name, committed after it
\* was staged, or read from a line of the CSV file, whose file may be lost.
Kind == {"write", "append", "commit", "line", "lost"}

Keys == Media \cup Posts
Content == SUBSET Posts
Entry == [media : Media, name : FileNames, kind : Kind]
Path == Media \X FileNames
Connector == [ref : Media, source : Path, count : Nat]
Get == [conn : Conns \cup {Nil}, media : Media, path : Path, entry : Posts \cup {Nil},
        file : Posts \cup {Nil}, seen : SUBSET Content]
Answer == [status : {"ok", "notFound", "error"}, content : Content]

ASSUME NilAssumption == Nil \notin Entry \cup Connector \cup Get \cup Answer

\* getPathFromConnector of getStorageName.
path(p) == <<entry[p].media, entry[p].name>>

EntriesOf(m) == {p \in Posts : entry[p] # Nil /\ entry[p].media = m}
isLoading(m) == \E p \in EntriesOf(m) : load[p] = "logging"

\* No client changes the media.
isIdle(m) == \A p \in EntriesOf(m) : post[p] \in Over /\ drop[p] \in Over

\* Requests on the media are served.
isServed(m) == server = "up" /\ ("early" \in Faults \/ ~isLoading(m))

\* What a callback of a request lists, or lists no longer.
lists(m, e) ==
    /\ db' = [db EXCEPT ![m] = e]
    /\ raced' = IF isLoading(m) THEN raced \cup {m} ELSE raced

-----------------------------------------------------------------------------
(* Recording the entries of the CSV file: recordEntry *)

\* An entry is listed once MongoDB logged it, or failed to, whatever is listed now.
LoadLogs(p) ==
    /\ load[p] = "logging"
    /\ load' = [load EXCEPT ![p] = "done"]
    /\ db' = [db EXCEPT ![entry[p].media] = p]
    /\ UNCHANGED <<server, store, md5, disk, post, drop, conns, reads, raced>>

-----------------------------------------------------------------------------
(* Posting, committing and deleting a media: addEntry, commit, mdelete *)

written == Cardinality({p \in Posts : entry[p] # Nil})

\* A new entry, and where the post that made it is.
makes(p, m, n, kind, step) ==
    /\ isServed(m) /\ isIdle(m)
    /\ entry[p] = Nil
    /\ entry' = [entry EXCEPT ![p] = [media |-> m, name |-> n, kind |-> kind]]
    /\ md5' = [md5 EXCEPT ![p] = {p}]
    /\ age' = [age EXCEPT ![p] = written]
    /\ post' = [post EXCEPT ![p] = step]

\* Those who read a file may find this content from now on.
readersSee(f, content) ==
    [g \in Gets |-> IF get[g] # Nil /\ answer[g] = Nil /\ get[g].file = f
                       THEN [get[g] EXCEPT !.seen = @ \cup {content}] ELSE get[g]]

\* Faulty: the files that the media had under other names are removed.
Post_replace(p, m, n, kind) ==
    LET f == IF file[<<m, n>>] = Nil THEN p ELSE file[<<m, n>>]
    IN  /\ makes(p, m, n, kind, "writing")
        /\ file' = [s \in Path |-> IF s[1] # m THEN file[s] ELSE IF s[2] = n THEN f ELSE Nil]
        /\ data' = [data EXCEPT ![f] = IF kind = "append" THEN @ ELSE {}]
        /\ get' = readersSee(f, {})
        /\ UNCHANGED <<server, zoneDb, db, load, drop, conns, answer, raced>>

\* writeFile, once it opened the file: flag 'w' truncates it, flag 'a' leaves what it
\* has.  The hash is that of what the client sends.
Post(p, m, n, kind) ==
    LET f == IF file[<<m, n>>] = Nil THEN p ELSE file[<<m, n>>]
    IN  /\ makes(p, m, n, kind, "writing")
        /\ file' = [file EXCEPT ![<<m, n>>] = f]
        /\ data' = [data EXCEPT ![f] = IF kind = "append" THEN @ ELSE {}]
        /\ get' = readersSee(f, {})
        /\ UNCHANGED <<server, zoneDb, db, load, drop, conns, answer, raced>>

\* The content is written: the entry is recorded in the zone.
PostWritten(p) ==
    LET f == file[path(p)]
        content == IF entry[p].kind = "append" THEN data[f] \cup {p} ELSE {p}
    IN  /\ post[p] = "writing"
        /\ data' = [data EXCEPT ![f] = content]
        /\ get' = readersSee(f, content)
        /\ zoneDb' = [zoneDb EXCEPT ![entry[p].media] = p]
        /\ post' = [post EXCEPT ![p] = "saving"]
        /\ UNCHANGED <<server, entry, md5, age, file, db, load, drop, conns, answer, raced>>

\* Faulty: the staged file is copied onto the file.
Commit_copy(p, m, n) ==
    LET f == IF file[<<m, n>>] = Nil THEN p ELSE file[<<m, n>>]
    IN  /\ makes(p, m, n, "commit", "saving")
        /\ file' = [file EXCEPT ![<<m, n>>] = f]
        /\ data' = [data EXCEPT ![f] = {p}]
        /\ get' = readersSee(f, {})
        /\ zoneDb' = [zoneDb EXCEPT ![p] = p]
        /\ UNCHANGED <<server, db, load, drop, conns, answer, raced>>

\* renameSync puts the staged file in the place of the file; the entry is recorded in
\* the zone under its staging id, beside the one of the last direct post.
Commit(p, m, n) ==
    /\ makes(p, m, n, "commit", "saving")
    /\ file' = [file EXCEPT ![<<m, n>>] = p]
    /\ data' = [data EXCEPT ![p] = {p}]
    /\ zoneDb' = [zoneDb EXCEPT ![p] = p]
    /\ UNCHANGED <<server, db, load, drop, conns, reads, raced>>

PostSaved(p) ==
    /\ post[p] = "saving"
    /\ lists(entry[p].media, p)
    /\ post' = [post EXCEPT ![p] = "done"]
    /\ UNCHANGED <<server, store, md5, disk, load, drop, conns, reads>>

\* The zone keeps the entry, the database the one it had.
PostFails(p) ==
    /\ "csvError" \in Faults
    /\ post[p] = "saving"
    /\ post' = [post EXCEPT ![p] = "failed"]
    /\ UNCHANGED <<server, store, md5, disk, db, load, drop, conns, reads, raced>>

\* What the zone has under the uuid is deleted: not what was committed.  When no line
\* is left to save, nothing is, and the request is never answered.
Delete(m) ==
    /\ isServed(m) /\ isIdle(m)
    /\ db[m] # Nil /\ zoneDb[m] # Nil
    /\ zoneDb' = [zoneDb EXCEPT ![m] = Nil]
    /\ file' = [file EXCEPT ![path(zoneDb[m])] = Nil]
    /\ drop' = [drop EXCEPT ![zoneDb[m]] =
                   IF \E k \in Keys : zoneDb'[k] # Nil THEN "saving" ELSE "hung"]
    /\ UNCHANGED <<server, entry, md5, age, data, db, load, post, conns, reads, raced>>

\* Faulty: the media stays listed.
DeleteSaved_keep(p) ==
    /\ drop[p] = "saving"
    /\ drop' = [drop EXCEPT ![p] = "done"]
    /\ UNCHANGED <<server, store, md5, disk, db, load, post, conns, reads, raced>>

DeleteSaved(p) ==
    /\ drop[p] = "saving"
    /\ lists(entry[p].media, Nil)
    /\ drop' = [drop EXCEPT ![p] = "done"]
    /\ UNCHANGED <<server, store, md5, disk, load, post, conns, reads>>

\* The zone forgot the entry, the database keeps what it had.
DeleteFails(p) ==
    /\ "csvError" \in Faults
    /\ drop[p] = "saving"
    /\ drop' = [drop EXCEPT ![p] = "failed"]
    /\ UNCHANGED <<server, store, md5, disk, db, load, post, conns, reads, raced>>

-----------------------------------------------------------------------------
(* Connectors: get, find, deleleteFileId *)

\* The posts of the media that the database listed.
Listed(m) == {p \in EntriesOf(m) : post[p] = "done"}

\* What get adds: a connector to what is listed, with its path, and a timer.
opened(c, m) ==
    /\ server = "up"
    /\ journal[c] = "none"
    /\ db[m] # Nil
    /\ timer' = timer \cup {c}
    /\ due' = [due EXCEPT ![c] = Listed(m)]

\* readFile, called for a media.
reading(c, m, source, e) ==
    [conn |-> c, media |-> m, path |-> source, entry |-> e, file |-> Nil, seen |-> {}]

\* GET /media/<uuid>: the client gets the URL of the connector.
Open(c, m) ==
    /\ opened(c, m)
    /\ storageId' = [storageId EXCEPT ![c] = [ref |-> m, source |-> path(db[m]), count |-> 0]]
    /\ journal' = [journal EXCEPT ![c] = "new_conn"]
    /\ UNCHANGED <<server, store, md5, disk, db, logs, reads, raced>>

\* The same with "Direct": the content is read through it at once.
Direct(g, c, m) ==
    /\ opened(c, m)
    /\ get[g] = Nil
    /\ storageId' = [storageId EXCEPT ![c] = [ref |-> m, source |-> path(db[m]), count |-> 1]]
    /\ journal' = [journal EXCEPT ![c] = "acc_conn"]
    /\ get' = [get EXCEPT ![g] = reading(c, m, path(db[m]), Nil)]
    /\ UNCHANGED <<server, store, md5, disk, db, logs, answer, raced>>

counted(conn) == [conn EXCEPT !.count = @ + 1]

failed(status) == [status |-> status, content |-> {}]

\* A TypeError where the media is no longer listed, once the access was logged.
Find(g, c) ==
    LET conn == storageId[c]
    IN  /\ server = "up"
        /\ get[g] = Nil
        /\ conn # Nil
        /\ storageId' = [storageId EXCEPT ![c] = counted(@)]
        /\ journal' = [journal EXCEPT ![c] = "acc_conn"]
        /\ get' = [get EXCEPT ![g] = reading(c, conn.ref, conn.source, Nil)]
        /\ answer' = IF db[conn.ref] # Nil THEN answer
                     ELSE [answer EXCEPT ![g] = failed("error")]
        /\ UNCHANGED <<server, store, md5, disk, db, logs, timer, due, raced>>

\* A read is under way.
isReading(g) == server # "down" /\ get[g] # Nil /\ answer[g] = Nil

\* readFile opens the file: it goes on reading it wherever a rename or a removal puts
\* it.  Where somebody writes it, what is read may be cut.
ReadOpens(g) ==
    LET f == file[get[g].path]
        isWritten == \E p \in Posts : post[p] = "writing" /\ file[path(p)] = f
    IN  /\ isReading(g) /\ get[g].file = Nil
        /\ f # Nil
        /\ get' = [get EXCEPT ![g].file = f,
                              ![g].seen = {data[f]} \cup (IF isWritten THEN {{}} ELSE {})]
        /\ UNCHANGED <<server, store, md5, disk, db, logs, conns, answer, raced>>

\* Faulty: a file that is missing is served.
ReadFails_served(g) ==
    /\ isReading(g) /\ get[g].file = Nil
    /\ file[get[g].path] = Nil
    /\ answer' = [answer EXCEPT ![g] = [status |-> "ok", content |-> {Nil}]]
    /\ UNCHANGED <<server, store, md5, disk, db, logs, conns, get, raced>>

ReadFails(g) ==
    /\ isReading(g) /\ get[g].file = Nil
    /\ file[get[g].path] = Nil
    /\ answer' = [answer EXCEPT ![g] = failed("notFound")]
    /\ UNCHANGED <<server, store, md5, disk, db, logs, conns, get, raced>>

\* What was read is answered, and the file is closed.
found(g, content) ==
    /\ content \in get[g].seen
    /\ answer' = [answer EXCEPT ![g] = [status |-> "ok", content |-> content]]
    /\ get' = [get EXCEPT ![g].file = Nil, ![g].seen = {}]

\* The callback of getFile.
Served(g) ==
    /\ isReading(g) /\ get[g].conn # Nil
    /\ \E content \in get[g].seen : found(g, content)
    /\ UNCHANGED <<server, store, md5, disk, db, logs, conns, raced>>

\* Faulty: the timer is armed for the connectors that are read only.
TimerFires_read(c) ==
    /\ server # "down"
    /\ c \in timer
    /\ storageId[c] # Nil /\ storageId[c].count > 0
    /\ timer' = timer \ {c}
    /\ storageId' = [storageId EXCEPT ![c] = Nil]
    /\ journal' = [journal EXCEPT ![c] = "del_conn"]
    /\ UNCHANGED <<server, store, md5, disk, db, logs, due, reads, raced>>

\* deleleteFileId.
TimerFires(c) ==
    /\ server # "down"
    /\ c \in timer
    /\ timer' = timer \ {c}
    /\ storageId' = [storageId EXCEPT ![c] = Nil]
    /\ journal' = [journal EXCEPT ![c] = "del_conn"]
    /\ UNCHANGED <<server, store, md5, disk, db, logs, due, reads, raced>>

-----------------------------------------------------------------------------
(* Checking a media: check, getRealMd5 *)

Check(g, m) ==
    /\ server = "up"
    /\ get[g] = Nil
    /\ db[m] # Nil
    /\ get' = [get EXCEPT ![g] = reading(Nil, m, path(db[m]), db[m])]
    /\ UNCHANGED <<server, store, md5, disk, db, logs, conns, answer, raced>>

\* Faulty: the hash is given to the entry that is listed now.
corrected_listed(g, hash) ==
    LET p == db[get[g].media]
    IN  IF p = Nil THEN md5 ELSE [md5 EXCEPT ![p] = hash]

\* The entry that was listed when the check was received gets the hash.
corrected(g, hash) == [md5 EXCEPT ![get[g].entry] = hash]

\* The callback of getRealMd5.
Checked(g) ==
    /\ isReading(g) /\ get[g].conn = Nil
    /\ \E content \in get[g].seen : found(g, content) /\ md5' = corrected(g, content)
    /\ UNCHANGED <<server, store, disk, db, logs, conns, raced>>

-----------------------------------------------------------------------------
(* Stopping: SignalCleaner, HttpService.close, BasicFileDB.close *)

Interrupt ==
    /\ "stop" \in Faults
    /\ server = "up"
    /\ server' = "closing"
    /\ UNCHANGED <<store, md5, disk, db, logs, conns, reads, raced>>

\* Once the requests were answered, the connectors are removed; what would log it
\* throws, for it is given no context.
Close ==
    /\ server = "closing"
    /\ \A g \in Gets : get[g] # Nil => answer[g] # Nil
    /\ \A p \in Posts : {post[p], drop[p]} \subseteq Over
    /\ server' = "down"
    /\ storageId' = [c \in Conns |-> Nil]
    /\ timer' = {}
    /\ UNCHANGED <<store, md5, disk, db, logs, journal, due, reads, raced>>

-----------------------------------------------------------------------------

\* The lines of the CSV file were read: a media may have several (one that was committed,
\* then posted), the zone has the last.  A file may be lost, and a hash may be that of
\* what was appended last, or be older than its correction.
Init ==
    /\ server = "up"
    /\ \E lines \in SUBSET Posts, m \in [Posts -> Media], n \in [Posts -> FileNames] :
         /\ file \in [Path -> lines \cup {Nil}]
         /\ \A s \in Path : file[s] # Nil => s = <<m[file[s]], n[file[s]]>>
         /\ entry = [p \in Posts |->
                        IF p \notin lines THEN Nil
                        ELSE [media |-> m[p], name |-> n[p],
                              kind |-> IF file[<<m[p], n[p]>>] = Nil THEN "lost" ELSE "line"]]
         /\ data = [f \in Posts |-> IF f \in lines THEN {f} ELSE {}]
    /\ zoneDb \in [Keys -> Posts \cup {Nil}]
    /\ \A k \in Keys : zoneDb[k] = Nil <=> (k \notin Media \/ EntriesOf(k) = {})
    /\ \A k \in Keys : zoneDb[k] # Nil => zoneDb[k] \in EntriesOf(k)
    /\ md5 = [p \in Posts |-> Nil]
    /\ load = [p \in Posts |-> IF entry[p] # Nil THEN "logging" ELSE "none"]
    /\ db = [m \in Media |-> Nil]
    /\ post = [p \in Posts |-> "none"]
    /\ drop = [p \in Posts |-> "none"]
    /\ storageId = [c \in Conns |-> Nil]
    /\ timer = {}
    /\ journal = [c \in Conns |-> "none"]
    /\ get = [g \in Gets |-> Nil]
    /\ answer = [g \in Gets |-> Nil]
    /\ age = [p \in Posts |-> 0]
    /\ due = [c \in Conns |-> {}]
    /\ raced = {}

Clients ==
    \/ \E p \in Posts, m \in Media, n \in FileNames :
         Commit(p, m, n) \/ \E kind \in {"write", "append"} : Post(p, m, n, kind)
    \/ \E m \in Media : Delete(m)
    \/ \E c \in Conns, m \in Media : Open(c, m) \/ \E g \in Gets : Direct(g, c, m)
    \/ \E g \in Gets : (\E c \in Conns : Find(g, c)) \/ (\E m \in Media : Check(g, m))

Callbacks ==
    \/ \E p \in Posts :
         \/ LoadLogs(p) \/ PostWritten(p) \/ PostSaved(p) \/ PostFails(p) \/ DeleteSaved(p) \/ DeleteFails(p)
    \/ \E g \in Gets : ReadOpens(g) \/ ReadFails(g) \/ Served(g) \/ Checked(g)

Timers == \E c \in Conns : TimerFires(c)

Next == Clients \/ Callbacks \/ Timers \/ Interrupt \/ Close

Spec == Init /\ [][Next]_vars

\* A timer that is armed fires.
FairSpec == Spec /\ \A c \in Conns : WF_vars(TimerFires(c))

-----------------------------------------------------------------------------
(* Properties *)

TypeOK ==
    /\ server \in {"up", "closing", "down"}
    /\ entry \in [Posts -> Entry \cup {Nil}] /\ md5 \in [Posts -> Content \cup {Nil}]
    /\ zoneDb \in [Keys -> Posts \cup {Nil}] /\ db \in [Media -> Posts \cup {Nil}]
    /\ file \in [Path -> Posts \cup {Nil}] /\ data \in [Posts -> Content]
    /\ load \in [Posts -> {"none", "logging", "done"}]
    /\ post \in [Posts -> {"none", "writing", "saving", "failed", "done"}]
    /\ drop \in [Posts -> {"none", "saving", "hung", "failed", "done"}]
    /\ storageId \in [Conns -> Connector \cup {Nil}]
    /\ timer \in SUBSET Conns
    /\ journal \in [Conns -> {"none", "new_conn", "acc_conn", "del_conn"}]
    /\ get \in [Gets -> Get \cup {Nil}]
    /\ answer \in [Gets -> Answer \cup {Nil}]
    /\ age \in [Posts -> Nat]
    /\ due \in [Conns -> SUBSET Posts]
    /\ raced \in SUBSET Media

\* A connector gives whole contents of its media, cut ones only where a post that did not
\* go through staging may have written the file while it was read.  They are no older than
\* what was listed when it was opened, although it keeps the path of then, unless the
\* database listed the media before the lines of the CSV file were recorded.
ServedCurrent ==
    \A g \in Gets :
        answer[g] # Nil /\ answer[g].status = "ok" /\ get[g].conn # Nil =>
            LET content == answer[g].content
                m       == get[g].media
            IN  /\ content \subseteq EntriesOf(m)
                /\ content = {} =>
                      \E p \in EntriesOf(m) :
                          path(p) = get[g].path /\ entry[p].kind \in {"write", "append"}
                /\ content # {} /\ m \notin raced =>
                      \A p \in due[get[g].conn] : \E x \in content : age[x] >= age[p]

\* A connector or a check fails only where the media was deleted, or had lost its file
\* before the start: replacing a media, even under another name, leaves what was opened
\* before readable.
FailsIfDeleted ==
    \A g \in Gets :
        answer[g] # Nil /\ answer[g].status \in {"notFound", "error"} =>
            \E p \in EntriesOf(get[g].media) : drop[p] # "none" \/ entry[p].kind = "lost"

\* A save of the CSV file that an operation on this entry, or on a later one of its
\* media, waited for failed, or was never made.
isUnsaved(e) ==
    \E p \in EntriesOf(entry[e].media) :
        age[p] >= age[e] /\ (post[p] = "failed" \/ drop[p] \in {"failed", "hung"})

\* A line of the CSV file, where the media has another: their recordings race.
isDoubled(e) ==
    load[e] # "none" /\ \E p \in EntriesOf(entry[e].media) \ {e} : load[p] # "none"

\* When nobody changes a media, the hash of the entry that is listed is that of its
\* file, whatever checks were answered while it was replaced: unless a line of the CSV
\* file gave it, or it is that of what was appended, and no check corrected it; and
\* unless a failed save left the entry of an older content listed.
Md5Right ==
    \A m \in Media :
        LET e == db[m] IN
        isIdle(m) /\ e # Nil /\ file[path(e)] # Nil =>
            \/ md5[e] = data[file[path(e)]]
            \/ md5[e] = Nil
            \/ entry[e].kind = "append" /\ md5[e] = {e}
            \/ isUnsaved(e)

\* When nobody changes a media, what the database serves is what the zone lists last,
\* but for an operation whose save failed or was never made, and for the race between
\* two lines of the CSV file; where it serves nothing, the zone has nothing more under
\* the uuid.
ListedIsZone ==
    \A m \in Media :
        LET e == db[m] IN
        isIdle(m) /\ ~isLoading(m) /\ m \notin raced =>
            /\ e = Nil => zoneDb[m] = Nil \/ post[zoneDb[m]] = "failed"
            /\ e # Nil =>
                  /\ (\E k \in Keys : zoneDb[k] = e) \/ isUnsaved(e) \/ isDoubled(e)
                  /\ \A k \in Keys :
                        zoneDb[k] \in EntriesOf(m) /\ age[zoneDb[k]] > age[e] =>
                            post[zoneDb[k]] = "failed"

\* A connector that was opened is removed, and its removal logged, unless the process
\* is interrupted.
ConnectorsClose ==
    \A c \in Conns : journal[c] # "none" ~> (journal[c] = "del_conn" \/ server = "down")
=============================================================================
