------------------------ MODULE MediaConnectorsProofs ------------------------
(***************************************************************************)
(* Proofs about MediaConnectors, for any posts, connectors, requests,      *)
(* medias and names of files, under any faults.                            *)
(***************************************************************************)
EXTENDS MediaConnectors, FiniteSetTheorems, TLAPS

(***************************************************************************)
(* The inductive invariant.                                                *)
(***************************************************************************)

isBusy(p) == post[p] \notin Over \/ drop[p] \notin Over

\* The media was deleted, or had lost a file before the start.
isGone(m) == \E p \in EntriesOf(m) : drop[p] # "none" \/ entry[p].kind = "lost"

\* The database listed the entry.
wasListed(p) == entry[p] # Nil /\ (load[p] = "done" \/ post[p] = "done")

\* A post may have written the file of this path in place.
inPlace(s) == \E p \in Posts : entry[p] # Nil /\ path(p) = s /\ entry[p].kind \in {"write", "append"}

\* A content made of entries of a path, cut only where it may be.
isOf(content, s) ==
    /\ \A x \in content : entry[x] # Nil /\ path(x) = s
    /\ content = {} => inPlace(s)

\* Entries, their hashes, and what the zone and the database have of them.
EntryOK(p) ==
    /\ entry[p] = Nil => load[p] = "none" /\ post[p] = "none" /\ drop[p] = "none" /\ data[p] = {}
    /\ entry[p] # Nil =>
          /\ age[p] < written
          /\ load[p] # "none" <=> post[p] = "none"
          /\ load[p] # "none" => age[p] = 0
          /\ load[p] = "logging" => md5[p] = Nil
          /\ post[p] = "writing" =>
                /\ entry[p].kind \in {"write", "append"} /\ md5[p] = {p}
                /\ file[path(p)] # Nil /\ drop[p] = "none"
          /\ post[p] = "saving" =>
                /\ md5[p] = {p}
                /\ zoneDb[entry[p].media] = p \/ zoneDb[p] = p
                /\ \/ entry[p].kind = "append"
                   \/ file[path(p)] = Nil
                   \/ data[file[path(p)]] = {p}
          /\ drop[p] = "saving" => zoneDb[entry[p].media] = Nil

EntriesOK == \A p \in Posts : EntryOK(p)

ZoneOK ==
    /\ \A m \in Media : zoneDb[m] # Nil => zoneDb[m] \in EntriesOf(m) /\ drop[zoneDb[m]] = "none"
    /\ \A p \in Posts : zoneDb[p] # Nil => zoneDb[p] = p
    /\ \A k \in Keys : zoneDb[k] # Nil => entry[zoneDb[k]] # Nil /\ post[zoneDb[k]] # "writing"
    /\ \A m \in Media : db[m] # Nil => db[m] \in EntriesOf(m) /\ wasListed(db[m])

\* Requests that change a media wait for each other; a post is the newest of its media.
BusyOK ==
    \A p, q \in Posts :
        entry[p] # Nil /\ entry[q] # Nil /\ entry[p].media = entry[q].media =>
            /\ isBusy(p) /\ isBusy(q) => p = q
            /\ post[p] \in Over \/ drop[p] \in Over
            /\ post[p] \notin Over => age[q] <= age[p]

\* A file that has a name holds contents of that name, no older than any entry of it.
NamedOK(s) ==
    file[s] # Nil => entry[file[s]] # Nil /\ path(file[s]) = s /\ isOf(data[file[s]], s)

PostedOK(p) ==
    entry[p] # Nil /\ post[p] # "writing" =>
        /\ file[path(p)] = Nil => isGone(entry[p].media)
        /\ file[path(p)] # Nil =>
              \/ data[file[path(p)]] = {}
              \/ \E x \in data[file[path(p)]] : age[p] <= age[x]

FilesOK == (\A s \in Path : NamedOK(s)) /\ (\A p \in Posts : PostedOK(p))

ListedAt(m) ==
    /\ isLoading(m) => Listed(m) = {}
    /\ db[m] # Nil => \A p \in Listed(m) : age[p] <= age[db[m]]
    /\ db[m] = Nil /\ ~isLoading(m) =>
          zoneDb[m] = Nil \/ post[zoneDb[m]] \in {"failed", "saving"}
    /\ \A p \in EntriesOf(m) : p = db[m] \/ load[p] = "logging" =>
          \/ \E k \in Keys : zoneDb[k] = p
          \/ isUnsaved(p)
          \/ isDoubled(p)
          \/ zoneDb[m] # Nil /\ post[zoneDb[m]] = "saving"
          \/ drop[p] = "saving"

ListedOK == \A m \in Media : m \notin raced => ListedAt(m)

\* A path that was listed, and is that of an entry no older than what is due.
isPath(s) == \E p \in Posts : wasListed(p) /\ path(p) = s
isCurrent(c, s) == \E p \in Posts : wasListed(p) /\ path(p) = s /\ \A q \in due[c] : age[q] <= age[p]

ConnOK(c) ==
    /\ \A q \in due[c] : entry[q] # Nil
    /\ storageId[c] # Nil =>
          LET s == storageId[c].source
          IN  /\ journal[c] # "none"
              /\ storageId[c].ref = s[1] /\ isPath(s)
              /\ s[1] \notin raced => isCurrent(c, s)
              /\ db[s[1]] # Nil \/ isGone(s[1])

GetOK(g) ==
    get[g] # Nil =>
        LET s == get[g].path
            c == get[g].conn
            e == get[g].entry
        IN  /\ get[g].media = s[1] /\ isPath(s)
            /\ c # Nil => journal[c] # "none" /\ (s[1] \notin raced => isCurrent(c, s))
            /\ c = Nil => e # Nil /\ wasListed(e) /\ path(e) = s
            /\ get[g].file = Nil => get[g].seen = {}
            /\ get[g].file # Nil => entry[get[g].file] # Nil /\ path(get[g].file) = s
            /\ \A content \in get[g].seen :
                  /\ isOf(content, s)
                  /\ content # {} /\ c # Nil /\ s[1] \notin raced =>
                        \A q \in due[c] : \E x \in content : age[q] <= age[x]

ConnsOK == (\A c \in Conns : ConnOK(c)) /\ (\A g \in Gets : GetOK(g))

AnswerOK(g) ==
    answer[g] # Nil =>
        LET s == get[g].path
            c == get[g].conn
        IN  /\ get[g] # Nil
            /\ answer[g].status \in {"notFound", "error"} => isGone(s[1])
            /\ answer[g].status = "ok" =>
                  /\ isOf(answer[g].content, s)
                  /\ answer[g].content # {} /\ c # Nil /\ s[1] \notin raced =>
                        \A q \in due[c] : \E x \in answer[g].content : age[q] <= age[x]

AnswersOK == \A g \in Gets : AnswerOK(g)

\* No post of the media is under way.
isStill(m) == \A p \in EntriesOf(m) : post[p] \in Over

\* The hash of what is listed, and what a check of it may find.
HashOK(m) ==
    LET e == db[m]
        f == file[path(e)]
    IN  e # Nil /\ isStill(m) /\ ~isUnsaved(e) /\ f # Nil =>
          /\ md5[e] = data[f] \/ md5[e] = Nil \/ (entry[e].kind = "append" /\ md5[e] = {e})
          /\ \A g \in Gets :
                get[g] # Nil /\ answer[g] = Nil /\ get[g].conn = Nil /\ get[g].entry = e
                /\ get[g].file # Nil =>
                    get[g].file = f /\ get[g].seen = {data[f]}

HashesOK == \A m \in Media : HashOK(m)

IInv ==
    /\ TypeOK /\ EntriesOK /\ ZoneOK /\ BusyOK /\ FilesOK
    /\ ListedOK /\ ConnsOK /\ AnswersOK /\ HashesOK

(***************************************************************************)
(* Data.                                                                   *)
(***************************************************************************)

\* Nil is none of what it stands for the absence of; a media is no post.
LEMMA NoNil ==
    /\ Nil \notin Posts /\ Nil \notin Conns /\ Nil \notin Gets /\ Nil \notin Media
    /\ Nil \notin Entry /\ Nil \notin Connector /\ Nil \notin Get /\ Nil \notin Answer
    /\ Posts \cap Media = {}
BY ConstantsAssumption, NilAssumption

\* The path of an entry names its media.
LEMMA Paths ==
    ASSUME TypeOK, NEW p \in Posts, entry[p] # Nil
    PROVE  /\ entry[p] \in Entry /\ entry[p].media \in Media /\ entry[p].name \in FileNames
           /\ entry[p].kind \in Kind
           /\ path(p) = <<entry[p].media, entry[p].name>>
           /\ path(p) \in Path /\ path(p)[1] = entry[p].media
<1>1. entry[p] \in Entry
  BY DEF TypeOK
<1>2. entry[p].media \in Media /\ entry[p].name \in FileNames /\ entry[p].kind \in Kind
  BY <1>1 DEF Entry
<1> QED
  BY <1>1, <1>2 DEF path, Path

LEMMA Counting ==
    ASSUME NEW conn \in Connector
    PROVE  /\ counted(conn) \in Connector
           /\ counted(conn).ref = conn.ref /\ counted(conn).source = conn.source
<1>1. conn = [ref |-> conn.ref, source |-> conn.source, count |-> conn.count]
      /\ conn.ref \in Media /\ conn.source \in Path /\ conn.count \in Nat
  BY DEF Connector
<1>2. counted(conn) = [ref |-> conn.ref, source |-> conn.source, count |-> conn.count + 1]
  BY <1>1 DEF counted
<1> QED
  BY <1>1, <1>2 DEF Connector

\* Those who read a file may find one content more.
LEMMA Seeing ==
    ASSUME TypeOK, NEW f \in Posts, NEW content \in Content
    PROVE  /\ readersSee(f, content) \in [Gets -> Get \cup {Nil}]
           /\ \A g \in Gets :
                 LET new == readersSee(f, content)[g] IN
                 /\ new = Nil <=> get[g] = Nil
                 /\ get[g] # Nil =>
                       /\ new.conn = get[g].conn /\ new.media = get[g].media
                       /\ new.path = get[g].path /\ new.entry = get[g].entry
                       /\ new.file = get[g].file
                       /\ new.seen = IF answer[g] = Nil /\ get[g].file = f
                                        THEN get[g].seen \cup {content} ELSE get[g].seen
<1> SUFFICES ASSUME NEW g \in Gets
             PROVE  LET new == readersSee(f, content)[g] IN
                    /\ new \in Get \cup {Nil}
                    /\ new = Nil <=> get[g] = Nil
                    /\ get[g] # Nil =>
                       /\ new.conn = get[g].conn /\ new.media = get[g].media
                       /\ new.path = get[g].path /\ new.entry = get[g].entry
                       /\ new.file = get[g].file
                       /\ new.seen = IF answer[g] = Nil /\ get[g].file = f
                                        THEN get[g].seen \cup {content} ELSE get[g].seen
  BY DEF readersSee
<1> DEFINE r == get[g]
           seen == [r EXCEPT !.seen = @ \cup {content}]
           new == readersSee(f, content)[g]
<1>1. new = IF r # Nil /\ answer[g] = Nil /\ r.file = f THEN seen ELSE r
  BY DEF readersSee
<1>2. CASE r = Nil
  BY <1>1, <1>2
<1>3. CASE r # Nil
  <2>1. r \in Get
    BY <1>3 DEF TypeOK
  <2>2. seen = [conn |-> r.conn, media |-> r.media, path |-> r.path, entry |-> r.entry,
                file |-> r.file, seen |-> r.seen \cup {content}]
        /\ r.seen \cup {content} \in SUBSET Content
    BY <2>1 DEF Get
  <2>3. seen \in Get
    BY <2>1, <2>2 DEF Get
  <2> HIDE DEF seen
  <2>4. seen.conn = r.conn /\ seen.media = r.media /\ seen.path = r.path /\ seen.entry = r.entry
        /\ seen.file = r.file /\ seen.seen = r.seen \cup {content}
    BY <2>2
  <2> QED
    BY <1>1, <1>3, <2>1, <2>3, <2>4, NoNil
<1> QED
  BY <1>2, <1>3

LEMMA Seen ==
    ASSUME TypeOK, NEW f \in Posts, NEW content \in Content, get' = readersSee(f, content)
    PROVE  \A g \in Gets :
                 /\ get'[g] = Nil <=> get[g] = Nil
                 /\ get[g] # Nil =>
                       /\ get'[g].conn = get[g].conn /\ get'[g].media = get[g].media
                       /\ get'[g].path = get[g].path /\ get'[g].entry = get[g].entry
                       /\ get'[g].file = get[g].file
                       /\ get'[g].seen = IF answer[g] = Nil /\ get[g].file = f
                                            THEN get[g].seen \cup {content} ELSE get[g].seen
<1>1. \A g \in Gets :
         LET new == readersSee(f, content)[g] IN
                 /\ new = Nil <=> get[g] = Nil
                 /\ get[g] # Nil =>
                       /\ new.conn = get[g].conn /\ new.media = get[g].media
                       /\ new.path = get[g].path /\ new.entry = get[g].entry
                       /\ new.file = get[g].file
                       /\ new.seen = IF answer[g] = Nil /\ get[g].file = f
                                        THEN get[g].seen \cup {content} ELSE get[g].seen
  BY Seeing
<1> QED
  BY <1>1

\* The entries are counted.
LEMMA Written ==
    ASSUME TypeOK
    PROVE  /\ written \in Nat
           /\ \A q \in Posts : entry[q] = Nil
                 /\ (\A p \in Posts : entry'[p] = Nil <=> p # q /\ entry[p] = Nil)
                 => written' = written + 1
           /\ (\A p \in Posts : entry'[p] = Nil <=> entry[p] = Nil) => written' = written
<1> DEFINE W == {p \in Posts : entry[p] # Nil}
<1>1. IsFiniteSet(W)
  BY ConstantsAssumption, FS_Subset
<1>2. written \in Nat
  BY <1>1, FS_CardinalityType DEF written
<1>3. ASSUME NEW q \in Posts, entry[q] = Nil,
             \A p \in Posts : entry'[p] = Nil <=> p # q /\ entry[p] = Nil
      PROVE  written' = written + 1
  <2>1. {p \in Posts : entry'[p] # Nil} = W \cup {q} /\ q \notin W
    BY <1>3
  <2> QED
    BY <2>1, <1>1, FS_AddElement DEF written
<1>4. ASSUME \A p \in Posts : entry'[p] = Nil <=> entry[p] = Nil PROVE written' = written
  <2>1. {p \in Posts : entry'[p] # Nil} = W
    BY <1>4
  <2> QED
    BY <2>1 DEF written
<1> QED
  BY <1>2, <1>3, <1>4

(***************************************************************************)
(* What the steps that change a media do.                                  *)
(***************************************************************************)

\* A new entry.
Made(p, m, n, kind, step) ==
    /\ entry[p] = Nil /\ isIdle(m) /\ isServed(m)
    /\ entry'[p] # Nil /\ entry'[p].media = m /\ entry'[p].name = n /\ entry'[p].kind = kind
    /\ path(p)' = <<m, n>> /\ <<m, n>> \in Path
    /\ md5'[p] = {p} /\ age'[p] = written /\ post'[p] = step
    /\ \A q \in Posts \ {p} :
          entry'[q] = entry[q] /\ md5'[q] = md5[q] /\ age'[q] = age[q] /\ post'[q] = post[q]
    /\ written' = written + 1 /\ written \in Nat

\* The file that a write opens is there, or the post creates it.
Opened(p, m, n, kind, f) ==
    /\ f \in Posts /\ f = IF file[<<m, n>>] = Nil THEN p ELSE file[<<m, n>>]
    /\ file'[<<m, n>>] = f /\ \A s \in Path : s # <<m, n>> => file'[s] = file[s]
    /\ data'[f] = IF kind = "append" THEN data[f] ELSE {}
    /\ \A x \in Posts \ {f} : data'[x] = data[x]
    /\ get' = readersSee(f, {})
    /\ UNCHANGED <<server, zoneDb, db, load, drop, conns, answer, raced>>

\* It is written, and recorded in the zone.
Recorded(p, m, f, content) ==
    /\ p \in EntriesOf(m) /\ post[p] = "writing" /\ post'[p] = "saving" /\ m = entry[p].media
    /\ f \in Posts /\ f = file[path(p)] /\ content \in Content
    /\ content = IF entry[p].kind = "append" THEN data[f] \cup {p} ELSE {p}
    /\ data'[f] = content /\ \A x \in Posts \ {f} : data'[x] = data[x]
    /\ zoneDb'[m] = p /\ \A k \in Keys \ {m} : zoneDb'[k] = zoneDb[k]
    /\ \A q \in Posts \ {p} : post'[q] = post[q]
    /\ get' = readersSee(f, content)
    /\ UNCHANGED <<server, entry, md5, age, file, db, load, drop, conns, answer, raced>>

Renamed(p, m, n) ==
    /\ file'[<<m, n>>] = p /\ \A s \in Path : s # <<m, n>> => file'[s] = file[s]
    /\ data'[p] = {p} /\ \A x \in Posts \ {p} : data'[x] = data[x]
    /\ zoneDb'[p] = p /\ \A k \in Keys \ {p} : zoneDb'[k] = zoneDb[k]
    /\ UNCHANGED <<server, db, load, drop, conns, reads, raced>>

\* A media is listed, or is no longer.
ListedFor(m, e) ==
    /\ db'[m] = e /\ \A o \in Media \ {m} : db'[o] = db[o]
    /\ raced \subseteq raced' /\ raced' \subseteq raced \cup {m} /\ (isLoading(m) => m \in raced')

Removed(m, z) ==
    /\ isIdle(m) /\ isServed(m) /\ db[m] # Nil /\ z \in Posts /\ z = zoneDb[m]
    /\ zoneDb'[m] = Nil /\ \A k \in Keys \ {m} : zoneDb'[k] = zoneDb[k]
    /\ file'[path(z)] = Nil /\ \A s \in Path : s # path(z) => file'[s] = file[s]
    /\ drop'[z] \in {"saving", "hung"} /\ \A q \in Posts \ {z} : drop'[q] = drop[q]
    /\ UNCHANGED <<server, entry, md5, age, data, db, load, post, conns, reads, raced>>

LEMMA Making ==
    ASSUME TypeOK, NEW p \in Posts, NEW m \in Media, NEW n \in FileNames, NEW kind \in Kind,
           NEW step \in {"writing", "saving"}, makes(p, m, n, kind, step)
    PROVE  /\ Made(p, m, n, kind, step)
           /\ entry' \in [Posts -> Entry \cup {Nil}] /\ md5' \in [Posts -> Content \cup {Nil}]
           /\ age' \in [Posts -> Nat]
           /\ post' \in [Posts -> {"none", "writing", "saving", "failed", "done"}]
<1> DEFINE new == [media |-> m, name |-> n, kind |-> kind]
<1>1. new \in Entry /\ <<m, n>> \in Path /\ {p} \in Content
  BY DEF Entry, Path, Content
<1>2. /\ entry[p] = Nil /\ isIdle(m) /\ isServed(m)
      /\ entry' = [entry EXCEPT ![p] = new]
      /\ md5' = [md5 EXCEPT ![p] = {p}]
      /\ age' = [age EXCEPT ![p] = written]
      /\ post' = [post EXCEPT ![p] = step]
  BY DEF makes
<1>3. written \in Nat
  BY Written
<1>4. entry'[p] = new /\ new # Nil /\ new.media = m /\ new.name = n /\ new.kind = kind
  BY <1>1, <1>2, NoNil DEF TypeOK
<1>5. path(p)' = <<m, n>>
  BY <1>4 DEF path
<1> HIDE DEF new
<1>6. /\ entry' \in [Posts -> Entry \cup {Nil}] /\ md5' \in [Posts -> Content \cup {Nil}]
      /\ age' \in [Posts -> Nat]
      /\ post' \in [Posts -> {"none", "writing", "saving", "failed", "done"}]
  BY <1>1, <1>2, <1>3 DEF TypeOK
<1>7. /\ md5'[p] = {p} /\ age'[p] = written /\ post'[p] = step
      /\ \A q \in Posts \ {p} :
            entry'[q] = entry[q] /\ md5'[q] = md5[q] /\ age'[q] = age[q] /\ post'[q] = post[q]
  BY <1>2 DEF TypeOK
<1>8. written' = written + 1
  BY <1>2, <1>4, <1>7, Written
<1> QED
  BY <1>1, <1>2, <1>3, <1>4, <1>5, <1>6, <1>7, <1>8 DEF Made

LEMMA Posting ==
    ASSUME TypeOK, NEW p \in Posts, NEW m \in Media, NEW n \in FileNames,
           NEW kind \in {"write", "append"}, Post(p, m, n, kind)
    PROVE  /\ Made(p, m, n, kind, "writing")
           /\ \E f \in Posts : Opened(p, m, n, kind, f)
           /\ TypeOK'
<1>1. kind \in Kind
  BY DEF Kind
<1>2. makes(p, m, n, kind, "writing")
  BY DEF Post
<1>3. PICK f : f = IF file[<<m, n>>] = Nil THEN p ELSE file[<<m, n>>]
  OBVIOUS
<1>4. <<m, n>> \in Path /\ f \in Posts
  BY <1>3 DEF Path, TypeOK
<1>5. /\ file' = [file EXCEPT ![<<m, n>>] = f]
      /\ data' = [data EXCEPT ![f] = IF kind = "append" THEN data[f] ELSE {}]
      /\ get' = readersSee(f, {})
      /\ UNCHANGED <<server, zoneDb, db, load, drop, conns, answer, raced>>
  BY <1>3 DEF Post
<1>6. {} \in Content /\ data[f] \in Content
  BY <1>4 DEF Content, TypeOK
<1>7. Made(p, m, n, kind, "writing")
      /\ entry' \in [Posts -> Entry \cup {Nil}] /\ md5' \in [Posts -> Content \cup {Nil}]
      /\ age' \in [Posts -> Nat]
      /\ post' \in [Posts -> {"none", "writing", "saving", "failed", "done"}]
  BY <1>1, <1>2, Making
<1>8. get' \in [Gets -> Get \cup {Nil}]
  BY <1>4, <1>5, <1>6, Seeing
<1>9. file' \in [Path -> Posts \cup {Nil}] /\ data' \in [Posts -> Content]
  BY <1>4, <1>5, <1>6 DEF TypeOK
<1>10. Opened(p, m, n, kind, f)
  BY <1>3, <1>4, <1>5, <1>6 DEF Opened, TypeOK
<1>11. TypeOK'
  BY <1>5, <1>7, <1>8, <1>9 DEF TypeOK, conns
<1> QED
  BY <1>4, <1>7, <1>10, <1>11

LEMMA Recording ==
    ASSUME TypeOK, EntriesOK, NEW p \in Posts, PostWritten(p)
    PROVE  /\ \E m \in Media, f \in Posts, content \in Content : Recorded(p, m, f, content)
           /\ TypeOK'
<1>1. post[p] = "writing" /\ entry[p] # Nil /\ file[path(p)] # Nil
  BY DEF PostWritten, EntriesOK, EntryOK
<1>2. PICK f : f = file[path(p)]
  OBVIOUS
<1>3. PICK m : m = entry[p].media
  OBVIOUS
<1>4. f \in Posts /\ m \in Media /\ p \in EntriesOf(m) /\ p \in Keys /\ m \in Keys
  BY <1>1, <1>2, <1>3, Paths DEF TypeOK, EntriesOf, Keys
<1>5. PICK content : content = IF entry[p].kind = "append" THEN data[f] \cup {p} ELSE {p}
  OBVIOUS
<1>6. content \in Content
  BY <1>4, <1>5 DEF Content, TypeOK
<1>7. /\ data' = [data EXCEPT ![f] = content]
      /\ get' = readersSee(f, content)
      /\ zoneDb' = [zoneDb EXCEPT ![m] = p]
      /\ post' = [post EXCEPT ![p] = "saving"]
      /\ UNCHANGED <<server, entry, md5, age, file, db, load, drop, conns, answer, raced>>
  BY <1>2, <1>3, <1>5 DEF PostWritten
<1>8. get' \in [Gets -> Get \cup {Nil}]
  BY <1>4, <1>6, <1>7, Seeing
<1>9. Recorded(p, m, f, content)
  BY <1>1, <1>2, <1>3, <1>4, <1>5, <1>6, <1>7 DEF Recorded, TypeOK
<1>10. TypeOK'
  BY <1>4, <1>6, <1>7, <1>8 DEF TypeOK, conns
<1> QED
  BY <1>4, <1>6, <1>9, <1>10

LEMMA Committing ==
    ASSUME TypeOK, NEW p \in Posts, NEW m \in Media, NEW n \in FileNames, Commit(p, m, n)
    PROVE  Made(p, m, n, "commit", "saving") /\ Renamed(p, m, n) /\ TypeOK'
<1>1. "commit" \in Kind /\ <<m, n>> \in Path /\ p \in Keys /\ {p} \in Content
  BY DEF Kind, Path, Keys, Content
<1>2. makes(p, m, n, "commit", "saving")
  BY DEF Commit
<1>3. Made(p, m, n, "commit", "saving")
      /\ entry' \in [Posts -> Entry \cup {Nil}] /\ md5' \in [Posts -> Content \cup {Nil}]
      /\ age' \in [Posts -> Nat]
      /\ post' \in [Posts -> {"none", "writing", "saving", "failed", "done"}]
  BY <1>1, <1>2, Making
<1>4. /\ file' = [file EXCEPT ![<<m, n>>] = p]
      /\ data' = [data EXCEPT ![p] = {p}]
      /\ zoneDb' = [zoneDb EXCEPT ![p] = p]
      /\ UNCHANGED <<server, db, load, drop, conns, reads, raced>>
  BY DEF Commit
<1>5. Renamed(p, m, n)
  BY <1>1, <1>4 DEF Renamed, TypeOK
<1>6. TypeOK'
  BY <1>1, <1>3, <1>4 DEF TypeOK, conns, reads
<1> QED
  BY <1>3, <1>5, <1>6

LEMMA Listing ==
    ASSUME TypeOK, NEW m \in Media, NEW e \in Posts \cup {Nil}, lists(m, e)
    PROVE  /\ ListedFor(m, e)
           /\ db' \in [Media -> Posts \cup {Nil}] /\ raced' \in SUBSET Media
BY DEF lists, ListedFor, TypeOK

LEMMA PostSaving ==
    ASSUME TypeOK, EntriesOK, NEW p \in Posts, PostSaved(p)
    PROVE  /\ \E m \in Media : p \in EntriesOf(m) /\ m = entry[p].media /\ ListedFor(m, p)
           /\ post[p] = "saving" /\ post'[p] = "done" /\ \A q \in Posts \ {p} : post'[q] = post[q]
           /\ UNCHANGED <<server, store, md5, disk, load, drop, conns, reads>>
           /\ TypeOK'
<1>1. post[p] = "saving" /\ entry[p] # Nil
  BY DEF PostSaved, EntriesOK, EntryOK
<1>2. PICK m : m = entry[p].media
  OBVIOUS
<1>3. m \in Media /\ p \in EntriesOf(m)
  BY <1>1, <1>2, Paths DEF EntriesOf
<1>4. lists(m, p) /\ post' = [post EXCEPT ![p] = "done"]
      /\ UNCHANGED <<server, store, md5, disk, load, drop, conns, reads>>
  BY <1>2 DEF PostSaved
<1>5. ListedFor(m, p) /\ db' \in [Media -> Posts \cup {Nil}] /\ raced' \in SUBSET Media
  BY <1>3, <1>4, Listing
<1>6. TypeOK'
  BY <1>4, <1>5 DEF TypeOK, store, disk, conns, reads
<1>7. post'[p] = "done" /\ \A q \in Posts \ {p} : post'[q] = post[q]
  BY <1>4 DEF TypeOK
<1> QED
  BY <1>1, <1>2, <1>3, <1>4, <1>5, <1>6, <1>7

LEMMA PostFailing ==
    ASSUME TypeOK, EntriesOK, NEW p \in Posts, PostFails(p)
    PROVE  /\ entry[p] # Nil
           /\ post[p] = "saving" /\ post'[p] = "failed" /\ \A q \in Posts \ {p} : post'[q] = post[q]
           /\ UNCHANGED <<server, store, md5, disk, db, load, drop, conns, reads, raced>>
           /\ TypeOK'
<1>1. post[p] = "saving" /\ entry[p] # Nil /\ post' = [post EXCEPT ![p] = "failed"]
      /\ UNCHANGED <<server, store, md5, disk, db, load, drop, conns, reads, raced>>
  BY DEF PostFails, EntriesOK, EntryOK
<1> QED
  BY <1>1 DEF TypeOK, store, disk, conns, reads

LEMMA Deleting ==
    ASSUME TypeOK, ZoneOK, NEW m \in Media, Delete(m)
    PROVE  /\ \E z \in Posts : Removed(m, z) /\ z \in EntriesOf(m) /\ drop[z] = "none"
                  /\ (drop'[z] = "hung" => \A k \in Keys : zoneDb'[k] = Nil)
           /\ TypeOK'
<1>1. isServed(m) /\ isIdle(m) /\ db[m] # Nil /\ zoneDb[m] # Nil
  BY DEF Delete
<1>2. PICK z : z = zoneDb[m]
  OBVIOUS
<1>3. m \in Keys
  BY DEF Keys
<1>4. z \in Posts /\ z \in EntriesOf(m) /\ drop[z] = "none" /\ entry[z] # Nil
  BY <1>1, <1>2, <1>3 DEF TypeOK, ZoneOK, EntriesOf
<1>5. path(z) \in Path
  BY <1>4, Paths
<1>6. /\ zoneDb' = [zoneDb EXCEPT ![m] = Nil]
      /\ file' = [file EXCEPT ![path(z)] = Nil]
      /\ drop' = [drop EXCEPT ![z] =
                     IF \E k \in Keys : zoneDb'[k] # Nil THEN "saving" ELSE "hung"]
      /\ UNCHANGED <<server, entry, md5, age, data, db, load, post, conns, reads, raced>>
  BY <1>2 DEF Delete
<1>7. drop'[z] = (IF \E k \in Keys : zoneDb'[k] # Nil THEN "saving" ELSE "hung")
      /\ \A q \in Posts \ {z} : drop'[q] = drop[q]
  BY <1>4, <1>6 DEF TypeOK
<1>8. Removed(m, z)
  BY <1>1, <1>2, <1>3, <1>4, <1>5, <1>6, <1>7 DEF Removed, TypeOK
<1>9. zoneDb' \in [Keys -> Posts \cup {Nil}] /\ file' \in [Path -> Posts \cup {Nil}]
      /\ drop' \in [Posts -> {"none", "saving", "hung", "failed", "done"}]
  BY <1>3, <1>4, <1>5, <1>6 DEF TypeOK
<1>10. TypeOK'
  BY <1>6, <1>9 DEF TypeOK, conns, reads
<1> QED
  BY <1>4, <1>7, <1>8, <1>10

LEMMA DropSaving ==
    ASSUME TypeOK, EntriesOK, NEW p \in Posts, DeleteSaved(p)
    PROVE  /\ \E m \in Media : p \in EntriesOf(m) /\ m = entry[p].media /\ ListedFor(m, Nil)
           /\ drop[p] = "saving" /\ drop'[p] = "done" /\ \A q \in Posts \ {p} : drop'[q] = drop[q]
           /\ UNCHANGED <<server, store, md5, disk, load, post, conns, reads>>
           /\ TypeOK'
<1>1. drop[p] = "saving" /\ entry[p] # Nil
  BY DEF DeleteSaved, EntriesOK, EntryOK
<1>2. PICK m : m = entry[p].media
  OBVIOUS
<1>3. m \in Media /\ p \in EntriesOf(m)
  BY <1>1, <1>2, Paths DEF EntriesOf
<1>4. lists(m, Nil) /\ drop' = [drop EXCEPT ![p] = "done"]
      /\ UNCHANGED <<server, store, md5, disk, load, post, conns, reads>>
  BY <1>2 DEF DeleteSaved
<1>5. ListedFor(m, Nil) /\ db' \in [Media -> Posts \cup {Nil}] /\ raced' \in SUBSET Media
  BY <1>3, <1>4, Listing
<1>6. TypeOK'
  BY <1>4, <1>5 DEF TypeOK, store, disk, conns, reads
<1>7. drop'[p] = "done" /\ \A q \in Posts \ {p} : drop'[q] = drop[q]
  BY <1>4 DEF TypeOK
<1> QED
  BY <1>1, <1>2, <1>3, <1>4, <1>5, <1>6, <1>7

LEMMA DropFailing ==
    ASSUME TypeOK, EntriesOK, NEW p \in Posts, DeleteFails(p)
    PROVE  /\ entry[p] # Nil
           /\ drop[p] = "saving" /\ drop'[p] = "failed" /\ \A q \in Posts \ {p} : drop'[q] = drop[q]
           /\ UNCHANGED <<server, store, md5, disk, db, load, post, conns, reads, raced>>
           /\ TypeOK'
<1>1. drop[p] = "saving" /\ entry[p] # Nil /\ drop' = [drop EXCEPT ![p] = "failed"]
      /\ UNCHANGED <<server, store, md5, disk, db, load, post, conns, reads, raced>>
  BY DEF DeleteFails, EntriesOK, EntryOK
<1> QED
  BY <1>1 DEF TypeOK, store, disk, conns, reads

LEMMA Loading ==
    ASSUME TypeOK, EntriesOK, NEW p \in Posts, LoadLogs(p)
    PROVE  /\ \E m \in Media : p \in EntriesOf(m) /\ m = entry[p].media
                  /\ db'[m] = p /\ \A o \in Media \ {m} : db'[o] = db[o]
           /\ load[p] = "logging" /\ load'[p] = "done" /\ \A q \in Posts \ {p} : load'[q] = load[q]
           /\ UNCHANGED <<server, store, md5, disk, post, drop, conns, reads, raced>>
           /\ TypeOK'
<1>1. load[p] = "logging" /\ entry[p] # Nil
  BY DEF LoadLogs, EntriesOK, EntryOK
<1>2. PICK m : m = entry[p].media
  OBVIOUS
<1>3. m \in Media /\ p \in EntriesOf(m)
  BY <1>1, <1>2, Paths DEF EntriesOf
<1>4. load' = [load EXCEPT ![p] = "done"] /\ db' = [db EXCEPT ![m] = p]
      /\ UNCHANGED <<server, store, md5, disk, post, drop, conns, reads, raced>>
  BY <1>2 DEF LoadLogs
<1> QED
  BY <1>1, <1>2, <1>3, <1>4 DEF TypeOK, store, disk, conns, reads

(***************************************************************************)
(* What the steps that read a media do.                                    *)
(***************************************************************************)

\* They change no media; nor does a check, but for a hash.
SameMedia == UNCHANGED <<store, disk, db, logs, raced>>

\* A request is received.
Asked(g, c, m, s, e) ==
    /\ get[g] = Nil /\ get'[g] # Nil
    /\ get'[g].conn = c /\ get'[g].media = m /\ get'[g].path = s /\ get'[g].entry = e
    /\ get'[g].file = Nil /\ get'[g].seen = {}
    /\ \A h \in Gets \ {g} : get'[h] = get[h]

\* It opens its file, or closes it.
Reads(g, f, seen) ==
    /\ get[g] # Nil /\ get'[g] # Nil /\ answer[g] = Nil
    /\ get'[g].conn = get[g].conn /\ get'[g].media = get[g].media
    /\ get'[g].path = get[g].path /\ get'[g].entry = get[g].entry
    /\ get'[g].file = f /\ get'[g].seen = seen
    /\ \A h \in Gets \ {g} : get'[h] = get[h]

\* It is answered.
Answered(g, status, content) ==
    /\ answer[g] = Nil /\ answer'[g] # Nil
    /\ answer'[g].status = status /\ answer'[g].content = content
    /\ \A h \in Gets \ {g} : answer'[h] = answer[h]

LEMMA Asking ==
    ASSUME TypeOK, NEW g \in Gets, get[g] = Nil, NEW c \in Conns \cup {Nil}, NEW m \in Media,
           NEW s \in Path, NEW e \in Posts \cup {Nil},
           get' = [get EXCEPT ![g] = reading(c, m, s, e)]
    PROVE  Asked(g, c, m, s, e) /\ get' \in [Gets -> Get \cup {Nil}]
<1> DEFINE r == reading(c, m, s, e)
<1>1. r = [conn |-> c, media |-> m, path |-> s, entry |-> e, file |-> Nil, seen |-> {}]
  BY DEF reading
<1>2. r \in Get
  BY <1>1 DEF Get
<1>3. r.conn = c /\ r.media = m /\ r.path = s /\ r.entry = e /\ r.file = Nil /\ r.seen = {}
  BY <1>1
<1> HIDE DEF r
<1>4. get' = [get EXCEPT ![g] = r]
  BY DEF r
<1>5. get'[g] = r /\ \A h \in Gets \ {g} : get'[h] = get[h]
  BY <1>4 DEF TypeOK
<1> QED
  BY <1>2, <1>3, <1>4, <1>5, NoNil DEF Asked, TypeOK

LEMMA Reading ==
    ASSUME TypeOK, NEW g \in Gets, get[g] # Nil, answer[g] = Nil,
           NEW f \in Posts \cup {Nil}, NEW seen \in SUBSET Content,
           get' = [get EXCEPT ![g].file = f, ![g].seen = seen]
    PROVE  Reads(g, f, seen) /\ get' \in [Gets -> Get \cup {Nil}]
<1> DEFINE r == get[g]
           new == [conn |-> r.conn, media |-> r.media, path |-> r.path, entry |-> r.entry,
                   file |-> f, seen |-> seen]
<1>1. r \in Get
  BY DEF TypeOK
<1>2. new \in Get
  BY <1>1 DEF Get
<1>3. [[r EXCEPT !.file = f] EXCEPT !.seen = seen] = new
  <2>1. r = [conn |-> r.conn, media |-> r.media, path |-> r.path, entry |-> r.entry,
             file |-> r.file, seen |-> r.seen]
    BY <1>1 DEF Get
  <2>2. PICK mid : mid = [r EXCEPT !.file = f]
    OBVIOUS
  <2>3. mid = [conn |-> r.conn, media |-> r.media, path |-> r.path,
               entry |-> r.entry, file |-> f, seen |-> r.seen]
    BY <2>1, <2>2
  <2>4. [mid EXCEPT !.seen = seen] = new
    BY <2>3
  <2> QED
    BY <2>2, <2>4
<1>4. get'[g] = [[r EXCEPT !.file = f] EXCEPT !.seen = seen]
      /\ \A h \in Gets \ {g} : get'[h] = get[h]
  BY DEF TypeOK
<1>5. new.conn = r.conn /\ new.media = r.media /\ new.path = r.path /\ new.entry = r.entry
      /\ new.file = f /\ new.seen = seen
  OBVIOUS
<1> HIDE DEF new
<1>6. get' \in [Gets -> Get \cup {Nil}]
  BY <1>2, <1>3, <1>4 DEF TypeOK
<1>7. get'[g] = new /\ get'[g] # Nil
  BY <1>2, <1>3, <1>4, NoNil
<1> QED
  BY <1>4, <1>5, <1>6, <1>7 DEF Reads

LEMMA Answering ==
    ASSUME TypeOK, NEW g \in Gets, answer[g] = Nil, NEW status \in {"ok", "notFound", "error"},
           NEW content \in Content,
           answer' = [answer EXCEPT ![g] = [status |-> status, content |-> content]]
    PROVE  Answered(g, status, content) /\ answer' \in [Gets -> Answer \cup {Nil}]
<1> DEFINE a == [status |-> status, content |-> content]
<1>1. a \in Answer /\ a.status = status /\ a.content = content
  BY DEF Answer
<1> HIDE DEF a
<1>2. answer' = [answer EXCEPT ![g] = a]
  BY DEF a
<1> QED
  BY <1>1, <1>2, NoNil DEF Answered, TypeOK

\* What get adds to the connectors.
LEMMA Opening ==
    ASSUME TypeOK, ZoneOK, NEW c \in Conns, NEW m \in Media, opened(c, m)
    PROVE  /\ \E e \in Posts : e = db[m] /\ e \in EntriesOf(m) /\ wasListed(e)
                  /\ path(e) \in Path /\ path(e)[1] = m
           /\ journal[c] = "none" /\ server = "up"
           /\ due'[c] = Listed(m) /\ \A d \in Conns \ {c} : due'[d] = due[d]
           /\ c \in timer' /\ timer' = timer \cup {c} /\ timer' \in SUBSET Conns
           /\ due' \in [Conns -> SUBSET Posts]
<1>1. db[m] # Nil /\ journal[c] = "none" /\ server = "up" /\ timer' = timer \cup {c}
      /\ due' = [due EXCEPT ![c] = Listed(m)]
  BY DEF opened
<1>2. PICK e : e = db[m]
  OBVIOUS
<1>3. e \in Posts /\ e \in EntriesOf(m) /\ wasListed(e)
  BY <1>1, <1>2 DEF TypeOK, ZoneOK
<1>4. path(e) \in Path /\ path(e)[1] = m
  BY <1>3, Paths DEF EntriesOf
<1>5. Listed(m) \in SUBSET Posts
  BY DEF Listed, EntriesOf
<1>6. due'[c] = Listed(m) /\ (\A d \in Conns \ {c} : due'[d] = due[d])
      /\ due' \in [Conns -> SUBSET Posts]
  BY <1>1, <1>5 DEF TypeOK
<1>7. timer' \in SUBSET Conns
  BY <1>1 DEF TypeOK
<1> QED
  BY <1>1, <1>2, <1>3, <1>4, <1>6, <1>7

\* A connector to what is listed.
Connected(c, m, s, j) ==
    /\ storageId'[c] # Nil /\ storageId'[c].ref = m /\ storageId'[c].source = s
    /\ \A d \in Conns \ {c} : storageId'[d] = storageId[d] /\ journal'[d] = journal[d]
    /\ journal'[c] = j /\ j # "none"

LEMMA Connecting ==
    ASSUME TypeOK, NEW c \in Conns, NEW m \in Media, NEW s \in Path, NEW k \in Nat,
           NEW j \in {"new_conn", "acc_conn"},
           storageId' = [storageId EXCEPT ![c] = [ref |-> m, source |-> s, count |-> k]],
           journal' = [journal EXCEPT ![c] = j]
    PROVE  /\ Connected(c, m, s, j)
           /\ storageId' \in [Conns -> Connector \cup {Nil}]
           /\ journal' \in [Conns -> {"none", "new_conn", "acc_conn", "del_conn"}]
<1> DEFINE conn == [ref |-> m, source |-> s, count |-> k]
<1>1. conn \in Connector /\ conn.ref = m /\ conn.source = s
  BY DEF Connector
<1> HIDE DEF conn
<1>2. storageId' = [storageId EXCEPT ![c] = conn]
  BY DEF conn
<1> QED
  BY <1>1, <1>2, NoNil DEF Connected, TypeOK

\* Where a request is received.
OpenedFor(c, m, e, j) ==
    /\ e \in Posts /\ e = db[m] /\ e \in EntriesOf(m) /\ wasListed(e)
    /\ path(e) \in Path /\ path(e)[1] = m
    /\ journal[c] = "none" /\ Connected(c, m, path(e), j)
    /\ due'[c] = Listed(m) /\ \A d \in Conns \ {c} : due'[d] = due[d]

LEMMA Opens ==
    ASSUME TypeOK, ZoneOK, NEW c \in Conns, NEW m \in Media, Open(c, m)
    PROVE  /\ \E e \in Posts : OpenedFor(c, m, e, "new_conn")
           /\ SameMedia /\ UNCHANGED <<server, md5, reads>> /\ TypeOK'
<1>1. PICK e \in Posts : e = db[m] /\ e \in EntriesOf(m) /\ wasListed(e)
                            /\ path(e) \in Path /\ path(e)[1] = m
  BY Opening DEF Open
<1>2. journal[c] = "none" /\ due'[c] = Listed(m) /\ (\A d \in Conns \ {c} : due'[d] = due[d])
      /\ timer' \in SUBSET Conns /\ due' \in [Conns -> SUBSET Posts]
  BY Opening DEF Open
<1>3. /\ storageId' = [storageId EXCEPT ![c] = [ref |-> m, source |-> path(e), count |-> 0]]
      /\ journal' = [journal EXCEPT ![c] = "new_conn"]
      /\ UNCHANGED <<server, store, md5, disk, db, logs, reads, raced>>
  BY <1>1 DEF Open
<1>4. Connected(c, m, path(e), "new_conn")
      /\ storageId' \in [Conns -> Connector \cup {Nil}]
      /\ journal' \in [Conns -> {"none", "new_conn", "acc_conn", "del_conn"}]
  BY <1>1, <1>3, Connecting
<1>5. TypeOK'
  BY <1>2, <1>3, <1>4 DEF TypeOK, store, disk, logs, reads
<1> QED
  BY <1>1, <1>2, <1>3, <1>4, <1>5 DEF OpenedFor, SameMedia

LEMMA Directs ==
    ASSUME TypeOK, ZoneOK, NEW g \in Gets, NEW c \in Conns, NEW m \in Media, Direct(g, c, m)
    PROVE  /\ \E e \in Posts :
                  OpenedFor(c, m, e, "acc_conn") /\ Asked(g, c, m, path(e), Nil)
           /\ SameMedia /\ UNCHANGED <<server, md5, answer>> /\ TypeOK'
<1>1. PICK e \in Posts : e = db[m] /\ e \in EntriesOf(m) /\ wasListed(e)
                            /\ path(e) \in Path /\ path(e)[1] = m
  BY Opening DEF Direct
<1>2. journal[c] = "none" /\ due'[c] = Listed(m) /\ (\A d \in Conns \ {c} : due'[d] = due[d])
      /\ timer' \in SUBSET Conns /\ due' \in [Conns -> SUBSET Posts]
  BY Opening DEF Direct
<1>3. /\ storageId' = [storageId EXCEPT ![c] = [ref |-> m, source |-> path(e), count |-> 1]]
      /\ journal' = [journal EXCEPT ![c] = "acc_conn"]
      /\ get[g] = Nil /\ get' = [get EXCEPT ![g] = reading(c, m, path(e), Nil)]
      /\ UNCHANGED <<server, store, md5, disk, db, logs, answer, raced>>
  BY <1>1 DEF Direct
<1>4. Connected(c, m, path(e), "acc_conn")
      /\ storageId' \in [Conns -> Connector \cup {Nil}]
      /\ journal' \in [Conns -> {"none", "new_conn", "acc_conn", "del_conn"}]
  BY <1>1, <1>3, Connecting
<1>5. Asked(g, c, m, path(e), Nil) /\ get' \in [Gets -> Get \cup {Nil}]
  BY <1>1, <1>3, Asking
<1>6. TypeOK'
  BY <1>2, <1>3, <1>4, <1>5 DEF TypeOK, store, disk, logs
<1> QED
  BY <1>1, <1>2, <1>3, <1>4, <1>5, <1>6 DEF OpenedFor, SameMedia

LEMMA Finds ==
    ASSUME TypeOK, AnswersOK, NEW g \in Gets, NEW c \in Conns, Find(g, c)
    PROVE  /\ storageId[c] # Nil
           /\ \E m \in Media, s \in Path :
                 /\ m = storageId[c].ref /\ s = storageId[c].source
                 /\ Connected(c, m, s, "acc_conn") /\ Asked(g, c, m, s, Nil)
                 /\ answer' = answer \/ (db[m] = Nil /\ Answered(g, "error", {}))
           /\ SameMedia /\ UNCHANGED <<server, md5, timer, due>> /\ TypeOK'
<1>1. get[g] = Nil /\ storageId[c] # Nil
  BY DEF Find
<1>2. PICK conn : conn = storageId[c]
  OBVIOUS
<1>3. conn \in Connector /\ conn.ref \in Media /\ conn.source \in Path
  BY <1>1, <1>2 DEF TypeOK, Connector
<1>4. PICK new : new = counted(conn)
  OBVIOUS
<1>5. new \in Connector /\ new.ref = conn.ref /\ new.source = conn.source /\ new # Nil
  BY <1>3, <1>4, Counting, NoNil
<1>6. /\ storageId' = [storageId EXCEPT ![c] = new]
      /\ journal' = [journal EXCEPT ![c] = "acc_conn"]
      /\ get' = [get EXCEPT ![g] = reading(c, conn.ref, conn.source, Nil)]
      /\ answer' = IF db[conn.ref] # Nil THEN answer
                   ELSE [answer EXCEPT ![g] = failed("error")]
      /\ UNCHANGED <<server, store, md5, disk, db, logs, timer, due, raced>>
  BY <1>2, <1>4 DEF Find
<1>7. Connected(c, conn.ref, conn.source, "acc_conn")
  BY <1>5, <1>6 DEF Connected, TypeOK
<1>8. Asked(g, c, conn.ref, conn.source, Nil) /\ get' \in [Gets -> Get \cup {Nil}]
  BY <1>1, <1>3, <1>6, Asking
<1>9. answer[g] = Nil
  BY <1>1 DEF AnswersOK, AnswerOK
<1>10. /\ answer' = answer \/ (db[conn.ref] = Nil /\ Answered(g, "error", {}))
       /\ answer' \in [Gets -> Answer \cup {Nil}]
  <2>1. CASE db[conn.ref] # Nil
    BY <1>6, <2>1 DEF TypeOK
  <2>2. CASE db[conn.ref] = Nil
    <3>1. answer' = [answer EXCEPT ![g] = [status |-> "error", content |-> {}]]
      BY <1>6, <2>2 DEF failed
    <3>2. {} \in Content
      BY DEF Content
    <3>3. Answered(g, "error", {}) /\ answer' \in [Gets -> Answer \cup {Nil}]
      BY <1>9, <3>1, <3>2, Answering
    <3> QED
      BY <2>2, <3>3
  <2> QED
    BY <2>1, <2>2
<1>11. TypeOK'
  BY <1>5, <1>6, <1>8, <1>10 DEF TypeOK, store, disk, logs
<1> QED
  BY <1>1, <1>2, <1>3, <1>6, <1>7, <1>8, <1>10, <1>11 DEF SameMedia

LEMMA Checks ==
    ASSUME TypeOK, ZoneOK, NEW g \in Gets, NEW m \in Media, Check(g, m)
    PROVE  /\ \E e \in Posts :
                 /\ e = db[m] /\ e \in EntriesOf(m) /\ wasListed(e)
                 /\ path(e) \in Path /\ path(e)[1] = m
                 /\ Asked(g, Nil, m, path(e), e)
           /\ SameMedia /\ UNCHANGED <<server, md5, conns, answer>> /\ TypeOK'
<1>1. db[m] # Nil /\ get[g] = Nil
  BY DEF Check
<1>2. PICK e : e = db[m]
  OBVIOUS
<1>3. e \in Posts /\ e \in EntriesOf(m) /\ wasListed(e)
  BY <1>1, <1>2 DEF TypeOK, ZoneOK
<1>4. path(e) \in Path /\ path(e)[1] = m
  BY <1>3, Paths DEF EntriesOf
<1>5. get' = [get EXCEPT ![g] = reading(Nil, m, path(e), e)]
      /\ UNCHANGED <<server, store, md5, disk, db, logs, conns, answer, raced>>
  BY <1>2 DEF Check
<1>6. Asked(g, Nil, m, path(e), e) /\ get' \in [Gets -> Get \cup {Nil}]
  BY <1>1, <1>3, <1>4, <1>5, Asking
<1>7. TypeOK'
  BY <1>5, <1>6 DEF TypeOK, store, disk, logs, conns
<1> QED
  BY <1>2, <1>3, <1>4, <1>5, <1>6, <1>7 DEF SameMedia

LEMMA ReadOpening ==
    ASSUME TypeOK, NEW g \in Gets, ReadOpens(g)
    PROVE  /\ get[g].path \in Path /\ get[g].file = Nil
           /\ \E f \in Posts, seen \in SUBSET Content :
                 /\ f = file[get[g].path] /\ Reads(g, f, seen)
                 /\ \A content \in seen :
                       content = data[f]
                       \/ (content = {} /\ \E p \in Posts : post[p] = "writing" /\ file[path(p)] = f)
                 /\ data[f] \in seen
           /\ SameMedia /\ UNCHANGED <<server, md5, conns, answer>> /\ TypeOK'
<1>1. get[g] # Nil /\ answer[g] = Nil /\ get[g].file = Nil /\ file[get[g].path] # Nil
  BY DEF ReadOpens, isReading
<1>2. get[g].path \in Path
  BY <1>1 DEF TypeOK, Get
<1>3. PICK f : f = file[get[g].path]
  OBVIOUS
<1>4. f \in Posts /\ data[f] \in Content /\ {} \in Content
  BY <1>1, <1>2, <1>3 DEF TypeOK, Content
<1>5. PICK seen : seen = {data[f]} \cup (IF \E p \in Posts : post[p] = "writing" /\ file[path(p)] = f
                                             THEN {{}} ELSE {})
  OBVIOUS
<1>6. seen \in SUBSET Content
  BY <1>4, <1>5
<1>7. get' = [get EXCEPT ![g].file = f, ![g].seen = seen]
      /\ UNCHANGED <<server, store, md5, disk, db, logs, conns, answer, raced>>
  BY <1>3, <1>5 DEF ReadOpens
<1>8. Reads(g, f, seen) /\ get' \in [Gets -> Get \cup {Nil}]
  BY <1>1, <1>4, <1>6, <1>7, Reading
<1>9. /\ \A content \in seen :
            content = data[f]
            \/ (content = {} /\ \E p \in Posts : post[p] = "writing" /\ file[path(p)] = f)
      /\ data[f] \in seen
  BY <1>5
<1>10. TypeOK'
  BY <1>7, <1>8 DEF TypeOK, store, disk, logs, conns
<1> QED
  BY <1>1, <1>2, <1>3, <1>4, <1>6, <1>7, <1>8, <1>9, <1>10 DEF SameMedia

LEMMA ReadFailing ==
    ASSUME TypeOK, NEW g \in Gets, ReadFails(g)
    PROVE  /\ get[g] # Nil /\ get[g].path \in Path /\ file[get[g].path] = Nil
           /\ Answered(g, "notFound", {})
           /\ SameMedia /\ UNCHANGED <<server, md5, conns, get>> /\ TypeOK'
<1>1. get[g] # Nil /\ answer[g] = Nil /\ file[get[g].path] = Nil
      /\ answer' = [answer EXCEPT ![g] = [status |-> "notFound", content |-> {}]]
      /\ UNCHANGED <<server, store, md5, disk, db, logs, conns, get, raced>>
  BY DEF ReadFails, isReading, failed
<1>2. get[g].path \in Path /\ {} \in Content
  BY <1>1 DEF TypeOK, Get, Content
<1>3. Answered(g, "notFound", {}) /\ answer' \in [Gets -> Answer \cup {Nil}]
  BY <1>1, <1>2, Answering
<1>4. TypeOK'
  BY <1>1, <1>3 DEF TypeOK, store, disk, logs, conns
<1> QED
  BY <1>1, <1>2, <1>3, <1>4 DEF SameMedia

\* What was read is answered.
LEMMA Finding ==
    ASSUME TypeOK, NEW g \in Gets, isReading(g), NEW content, found(g, content)
    PROVE  /\ content \in Content /\ content \in get[g].seen
           /\ Reads(g, Nil, {}) /\ Answered(g, "ok", content)
           /\ get' \in [Gets -> Get \cup {Nil}] /\ answer' \in [Gets -> Answer \cup {Nil}]
<1>1. get[g] # Nil /\ answer[g] = Nil /\ content \in get[g].seen
      /\ answer' = [answer EXCEPT ![g] = [status |-> "ok", content |-> content]]
      /\ get' = [get EXCEPT ![g].file = Nil, ![g].seen = {}]
  BY DEF isReading, found
<1>2. content \in Content
  BY <1>1 DEF TypeOK, Get
<1>3. Reads(g, Nil, {}) /\ get' \in [Gets -> Get \cup {Nil}]
  <2>1. Nil \in Posts \cup {Nil} /\ {} \in SUBSET Content
    OBVIOUS
  <2> QED
    BY <1>1, <2>1, Reading
<1>4. Answered(g, "ok", content) /\ answer' \in [Gets -> Answer \cup {Nil}]
  BY <1>1, <1>2, Answering
<1> QED
  BY <1>1, <1>2, <1>3, <1>4

LEMMA Serving ==
    ASSUME TypeOK, NEW g \in Gets, Served(g)
    PROVE  /\ \E content \in Content :
                 /\ content \in get[g].seen /\ Reads(g, Nil, {}) /\ Answered(g, "ok", content)
           /\ SameMedia /\ UNCHANGED <<server, md5, conns>> /\ TypeOK'
<1>1. isReading(g) /\ UNCHANGED <<server, store, md5, disk, db, logs, conns, raced>>
  BY DEF Served
<1>2. PICK content : found(g, content)
  BY DEF Served
<1>3. content \in Content /\ content \in get[g].seen /\ Reads(g, Nil, {}) /\ Answered(g, "ok", content)
      /\ get' \in [Gets -> Get \cup {Nil}] /\ answer' \in [Gets -> Answer \cup {Nil}]
  BY <1>1, <1>2, Finding
<1>4. TypeOK'
  BY <1>1, <1>3 DEF TypeOK, store, disk, logs, conns
<1> QED
  BY <1>1, <1>3, <1>4 DEF SameMedia

LEMMA Checking ==
    ASSUME TypeOK, ConnsOK, NEW g \in Gets, Checked(g)
    PROVE  /\ get[g].entry \in Posts /\ wasListed(get[g].entry)
           /\ \E content \in Content :
                 /\ content \in get[g].seen /\ Reads(g, Nil, {}) /\ Answered(g, "ok", content)
                 /\ md5'[get[g].entry] = content
                 /\ \A p \in Posts : p # get[g].entry => md5'[p] = md5[p]
           /\ SameMedia /\ UNCHANGED <<server, conns>> /\ TypeOK'
<1>1. isReading(g) /\ get[g].conn = Nil /\ UNCHANGED <<server, store, disk, db, logs, conns, raced>>
  BY DEF Checked
<1>2. PICK content : found(g, content) /\ md5' = corrected(g, content)
  BY DEF Checked
<1>3. content \in Content /\ content \in get[g].seen /\ Reads(g, Nil, {}) /\ Answered(g, "ok", content)
      /\ get' \in [Gets -> Get \cup {Nil}] /\ answer' \in [Gets -> Answer \cup {Nil}]
  BY <1>1, <1>2, Finding
<1>4. get[g].entry \in Posts /\ wasListed(get[g].entry)
  BY <1>1 DEF ConnsOK, GetOK, isReading, TypeOK, Get
<1>5. md5' = [md5 EXCEPT ![get[g].entry] = content]
  BY <1>2 DEF corrected
<1>6. /\ md5'[get[g].entry] = content
      /\ \A p \in Posts : p # get[g].entry => md5'[p] = md5[p]
      /\ md5' \in [Posts -> Content \cup {Nil}]
  BY <1>3, <1>4, <1>5 DEF TypeOK
<1>7. TypeOK'
  BY <1>1, <1>3, <1>6 DEF TypeOK, store, disk, logs, conns
<1> QED
  BY <1>1, <1>3, <1>4, <1>6, <1>7 DEF SameMedia

\* The timer of a connector, and the end of the process.
LEMMA Ending ==
    ASSUME TypeOK, (\E c \in Conns : TimerFires(c)) \/ Interrupt \/ Close
    PROVE  /\ \A c \in Conns :
                 /\ storageId'[c] = Nil \/ storageId'[c] = storageId[c]
                 /\ journal[c] # "none" => journal'[c] # "none"
           /\ SameMedia /\ UNCHANGED <<md5, due, reads>> /\ TypeOK'
<1>1. ASSUME NEW c \in Conns, TimerFires(c)
      PROVE  /\ \A d \in Conns :
                   /\ storageId'[d] = Nil \/ storageId'[d] = storageId[d]
                   /\ journal[d] # "none" => journal'[d] # "none"
             /\ SameMedia /\ UNCHANGED <<md5, due, reads>> /\ TypeOK'
  <2>1. /\ timer' = timer \ {c}
        /\ storageId' = [storageId EXCEPT ![c] = Nil]
        /\ journal' = [journal EXCEPT ![c] = "del_conn"]
        /\ UNCHANGED <<server, store, md5, disk, db, logs, due, reads, raced>>
    BY <1>1 DEF TimerFires
  <2> QED
    BY <2>1 DEF TypeOK, SameMedia, store, disk, logs, reads
<1>2. CASE Interrupt
  BY <1>2 DEF Interrupt, TypeOK, SameMedia, store, disk, logs, reads, conns
<1>3. CASE Close
  <2>1. /\ server' = "down"
        /\ storageId' = [c \in Conns |-> Nil]
        /\ timer' = {}
        /\ UNCHANGED <<store, md5, disk, db, logs, journal, due, reads, raced>>
    BY <1>3 DEF Close
  <2> QED
    BY <2>1 DEF TypeOK, SameMedia, store, disk, logs, reads
<1> QED
  BY <1>1, <1>2, <1>3

(***************************************************************************)
(* What any step does.                                                     *)
(***************************************************************************)

\* What was made, listed, deleted, opened, asked and answered is so for ever, and what
\* failed failed.
Grows ==
    /\ \A p \in Posts :
          /\ entry[p] # Nil => entry'[p] = entry[p] /\ age'[p] = age[p]
          /\ load[p] = "done" \/ post[p] = "done" => load'[p] = "done" \/ post'[p] = "done"
          /\ post[p] = "failed" => post'[p] = "failed"
          /\ drop[p] # "none" => drop'[p] # "none"
          /\ drop[p] \in {"failed", "hung"} => drop'[p] \in {"failed", "hung"}
          /\ load[p] # "none" => load'[p] # "none"
    /\ raced \subseteq raced'
    /\ \A c \in Conns : journal[c] # "none" => journal'[c] # "none" /\ due'[c] = due[c]
    /\ \A g \in Gets :
          get[g] # Nil =>
              /\ get'[g] # Nil
              /\ get'[g].conn = get[g].conn /\ get'[g].media = get[g].media
              /\ get'[g].path = get[g].path /\ get'[g].entry = get[g].entry
    /\ \A g \in Gets : answer[g] # Nil => answer'[g] = answer[g]

LEMMA GrowStep ==
    ASSUME TypeOK, EntriesOK, ZoneOK, ConnsOK, AnswersOK, [Next]_vars
    PROVE  Grows
<1>1. ASSUME NEW p \in Posts, NEW m \in Media, NEW n \in FileNames,
             NEW kind \in {"write", "append"}, Post(p, m, n, kind)
      PROVE  Grows
  <2>1. Made(p, m, n, kind, "writing")
    BY <1>1, Posting
  <2>2. PICK f \in Posts : Opened(p, m, n, kind, f)
    BY <1>1, Posting
  <2>3. load[p] = "none" /\ post[p] = "none" /\ drop[p] = "none"
    BY <2>1 DEF Made, EntriesOK, EntryOK
  <2>4. {} \in Content
    BY DEF Content
  <2>5. \A g \in Gets :
          get[g] # Nil =>
              /\ get'[g] # Nil
              /\ get'[g].conn = get[g].conn /\ get'[g].media = get[g].media
              /\ get'[g].path = get[g].path /\ get'[g].entry = get[g].entry
    <3>1. get' = readersSee(f, {})
      BY <2>2 DEF Opened
    <3> QED
      BY <2>4, <3>1, Seen
  <2> QED
    BY <2>1, <2>2, <2>3, <2>5 DEF Grows, Made, Opened, conns
<1>2. ASSUME NEW p \in Posts, NEW m \in Media, NEW n \in FileNames, Commit(p, m, n)
      PROVE  Grows
  <2>1. Made(p, m, n, "commit", "saving") /\ Renamed(p, m, n)
    BY <1>2, Committing
  <2>2. load[p] = "none" /\ post[p] = "none" /\ drop[p] = "none"
    BY <2>1 DEF Made, EntriesOK, EntryOK
  <2> QED
    BY <2>1, <2>2 DEF Grows, Made, Renamed, conns, reads
<1>3. ASSUME NEW p \in Posts, PostWritten(p) PROVE Grows
  <2>1. PICK m \in Media, f \in Posts, content \in Content : Recorded(p, m, f, content)
    BY <1>3, Recording
  <2>2. \A g \in Gets :
          get[g] # Nil =>
              /\ get'[g] # Nil
              /\ get'[g].conn = get[g].conn /\ get'[g].media = get[g].media
              /\ get'[g].path = get[g].path /\ get'[g].entry = get[g].entry
    <3>1. get' = readersSee(f, content)
      BY <2>1 DEF Recorded
    <3> QED
      BY <3>1, Seen
  <2> QED
    BY <2>1, <2>2 DEF Grows, Recorded, conns
<1>4. ASSUME NEW p \in Posts, PostSaved(p) PROVE Grows
  <2>1. PICK m \in Media : ListedFor(m, p)
    BY <1>4, PostSaving
  <2>2. post[p] = "saving" /\ post'[p] = "done" /\ (\A q \in Posts \ {p} : post'[q] = post[q])
        /\ UNCHANGED <<server, store, md5, disk, load, drop, conns, reads>>
    BY <1>4, PostSaving
  <2> QED
    BY <2>1, <2>2 DEF Grows, ListedFor, store, conns, reads
<1>5. ASSUME NEW p \in Posts, PostFails(p) PROVE Grows
  BY <1>5, PostFailing DEF Grows, store, conns, reads
<1>6. ASSUME NEW m \in Media, Delete(m) PROVE Grows
  <2>1. PICK z \in Posts : Removed(m, z) /\ drop[z] = "none"
    BY <1>6, Deleting
  <2> QED
    BY <2>1 DEF Grows, Removed, conns, reads
<1>7. ASSUME NEW p \in Posts, DeleteSaved(p) PROVE Grows
  <2>1. PICK m \in Media : ListedFor(m, Nil)
    BY <1>7, DropSaving
  <2>2. drop[p] = "saving" /\ drop'[p] = "done" /\ (\A q \in Posts \ {p} : drop'[q] = drop[q])
        /\ UNCHANGED <<server, store, md5, disk, load, post, conns, reads>>
    BY <1>7, DropSaving
  <2> QED
    BY <2>1, <2>2 DEF Grows, ListedFor, store, conns, reads
<1>8. ASSUME NEW p \in Posts, DeleteFails(p) PROVE Grows
  BY <1>8, DropFailing DEF Grows, store, conns, reads
<1>9. ASSUME NEW p \in Posts, LoadLogs(p) PROVE Grows
  BY <1>9, Loading DEF Grows, store, conns, reads
<1>10. ASSUME NEW c \in Conns, NEW m \in Media, Open(c, m) PROVE Grows
  <2>1. PICK e \in Posts : OpenedFor(c, m, e, "new_conn")
    BY <1>10, Opens
  <2>2. SameMedia /\ UNCHANGED <<server, md5, reads>>
    BY <1>10, Opens
  <2> QED
    BY <2>1, <2>2 DEF Grows, OpenedFor, Connected, SameMedia, store, logs, reads
<1>11. ASSUME NEW g \in Gets, NEW c \in Conns, NEW m \in Media, Direct(g, c, m) PROVE Grows
  <2>1. PICK e \in Posts : OpenedFor(c, m, e, "acc_conn") /\ Asked(g, c, m, path(e), Nil)
    BY <1>11, Directs
  <2>2. SameMedia /\ UNCHANGED <<server, md5, answer>>
    BY <1>11, Directs
  <2> QED
    BY <2>1, <2>2 DEF Grows, OpenedFor, Connected, Asked, SameMedia, store, logs
<1>12. ASSUME NEW g \in Gets, NEW c \in Conns, Find(g, c) PROVE Grows
  <2>1. PICK m \in Media, s \in Path :
           /\ Connected(c, m, s, "acc_conn") /\ Asked(g, c, m, s, Nil)
           /\ answer' = answer \/ (db[m] = Nil /\ Answered(g, "error", {}))
    BY <1>12, Finds
  <2>2. SameMedia /\ UNCHANGED <<server, md5, timer, due>>
    BY <1>12, Finds
  <2> QED
    BY <2>1, <2>2 DEF Grows, Connected, Asked, Answered, SameMedia, store, logs
<1>13. ASSUME NEW g \in Gets, NEW m \in Media, Check(g, m) PROVE Grows
  <2>1. PICK e \in Posts : Asked(g, Nil, m, path(e), e)
    BY <1>13, Checks
  <2>2. SameMedia /\ UNCHANGED <<server, md5, conns, answer>>
    BY <1>13, Checks
  <2> QED
    BY <2>1, <2>2 DEF Grows, Asked, SameMedia, store, logs, conns
<1>14. ASSUME NEW g \in Gets, ReadOpens(g) PROVE Grows
  <2>1. PICK f \in Posts, seen \in SUBSET Content : Reads(g, f, seen)
    BY <1>14, ReadOpening
  <2>2. SameMedia /\ UNCHANGED <<server, md5, conns, answer>>
    BY <1>14, ReadOpening
  <2> QED
    BY <2>1, <2>2 DEF Grows, Reads, SameMedia, store, logs, conns
<1>15. ASSUME NEW g \in Gets, ReadFails(g) PROVE Grows
  <2>1. Answered(g, "notFound", {}) /\ SameMedia /\ UNCHANGED <<server, md5, conns, get>>
    BY <1>15, ReadFailing
  <2> QED
    BY <2>1 DEF Grows, Answered, SameMedia, store, logs, conns
<1>16. ASSUME NEW g \in Gets, Served(g) PROVE Grows
  <2>1. PICK content \in Content : Reads(g, Nil, {}) /\ Answered(g, "ok", content)
    BY <1>16, Serving
  <2>2. SameMedia /\ UNCHANGED <<server, md5, conns>>
    BY <1>16, Serving
  <2> QED
    BY <2>1, <2>2 DEF Grows, Reads, Answered, SameMedia, store, logs, conns
<1>17. ASSUME NEW g \in Gets, Checked(g) PROVE Grows
  <2>1. PICK content \in Content : Reads(g, Nil, {}) /\ Answered(g, "ok", content)
    BY <1>17, Checking
  <2>2. SameMedia /\ UNCHANGED <<server, conns>>
    BY <1>17, Checking
  <2> QED
    BY <2>1, <2>2 DEF Grows, Reads, Answered, SameMedia, store, logs, conns
<1>18. ASSUME Timers \/ Interrupt \/ Close PROVE Grows
  <2>1. /\ \A c \in Conns : journal[c] # "none" => journal'[c] # "none"
        /\ SameMedia /\ UNCHANGED <<md5, due, reads>>
    BY <1>18, Ending DEF Timers
  <2> QED
    BY <2>1 DEF Grows, SameMedia, store, logs, reads
<1>19. CASE UNCHANGED vars
  BY <1>19 DEF vars, store, logs, conns, reads, Grows
<1> QED
  BY <1>1, <1>2, <1>3, <1>4, <1>5, <1>6, <1>7, <1>8, <1>9, <1>10, <1>11, <1>12, <1>13, <1>14,
     <1>15, <1>16, <1>17, <1>18, <1>19 DEF Next, Clients, Callbacks

\* What is said of entries and paths stays so.
LEMMA Grown ==
    ASSUME TypeOK, TypeOK', Grows
    PROVE  /\ \A p \in Posts :
                 entry[p] # Nil =>
                     /\ path(p)' = path(p)
                     /\ isUnsaved(p) => isUnsaved(p)'
                     /\ isDoubled(p) => isDoubled(p)'
           /\ \A p \in Posts : wasListed(p) => wasListed(p)'
           /\ \A m \in Media :
                 /\ EntriesOf(m) \subseteq EntriesOf(m)'
                 /\ isGone(m) => isGone(m)'
           /\ \A s \in Path :
                 /\ isPath(s) => isPath(s)'
                 /\ inPlace(s) => inPlace(s)'
                 /\ \A content \in Content : isOf(content, s) => isOf(content, s)'
                 /\ \A c \in Conns :
                       /\ journal[c] # "none" /\ (\A q \in due[c] : entry[q] # Nil)
                       /\ isCurrent(c, s)
                       => isCurrent(c, s)'
<1>1. \A p \in Posts : entry[p] # Nil => path(p)' = path(p)
  BY DEF Grows, path
<1>2. \A m \in Media : EntriesOf(m) \subseteq EntriesOf(m)'
  BY NoNil DEF Grows, EntriesOf
<1>3. \A p \in Posts : wasListed(p) => wasListed(p)'
  BY DEF Grows, wasListed
<1>4. ASSUME NEW p \in Posts, entry[p] # Nil, isUnsaved(p) PROVE isUnsaved(p)'
  <2>1. PICK q \in EntriesOf(entry[p].media) :
           age[q] >= age[p] /\ (post[q] = "failed" \/ drop[q] \in {"failed", "hung"})
    BY <1>4 DEF isUnsaved
  <2>2. q \in Posts /\ entry[q] # Nil
    BY <2>1 DEF EntriesOf
  <2>3. q \in EntriesOf(entry[p].media)' /\ age'[q] >= age'[p]
        /\ (post'[q] = "failed" \/ drop'[q] \in {"failed", "hung"})
    BY <1>4, <2>1, <2>2 DEF Grows, EntriesOf
  <2> QED
    BY <2>3 DEF isUnsaved
<1>5. ASSUME NEW p \in Posts, entry[p] # Nil, isDoubled(p) PROVE isDoubled(p)'
  <2>1. PICK q \in EntriesOf(entry[p].media) \ {p} : load[q] # "none"
    BY <1>5 DEF isDoubled
  <2>2. load[p] # "none" /\ q \in Posts /\ entry[q] # Nil
    BY <1>5, <2>1 DEF EntriesOf, isDoubled
  <2>3. q \in EntriesOf(entry[p].media)' \ {p} /\ load'[q] # "none" /\ load'[p] # "none"
    BY <1>5, <2>1, <2>2 DEF Grows, EntriesOf
  <2> QED
    BY <2>3 DEF isDoubled
<1>6. ASSUME NEW m \in Media, isGone(m) PROVE isGone(m)'
  <2>1. PICK p \in EntriesOf(m) : drop[p] # "none" \/ entry[p].kind = "lost"
    BY <1>6 DEF isGone
  <2>2. p \in EntriesOf(m)' /\ (drop'[p] # "none" \/ entry'[p].kind = "lost")
    BY <1>2, <2>1 DEF Grows, EntriesOf
  <2> QED
    BY <2>2 DEF isGone
<1>7. ASSUME NEW s \in Path, isPath(s) PROVE isPath(s)'
  BY <1>1, <1>3, <1>7 DEF isPath, wasListed
<1>8. ASSUME NEW s \in Path, inPlace(s) PROVE inPlace(s)'
  <2>1. PICK p \in Posts : entry[p] # Nil /\ path(p) = s /\ entry[p].kind \in {"write", "append"}
    BY <1>8 DEF inPlace
  <2>2. entry'[p] # Nil /\ path(p)' = s /\ entry'[p].kind \in {"write", "append"}
    BY <1>1, <2>1 DEF Grows
  <2> QED
    BY <2>2 DEF inPlace
<1>9. ASSUME NEW s \in Path, NEW content \in Content, isOf(content, s) PROVE isOf(content, s)'
  <2>1. \A x \in content : x \in Posts /\ entry[x] # Nil /\ path(x) = s
    BY <1>9 DEF isOf, Content
  <2>2. \A x \in content : entry'[x] # Nil /\ path(x)' = s
    BY <1>1, <2>1 DEF Grows
  <2>3. content = {} => inPlace(s)'
    BY <1>8, <1>9 DEF isOf
  <2> QED
    BY <2>2, <2>3 DEF isOf
<1>10. ASSUME NEW s \in Path, NEW c \in Conns, journal[c] # "none",
              \A q \in due[c] : entry[q] # Nil, isCurrent(c, s)
       PROVE  isCurrent(c, s)'
  <2>1. PICK p \in Posts : wasListed(p) /\ path(p) = s /\ \A q \in due[c] : age[q] <= age[p]
    BY <1>10 DEF isCurrent
  <2>2. wasListed(p)' /\ path(p)' = s /\ age'[p] = age[p]
    BY <1>1, <1>3, <2>1 DEF wasListed, Grows
  <2>3. due'[c] = due[c] /\ due[c] \subseteq Posts
    BY <1>10 DEF Grows, TypeOK
  <2>4. \A q \in due'[c] : age'[q] <= age'[p]
    BY <1>10, <2>1, <2>2, <2>3 DEF Grows
  <2> QED
    BY <2>2, <2>4 DEF isCurrent
<1> QED
  BY <1>1, <1>2, <1>3, <1>4, <1>5, <1>6, <1>7, <1>8, <1>9, <1>10

(***************************************************************************)
(* Entries, zone and requests under way.                                   *)
(***************************************************************************)

\* A step that changes no media.
Reader == SameMedia /\ (md5' = md5 \/ \E g \in Gets : Checked(g))

Writer ==
    \/ \E p \in Posts, m \in Media, n \in FileNames :
         Commit(p, m, n) \/ \E kind \in {"write", "append"} : Post(p, m, n, kind)
    \/ \E m \in Media : Delete(m)
    \/ \E p \in Posts :
         \/ LoadLogs(p) \/ PostWritten(p) \/ PostSaved(p) \/ PostFails(p)
         \/ DeleteSaved(p) \/ DeleteFails(p)

\* The types, whatever the step.
LEMMA TypeStep ==
    ASSUME TypeOK, EntriesOK, ZoneOK, ConnsOK, AnswersOK, [Next]_vars
    PROVE  TypeOK' /\ (Writer \/ Reader)
<1>1. ASSUME Writer PROVE TypeOK' /\ (Writer \/ Reader)
  <2>1. ASSUME NEW p \in Posts, NEW m \in Media, NEW n \in FileNames, Commit(p, m, n) PROVE TypeOK'
    BY <2>1, Committing
  <2>2. ASSUME NEW p \in Posts, NEW m \in Media, NEW n \in FileNames,
               NEW kind \in {"write", "append"}, Post(p, m, n, kind) PROVE TypeOK'
    BY <2>2, Posting
  <2>3. ASSUME NEW m \in Media, Delete(m) PROVE TypeOK'
    BY <2>3, Deleting
  <2>4. ASSUME NEW p \in Posts, LoadLogs(p) PROVE TypeOK'
    BY <2>4, Loading
  <2>5. ASSUME NEW p \in Posts, PostWritten(p) PROVE TypeOK'
    BY <2>5, Recording
  <2>6. ASSUME NEW p \in Posts, PostSaved(p) PROVE TypeOK'
    BY <2>6, PostSaving
  <2>7. ASSUME NEW p \in Posts, PostFails(p) PROVE TypeOK'
    BY <2>7, PostFailing
  <2>8. ASSUME NEW p \in Posts, DeleteSaved(p) PROVE TypeOK'
    BY <2>8, DropSaving
  <2>9. ASSUME NEW p \in Posts, DeleteFails(p) PROVE TypeOK'
    BY <2>9, DropFailing
  <2> QED
    BY <1>1, <2>1, <2>2, <2>3, <2>4, <2>5, <2>6, <2>7, <2>8, <2>9 DEF Writer
<1>2. ASSUME NEW c \in Conns, NEW m \in Media, Open(c, m) PROVE TypeOK' /\ Reader
  <2>1. SameMedia /\ md5' = md5 /\ TypeOK'
    BY <1>2, Opens
  <2> QED
    BY <2>1 DEF Reader
<1>3. ASSUME NEW g \in Gets, NEW c \in Conns, NEW m \in Media, Direct(g, c, m)
      PROVE  TypeOK' /\ Reader
  <2>1. SameMedia /\ md5' = md5 /\ TypeOK'
    BY <1>3, Directs
  <2> QED
    BY <2>1 DEF Reader
<1>4. ASSUME NEW g \in Gets, NEW c \in Conns, Find(g, c) PROVE TypeOK' /\ Reader
  <2>1. SameMedia /\ md5' = md5 /\ TypeOK'
    BY <1>4, Finds
  <2> QED
    BY <2>1 DEF Reader
<1>5. ASSUME NEW g \in Gets, NEW m \in Media, Check(g, m) PROVE TypeOK' /\ Reader
  <2>1. SameMedia /\ md5' = md5 /\ TypeOK'
    BY <1>5, Checks
  <2> QED
    BY <2>1 DEF Reader
<1>6. ASSUME NEW g \in Gets, ReadOpens(g) PROVE TypeOK' /\ Reader
  <2>1. SameMedia /\ md5' = md5 /\ TypeOK'
    BY <1>6, ReadOpening
  <2> QED
    BY <2>1 DEF Reader
<1>7. ASSUME NEW g \in Gets, ReadFails(g) PROVE TypeOK' /\ Reader
  <2>1. SameMedia /\ md5' = md5 /\ TypeOK'
    BY <1>7, ReadFailing
  <2> QED
    BY <2>1 DEF Reader
<1>8. ASSUME NEW g \in Gets, Served(g) PROVE TypeOK' /\ Reader
  <2>1. SameMedia /\ md5' = md5 /\ TypeOK'
    BY <1>8, Serving
  <2> QED
    BY <2>1 DEF Reader
<1>9. ASSUME NEW g \in Gets, Checked(g) PROVE TypeOK' /\ Reader
  <2>1. SameMedia /\ TypeOK'
    BY <1>9, Checking
  <2> QED
    BY <1>9, <2>1 DEF Reader
<1>10. ASSUME Timers \/ Interrupt \/ Close PROVE TypeOK' /\ Reader
  <2>1. SameMedia /\ md5' = md5 /\ TypeOK'
    BY <1>10, Ending DEF Timers
  <2> QED
    BY <2>1 DEF Reader
<1>11. CASE UNCHANGED vars
  BY <1>11 DEF vars, TypeOK, Reader, SameMedia, store, disk, logs, conns, reads
<1> QED
  BY <1>1, <1>2, <1>3, <1>4, <1>5, <1>6, <1>7, <1>8, <1>9, <1>10, <1>11
     DEF Next, Clients, Callbacks, Writer

\* A file has one name, and one that a post creates has none.
LEMMA Apart ==
    ASSUME TypeOK, FilesOK, NEW s \in Path, file[s] # Nil
    PROVE  /\ entry[file[s]] # Nil /\ path(file[s]) = s
           /\ \A t \in Path : t # s => file[t] # file[s]
           /\ \A p \in Posts : entry[p] = Nil => p # file[s]
<1>1. \A t \in Path : file[t] # Nil => entry[file[t]] # Nil /\ path(file[t]) = t
  BY DEF FilesOK, NamedOK
<1> QED
  BY <1>1

\* A post of another media, whose content is written, keeps its file.
LEMMA KeepsFile ==
    ASSUME TypeOK, FilesOK, NEW s \in Path, NEW t \in Path, s # t, file[t] # Nil,
           NEW p \in Posts, entry[p] = Nil, NEW f \in Posts,
           f = p \/ f = file[s],
           file'[t] = file[t], \A x \in Posts \ {f} : data'[x] = data[x]
    PROVE  data'[file'[t]] = data[file[t]]
<1>1. file[t] # f
  BY Apart
<1>2. file[t] \in Posts
  BY DEF TypeOK
<1> QED
  BY <1>1, <1>2

LEMMA EntryStays ==
    ASSUME TypeOK, TypeOK', Grows, NEW q \in Posts, EntryOK(q), entry[q] # Nil,
           written <= written',
           load'[q] = load[q], post'[q] = post[q], drop'[q] = drop[q], md5'[q] = md5[q],
           post[q] = "writing" => file'[path(q)] # Nil,
           post[q] = "saving" =>
              /\ zoneDb'[entry[q].media] = zoneDb[entry[q].media] /\ zoneDb'[q] = zoneDb[q]
              /\ \/ file'[path(q)] = Nil
                 \/ file[path(q)] # Nil /\ data'[file'[path(q)]] = data[file[path(q)]],
           drop[q] = "saving" => zoneDb'[entry[q].media] = Nil
    PROVE  EntryOK(q)'
<1>1. entry'[q] = entry[q] /\ age'[q] = age[q] /\ path(q)' = path(q)
  BY DEF Grows, path
<1>2. age[q] \in Nat /\ written \in Nat /\ written' \in Nat
  <2>1. written' \in Nat
    <3>1. IsFiniteSet({p \in Posts : entry'[p] # Nil})
      BY ConstantsAssumption, FS_Subset
    <3> QED
      BY <3>1, FS_CardinalityType DEF written
  <2> QED
    BY <2>1, Written DEF TypeOK
<1>3. age'[q] < written'
  BY <1>1, <1>2 DEF EntryOK
<1> QED
  BY <1>1, <1>3 DEF EntryOK

LEMMA EntriesStep ==
    ASSUME TypeOK, TypeOK', Grows, EntriesOK, ZoneOK, BusyOK, FilesOK, ConnsOK, Writer \/ Reader
    PROVE  EntriesOK'
<1>0. ASSUME NEW q \in Posts, entry[q] # Nil
      PROVE  EntryOK(q) /\ path(q) \in Path /\ path(q)[1] = entry[q].media
             /\ entry[q].media \in Media /\ entry[q].media \in Keys /\ entry[q].media \notin Posts
             /\ q \in Keys /\ q \notin Media /\ q \in EntriesOf(entry[q].media)
  BY <1>0, Paths, NoNil DEF EntriesOK, Keys, EntriesOf
<1>1. ASSUME NEW p \in Posts, NEW m \in Media, NEW n \in FileNames,
             NEW kind \in {"write", "append"}, Post(p, m, n, kind)
      PROVE  EntriesOK'
  <2>1. Made(p, m, n, kind, "writing")
    BY <1>1, Posting
  <2>2. PICK f \in Posts : Opened(p, m, n, kind, f)
    BY <1>1, Posting
  <2>3. <<m, n>> \in Path /\ (f = p \/ f = file[<<m, n>>]) /\ (file[<<m, n>>] = Nil => f = p)
    BY <2>1, <2>2 DEF Made, Opened
  <2>4. load[p] = "none" /\ post[p] = "none" /\ drop[p] = "none" /\ entry[p] = Nil
    BY <2>1 DEF Made, EntriesOK, EntryOK
  <2>5. EntryOK(p)'
    <3>1. age'[p] < written'
      BY <2>1 DEF Made
    <3>2. file'[<<m, n>>] # Nil
      BY <2>2, NoNil DEF Opened
    <3>3. /\ load'[p] = "none" /\ drop'[p] = "none" /\ post'[p] = "writing" /\ md5'[p] = {p}
          /\ entry'[p] # Nil /\ entry'[p].kind \in {"write", "append"} /\ path(p)' = <<m, n>>
      BY <2>1, <2>2, <2>4 DEF Made, Opened
    <3> QED
      BY <3>1, <3>2, <3>3 DEF EntryOK
  <2>6. ASSUME NEW q \in Posts, q # p, entry[q] # Nil PROVE EntryOK(q)'
    <3>1. EntryOK(q) /\ path(q) \in Path /\ path(q)[1] = entry[q].media
          /\ q \in EntriesOf(entry[q].media)
      BY <1>0, <2>6
    <3>2. written <= written' /\ load'[q] = load[q] /\ post'[q] = post[q] /\ drop'[q] = drop[q]
          /\ md5'[q] = md5[q] /\ zoneDb' = zoneDb
      BY <2>1, <2>2, <2>6 DEF Made, Opened
    <3>3. ASSUME post[q] \notin Over
          PROVE  path(q) # <<m, n>> /\ file'[path(q)] = file[path(q)]
                 /\ (file[path(q)] # Nil => data'[file'[path(q)]] = data[file[path(q)]])
      <4>1. entry[q].media # m
        BY <2>1, <3>1, <3>3 DEF Made, isIdle
      <4>2. path(q) # <<m, n>>
        BY <3>1, <4>1
      <4>3. file'[path(q)] = file[path(q)] /\ \A x \in Posts \ {f} : data'[x] = data[x]
        BY <2>2, <3>1, <4>2 DEF Opened
      <4> QED
        BY <2>3, <2>4, <3>1, <4>2, <4>3, KeepsFile
    <3>4. post[q] = "writing" => file'[path(q)] # Nil
      BY <2>6, <3>1, <3>3 DEF EntryOK, Over
    <3>5. post[q] = "saving" => file'[path(q)] = Nil
                             \/ (file[path(q)] # Nil /\ data'[file'[path(q)]] = data[file[path(q)]])
      <4>1. post[q] = "saving" => post[q] \notin Over
        BY DEF Over
      <4> QED
        BY <3>3, <4>1
    <3>6. drop[q] = "saving" => zoneDb'[entry[q].media] = Nil
      BY <2>6, <3>1, <3>2 DEF EntryOK
    <3> QED
      BY <2>6, <3>1, <3>2, <3>4, <3>5, <3>6, EntryStays
  <2>7. ASSUME NEW q \in Posts, q # p, entry[q] = Nil PROVE EntryOK(q)'
    <3>1. q # f
      BY <2>3, <2>7, Apart
    <3> QED
      BY <2>1, <2>2, <2>7, <3>1 DEF Made, Opened, EntriesOK, EntryOK
  <2> QED
    BY <2>5, <2>6, <2>7 DEF EntriesOK
<1>2. ASSUME NEW p \in Posts, NEW m \in Media, NEW n \in FileNames, Commit(p, m, n)
      PROVE  EntriesOK'
  <2>1. Made(p, m, n, "commit", "saving") /\ Renamed(p, m, n)
    BY <1>2, Committing
  <2>4. load[p] = "none" /\ post[p] = "none" /\ drop[p] = "none" /\ entry[p] = Nil
        /\ <<m, n>> \in Path
    BY <2>1 DEF Made, EntriesOK, EntryOK
  <2>5. EntryOK(p)'
    BY <2>1, <2>4 DEF Made, Renamed, EntryOK
  <2>6. ASSUME NEW q \in Posts, q # p, entry[q] # Nil PROVE EntryOK(q)'
    <3>1. EntryOK(q) /\ path(q) \in Path /\ path(q)[1] = entry[q].media
          /\ q \in EntriesOf(entry[q].media)
          /\ entry[q].media \in Keys /\ entry[q].media \notin Posts /\ q \in Keys
      BY <1>0, <2>6
    <3>2. written <= written' /\ load'[q] = load[q] /\ post'[q] = post[q] /\ drop'[q] = drop[q]
          /\ md5'[q] = md5[q]
          /\ zoneDb'[entry[q].media] = zoneDb[entry[q].media] /\ zoneDb'[q] = zoneDb[q]
      BY <2>1, <2>6, <3>1 DEF Made, Renamed
    <3>3. ASSUME post[q] \notin Over
          PROVE  path(q) # <<m, n>> /\ file'[path(q)] = file[path(q)]
                 /\ (file[path(q)] # Nil => data'[file'[path(q)]] = data[file[path(q)]])
      <4>1. entry[q].media # m
        BY <2>1, <3>1, <3>3 DEF Made, isIdle
      <4>2. path(q) # <<m, n>>
        BY <3>1, <4>1
      <4>3. file'[path(q)] = file[path(q)] /\ \A x \in Posts \ {p} : data'[x] = data[x]
        BY <2>1, <3>1, <4>2 DEF Renamed
      <4> QED
        BY <2>4, <3>1, <4>2, <4>3, KeepsFile
    <3>4. post[q] = "writing" => file'[path(q)] # Nil
      BY <2>6, <3>1, <3>3 DEF EntryOK, Over
    <3>5. post[q] = "saving" => file'[path(q)] = Nil
                             \/ (file[path(q)] # Nil /\ data'[file'[path(q)]] = data[file[path(q)]])
      <4>1. post[q] = "saving" => post[q] \notin Over
        BY DEF Over
      <4> QED
        BY <3>3, <4>1
    <3>6. drop[q] = "saving" => zoneDb'[entry[q].media] = Nil
      BY <2>6, <3>1, <3>2 DEF EntryOK
    <3> QED
      BY <2>6, <3>1, <3>2, <3>4, <3>5, <3>6, EntryStays
  <2>7. ASSUME NEW q \in Posts, q # p, entry[q] = Nil PROVE EntryOK(q)'
    BY <2>1, <2>7 DEF Made, Renamed, EntriesOK, EntryOK
  <2> QED
    BY <2>5, <2>6, <2>7 DEF EntriesOK
<1>3. ASSUME NEW p \in Posts, PostWritten(p) PROVE EntriesOK'
  <2>1. PICK m \in Media, f \in Posts, content \in Content : Recorded(p, m, f, content)
    BY <1>3, Recording
  <2>2. entry' = entry /\ written' = written /\ post[p] = "writing" /\ entry[p] # Nil
        /\ m = entry[p].media /\ p \in EntriesOf(m)
    BY <2>1, Written DEF Recorded, EntriesOf
  <2>3. f = file[path(p)] /\ path(p) \in Path /\ f \in Posts /\ file[path(p)] # Nil
    BY <1>0, <2>1, <2>2, NoNil DEF Recorded
  <2>4. EntryOK(p)'
    <3>1. EntryOK(p) /\ path(p)' = path(p)
      BY <1>0, <2>2 DEF path
    <3>2. age'[p] < written'
      BY <2>1, <2>2, <3>1 DEF EntryOK, Recorded
    <3>3. file'[path(p)] = f /\ data'[f] = content /\ zoneDb'[m] = p /\ drop'[p] = "none"
      BY <2>1, <2>2, <2>3, <3>1 DEF Recorded, EntryOK
    <3>4. entry[p].kind = "append" \/ content = {p}
      BY <2>1 DEF Recorded
    <3> QED
      BY <2>1, <2>2, <3>1, <3>2, <3>3, <3>4 DEF EntryOK, Recorded
  <2>5. ASSUME NEW q \in Posts, q # p, entry[q] # Nil PROVE EntryOK(q)'
    <3>1. EntryOK(q) /\ path(q) \in Path /\ path(q)[1] = entry[q].media
          /\ entry[q].media \in Keys /\ q \in Keys /\ q # m
      BY <1>0, <2>5
    <3>2. written <= written' /\ load'[q] = load[q] /\ post'[q] = post[q] /\ drop'[q] = drop[q]
          /\ md5'[q] = md5[q] /\ file' = file /\ zoneDb'[q] = zoneDb[q]
      BY <2>1, <2>2, <2>5, <3>1, Written DEF Recorded
    <3>3. entry[q].media = m => post[q] \in Over /\ drop[q] \in Over
      BY <2>2, <2>5 DEF BusyOK, isBusy, Over
    <3>4. ASSUME post[q] = "saving"
          PROVE  /\ zoneDb'[entry[q].media] = zoneDb[entry[q].media]
                 /\ file[path(q)] # Nil => data'[file'[path(q)]] = data[file[path(q)]]
      <4>1. entry[q].media # m
        BY <3>3, <3>4 DEF Over
      <4>2. path(q) # path(p)
        BY <1>0, <2>2, <3>1, <4>1
      <4>3. file[path(q)] # Nil => file[path(q)] # f
        BY <2>3, <3>1, <4>2, Apart
      <4>4. file[path(q)] \in Posts \cup {Nil}
        BY <3>1 DEF TypeOK
      <4> QED
        BY <2>1, <3>1, <3>2, <4>1, <4>3, <4>4 DEF Recorded
    <3>5. drop[q] = "saving" => zoneDb'[entry[q].media] = Nil
      BY <2>1, <2>5, <3>1, <3>3 DEF Recorded, EntryOK, Over
    <3>6. post[q] = "writing" => file'[path(q)] # Nil
      BY <2>5, <3>1, <3>2 DEF EntryOK
    <3> QED
      BY <2>5, <3>1, <3>2, <3>4, <3>5, <3>6, EntryStays
  <2>6. ASSUME NEW q \in Posts, entry[q] = Nil PROVE EntryOK(q)'
    <3>1. q # f /\ q # p
      BY <2>2, <2>3, <2>6, Apart
    <3> QED
      BY <2>1, <2>2, <2>6, <3>1 DEF Recorded, EntriesOK, EntryOK
  <2> QED
    BY <2>4, <2>5, <2>6 DEF EntriesOK
<1>4. ASSUME NEW p \in Posts, PostSaved(p) \/ PostFails(p) \/ DeleteSaved(p) \/ DeleteFails(p)
                                 \/ LoadLogs(p)
      PROVE  EntriesOK'
  <2>1. UNCHANGED <<entry, zoneDb, age, md5, file, data>>
    BY <1>4, PostSaving, PostFailing, DropSaving, DropFailing, Loading DEF store, disk
  <2>2. \A q \in Posts : load'[q] = "none" <=> load[q] = "none"
    BY <1>4, PostSaving, PostFailing, DropSaving, DropFailing, Loading
  <2>3. \A q \in Posts : load'[q] = "logging" => load[q] = "logging"
    BY <1>4, PostSaving, PostFailing, DropSaving, DropFailing, Loading
  <2>4. \A q \in Posts : post'[q] = "none" <=> post[q] = "none"
    BY <1>4, PostSaving, PostFailing, DropSaving, DropFailing, Loading
  <2>5. \A q \in Posts : post'[q] \in {"writing", "saving"} => post[q] = post'[q]
    BY <1>4, PostSaving, PostFailing, DropSaving, DropFailing, Loading
  <2>6. \A q \in Posts : drop'[q] = "none" <=> drop[q] = "none"
    BY <1>4, PostSaving, PostFailing, DropSaving, DropFailing, Loading
  <2>7. \A q \in Posts : drop'[q] = "saving" => drop[q] = "saving"
    BY <1>4, PostSaving, PostFailing, DropSaving, DropFailing, Loading
  <2>8. written' = written
    BY <2>1, Written
  <2>9. ASSUME NEW q \in Posts PROVE EntryOK(q)'
    <3>1. EntryOK(q) /\ path(q)' = path(q)
      BY <2>1 DEF EntriesOK, path
    <3> QED
      BY <2>1, <2>2, <2>3, <2>4, <2>5, <2>6, <2>7, <2>8, <3>1 DEF EntryOK
  <2> QED
    BY <2>9 DEF EntriesOK
<1>5. ASSUME NEW m \in Media, Delete(m) PROVE EntriesOK'
  <2>1. PICK z \in Posts : Removed(m, z) /\ z \in EntriesOf(m) /\ drop[z] = "none"
    BY <1>5, Deleting
  <2>2. entry[z] # Nil /\ entry[z].media = m /\ z = zoneDb[m] /\ path(z) \in Path /\ path(z)[1] = m
    BY <1>0, <2>1 DEF Removed, EntriesOf
  <2>3. written' = written /\ entry' = entry
    BY <2>1, Written DEF Removed
  <2>4. EntryOK(z)'
    <3>1. EntryOK(z) /\ post[z] \in Over
      BY <2>1, <2>2 DEF Removed, isIdle, EntriesOK
    <3>2. post'[z] = post[z] /\ load'[z] = load[z] /\ md5'[z] = md5[z] /\ age'[z] = age[z]
          /\ zoneDb'[m] = Nil
      BY <2>1 DEF Removed
    <3> QED
      BY <2>2, <2>3, <3>1, <3>2 DEF EntryOK, Over
  <2>5. ASSUME NEW q \in Posts, q # z, entry[q] # Nil PROVE EntryOK(q)'
    <3>1. EntryOK(q) /\ path(q) \in Path /\ path(q)[1] = entry[q].media
          /\ entry[q].media \in Keys /\ q \in Keys /\ q # m /\ q \in EntriesOf(entry[q].media)
      BY <1>0, <2>5
    <3>2. written <= written' /\ load'[q] = load[q] /\ post'[q] = post[q] /\ drop'[q] = drop[q]
          /\ md5'[q] = md5[q] /\ data' = data /\ zoneDb'[q] = zoneDb[q]
      BY <2>1, <2>3, <2>5, <3>1, Written DEF Removed
    <3>3. entry[q].media = m => post[q] \in Over
      BY <2>1, <3>1 DEF Removed, isIdle
    <3>4. ASSUME entry[q].media # m
          PROVE  zoneDb'[entry[q].media] = zoneDb[entry[q].media] /\ file'[path(q)] = file[path(q)]
      BY <2>1, <2>2, <3>1, <3>4 DEF Removed
    <3>5. drop[q] = "saving" => zoneDb'[entry[q].media] = Nil
      BY <2>1, <2>5, <3>1, <3>4 DEF Removed, EntryOK
    <3>6. post[q] = "writing" => file'[path(q)] # Nil
      BY <2>5, <3>1, <3>3, <3>4 DEF EntryOK, Over
    <3>7. post[q] = "saving" => zoneDb'[entry[q].media] = zoneDb[entry[q].media]
                             /\ file'[path(q)] = file[path(q)]
      BY <3>3, <3>4 DEF Over
    <3> QED
      BY <2>5, <3>1, <3>2, <3>5, <3>6, <3>7, EntryStays
  <2>6. ASSUME NEW q \in Posts, entry[q] = Nil PROVE EntryOK(q)'
    <3>1. q # z
      BY <2>2, <2>6
    <3> QED
      BY <2>1, <2>6, <3>1 DEF Removed, EntriesOK, EntryOK
  <2> QED
    BY <2>4, <2>5, <2>6 DEF EntriesOK
<1>6. CASE Reader
  <2>1. UNCHANGED <<entry, zoneDb, age, file, data, load, post, drop>>
    BY <1>6 DEF Reader, SameMedia, store, disk, logs
  <2>2. written' = written
    BY <2>1, Written
  <2>3. \A q \in Posts : load[q] = "logging" \/ post[q] \in {"writing", "saving"} =>
                             md5'[q] = md5[q]
    <3>1. ASSUME NEW g \in Gets, Checked(g), NEW q \in Posts, md5'[q] # md5[q]
          PROVE  load[q] # "logging" /\ post[q] \notin {"writing", "saving"}
      <4>1. wasListed(q)
        BY <3>1, Checking
      <4> QED
        BY <4>1 DEF wasListed, EntriesOK, EntryOK
    <3> QED
      BY <1>6, <3>1 DEF Reader
  <2>4. ASSUME NEW q \in Posts PROVE EntryOK(q)'
    <3>1. EntryOK(q) /\ path(q)' = path(q)
      BY <2>1 DEF EntriesOK, path
    <3> QED
      BY <2>1, <2>2, <2>3, <3>1 DEF EntryOK
  <2> QED
    BY <2>4 DEF EntriesOK
<1> QED
  BY <1>1, <1>2, <1>3, <1>4, <1>5, <1>6 DEF Writer

LEMMA ZoneStep ==
    ASSUME TypeOK, TypeOK', Grows, EntriesOK, ZoneOK, BusyOK, Writer \/ Reader
    PROVE  ZoneOK'
<1>0. /\ \A m \in Media : EntriesOf(m) \subseteq EntriesOf(m)'
      /\ \A p \in Posts : wasListed(p) => wasListed(p)'
      /\ \A m \in Media : m \in Keys /\ m \notin Posts
      /\ \A p \in Posts : p \in Keys /\ p \notin Media /\ p # Nil
      /\ \A k \in Keys : zoneDb[k] \in Posts \cup {Nil}
      /\ \A m \in Media : db[m] \in Posts \cup {Nil}
  BY Grown, NoNil DEF Keys, TypeOK
<1>1. ASSUME NEW p \in Posts, NEW m \in Media, NEW n \in FileNames,
             NEW kind \in {"write", "append"}, Post(p, m, n, kind)
      PROVE  ZoneOK'
  <2>0. PICK f \in Posts : Opened(p, m, n, kind, f)
    BY <1>1, Posting
  <2>1. Made(p, m, n, kind, "writing") /\ UNCHANGED <<zoneDb, db, drop>>
    BY <1>1, <2>0, Posting DEF Opened
  <2>2. \A k \in Keys : zoneDb[k] # p
    BY <1>0, <2>1 DEF Made, ZoneOK
  <2> QED
    BY <1>0, <2>1, <2>2 DEF ZoneOK, Made
<1>2. ASSUME NEW p \in Posts, NEW m \in Media, NEW n \in FileNames, Commit(p, m, n)
      PROVE  ZoneOK'
  <2>1. Made(p, m, n, "commit", "saving") /\ Renamed(p, m, n)
    BY <1>2, Committing
  <2>2. \A k \in Keys : zoneDb[k] # p
    BY <1>0, <2>1 DEF Made, ZoneOK
  <2>3. \A o \in Media : zoneDb'[o] = zoneDb[o] /\ db'[o] = db[o]
    BY <1>0, <2>1 DEF Renamed
  <2>4. \A q \in Posts : zoneDb'[q] # Nil => zoneDb'[q] = q
    BY <1>0, <2>1 DEF Renamed, ZoneOK
  <2>5. \A k \in Keys : zoneDb'[k] # Nil => entry'[zoneDb'[k]] # Nil /\ post'[zoneDb'[k]] # "writing"
    BY <1>0, <2>1, <2>2 DEF Renamed, Made, ZoneOK
  <2> QED
    BY <1>0, <2>1, <2>3, <2>4, <2>5 DEF ZoneOK, Renamed
<1>3. ASSUME NEW p \in Posts, PostWritten(p) PROVE ZoneOK'
  <2>1. PICK m \in Media, f \in Posts, content \in Content : Recorded(p, m, f, content)
    BY <1>3, Recording
  <2>2. entry[p] # Nil /\ drop[p] = "none" /\ p \in EntriesOf(m)
    BY <2>1 DEF Recorded, EntriesOf, EntriesOK, EntryOK
  <2>3. UNCHANGED <<entry, db, drop>> /\ zoneDb'[m] = p /\ post'[p] = "saving"
        /\ (\A k \in Keys \ {m} : zoneDb'[k] = zoneDb[k]) /\ \A q \in Posts \ {p} : post'[q] = post[q]
    BY <2>1 DEF Recorded
  <2> QED
    BY <1>0, <2>2, <2>3 DEF ZoneOK
<1>4. ASSUME NEW p \in Posts, PostSaved(p) PROVE ZoneOK'
  <2>1. PICK m \in Media : p \in EntriesOf(m) /\ ListedFor(m, p)
    BY <1>4, PostSaving
  <2>2. post[p] = "saving" /\ post'[p] = "done" /\ (\A q \in Posts \ {p} : post'[q] = post[q])
        /\ UNCHANGED <<entry, zoneDb, drop>>
    BY <1>4, PostSaving DEF store
  <2>3. wasListed(p)'
    BY <2>1, <2>2 DEF wasListed, EntriesOf
  <2>4. \A o \in Media, x \in Posts :
           db'[o] = x => x \in EntriesOf(o)' /\ entry'[x] # Nil /\ (load'[x] = "done" \/ post'[x] = "done")
    <3> SUFFICES ASSUME NEW o \in Media, NEW x \in Posts, db'[o] = x
                 PROVE  x \in EntriesOf(o)' /\ wasListed(x)'
      BY DEF wasListed
    <3> QED
      BY <1>0, <2>1, <2>3 DEF ListedFor, ZoneOK
  <2>5. \A o \in Media : db'[o] \in Posts \cup {Nil}
    BY DEF TypeOK
  <2> QED
    BY <1>0, <2>2, <2>4, <2>5 DEF ZoneOK, wasListed
<1>5. ASSUME NEW p \in Posts, PostFails(p) \/ DeleteFails(p) PROVE ZoneOK'
  <2>1. UNCHANGED <<entry, zoneDb, db>>
    BY <1>5, PostFailing, DropFailing DEF store
  <2>2. \A q \in Posts : post'[q] = "writing" => post[q] = "writing"
    BY <1>5, PostFailing, DropFailing
  <2>3. \A q \in Posts : drop[q] = "none" => drop'[q] = "none"
    BY <1>5, PostFailing, DropFailing
  <2> QED
    BY <1>0, <2>1, <2>2, <2>3 DEF ZoneOK
<1>6. ASSUME NEW m \in Media, Delete(m) PROVE ZoneOK'
  <2>1. PICK z \in Posts : Removed(m, z) /\ z \in EntriesOf(m) /\ drop[z] = "none"
    BY <1>6, Deleting
  <2>2. \A o \in Media : o # m => zoneDb[o] # z
    BY <1>0, <2>1 DEF ZoneOK, EntriesOf
  <2>3. UNCHANGED <<entry, db, post>> /\ zoneDb'[m] = Nil
        /\ (\A k \in Keys \ {m} : zoneDb'[k] = zoneDb[k]) /\ \A q \in Posts \ {z} : drop'[q] = drop[q]
    BY <2>1 DEF Removed
  <2>4. \A o \in Media : zoneDb'[o] # Nil => zoneDb'[o] \in EntriesOf(o)' /\ drop'[zoneDb'[o]] = "none"
    BY <1>0, <2>2, <2>3 DEF ZoneOK
  <2>5. \A k \in Keys : zoneDb'[k] = Nil \/ zoneDb'[k] = zoneDb[k]
    BY <2>3
  <2> QED
    BY <1>0, <2>3, <2>4, <2>5 DEF ZoneOK
<1>7. ASSUME NEW p \in Posts, DeleteSaved(p) PROVE ZoneOK'
  <2>1. PICK m \in Media : ListedFor(m, Nil)
    BY <1>7, DropSaving
  <2>2. (\A q \in Posts : drop[q] = "none" => drop'[q] = "none") /\ UNCHANGED <<entry, zoneDb, post>>
    BY <1>7, DropSaving DEF store
  <2> QED
    BY <1>0, <2>1, <2>2 DEF ZoneOK, ListedFor
<1>8. ASSUME NEW p \in Posts, LoadLogs(p) PROVE ZoneOK'
  <2>1. PICK m \in Media : p \in EntriesOf(m) /\ db'[m] = p /\ \A o \in Media \ {m} : db'[o] = db[o]
    BY <1>8, Loading
  <2>2. load'[p] = "done" /\ UNCHANGED <<entry, zoneDb, post, drop>>
    BY <1>8, Loading DEF store
  <2>3. wasListed(p)'
    BY <2>1, <2>2 DEF wasListed, EntriesOf
  <2>4. \A o \in Media, x \in Posts :
           db'[o] = x => x \in EntriesOf(o)' /\ entry'[x] # Nil /\ (load'[x] = "done" \/ post'[x] = "done")
    <3> SUFFICES ASSUME NEW o \in Media, NEW x \in Posts, db'[o] = x
                 PROVE  x \in EntriesOf(o)' /\ wasListed(x)'
      BY DEF wasListed
    <3> QED
      BY <1>0, <2>1, <2>3 DEF ZoneOK
  <2>5. \A o \in Media : db'[o] \in Posts \cup {Nil}
    BY DEF TypeOK
  <2> QED
    BY <1>0, <2>2, <2>4, <2>5 DEF ZoneOK, wasListed
<1>9. CASE Reader
  <2>1. UNCHANGED <<entry, zoneDb, db, load, post, drop>>
    BY <1>9 DEF Reader, SameMedia, store, logs
  <2> QED
    BY <1>0, <2>1 DEF ZoneOK
<1> QED
  BY <1>1, <1>2, <1>3, <1>4, <1>5, <1>6, <1>7, <1>8, <1>9 DEF Writer

LEMMA BusyStep ==
    ASSUME TypeOK, TypeOK', Grows, EntriesOK, ZoneOK, BusyOK, Writer \/ Reader
    PROVE  BusyOK'
<1>0. SUFFICES ASSUME NEW p \in Posts, NEW q \in Posts, entry'[p] # Nil, entry'[q] # Nil,
                      entry'[p].media = entry'[q].media
               PROVE  /\ (post'[p] \notin Over \/ drop'[p] \notin Over)
                             /\ (post'[q] \notin Over \/ drop'[q] \notin Over) => p = q
                      /\ post'[p] \in Over \/ drop'[p] \in Over
                      /\ post'[p] \notin Over => age'[q] <= age'[p]
  BY DEF BusyOK, isBusy
<1> DEFINE old ==
        /\ (post[p] \notin Over \/ drop[p] \notin Over)
               /\ (post[q] \notin Over \/ drop[q] \notin Over) => p = q
        /\ post[p] \in Over \/ drop[p] \in Over
        /\ post[p] \notin Over => age[q] <= age[p]
<1>1. entry[p] # Nil /\ entry[q] # Nil =>
          old /\ age'[p] = age[p] /\ age'[q] = age[q] /\ entry[p].media = entry[q].media
  BY <1>0 DEF BusyOK, isBusy, Grows
<1>2. ASSUME NEW x \in Posts, NEW m \in Media, NEW n \in FileNames, NEW kind \in Kind,
             NEW step \in {"writing", "saving"}, Made(x, m, n, kind, step), UNCHANGED drop
      PROVE  /\ (post'[p] \notin Over \/ drop'[p] \notin Over)
                    /\ (post'[q] \notin Over \/ drop'[q] \notin Over) => p = q
             /\ post'[p] \in Over \/ drop'[p] \in Over
             /\ post'[p] \notin Over => age'[q] <= age'[p]
  <2>1. \A y \in Posts : entry[y] # Nil /\ entry[y].media = m => post[y] \in Over /\ drop[y] \in Over
    BY <1>2 DEF Made, isIdle, EntriesOf
  <2>2. drop[x] = "none" /\ entry[x] = Nil
    BY <1>2 DEF Made, EntriesOK, EntryOK
  <2>3. CASE p = x /\ q = x
    <3>1. age'[q] \in Nat
      BY DEF TypeOK
    <3> QED
      BY <1>2, <2>2, <2>3, <3>1 DEF Over
  <2>4. CASE p = x /\ q # x
    <3>1. entry[q] # Nil /\ entry[q].media = m /\ post'[q] = post[q] /\ age'[q] = age[q]
      BY <1>0, <1>2, <2>4 DEF Made
    <3>2. age'[q] < written /\ age'[p] = written /\ written \in Nat /\ age'[q] \in Nat
      BY <1>2, <2>4, <3>1 DEF Made, EntriesOK, EntryOK, TypeOK
    <3>3. post'[q] \in Over /\ drop'[q] \in Over /\ drop'[p] \in Over
      BY <1>2, <2>1, <2>2, <2>4, <3>1 DEF Over
    <3> QED
      BY <3>2, <3>3
  <2>5. CASE p # x /\ q = x
    <3>1. entry[p] # Nil /\ entry[p].media = m /\ post'[p] = post[p] /\ drop'[p] = drop[p]
      BY <1>0, <1>2, <2>5 DEF Made
    <3> QED
      BY <2>1, <3>1
  <2>6. CASE p # x /\ q # x
    <3>1. entry[p] # Nil /\ entry[q] # Nil /\ post'[p] = post[p] /\ post'[q] = post[q]
      BY <1>0, <1>2, <2>6 DEF Made
    <3> QED
      BY <1>1, <1>2, <3>1
  <2> QED
    BY <2>3, <2>4, <2>5, <2>6
<1>3. ASSUME \A y \in Posts :
                /\ entry[y] = Nil <=> entry'[y] = Nil
                /\ post'[y] \notin Over => post[y] \notin Over
                /\ drop'[y] \notin Over => drop[y] \notin Over
      PROVE  /\ (post'[p] \notin Over \/ drop'[p] \notin Over)
                    /\ (post'[q] \notin Over \/ drop'[q] \notin Over) => p = q
             /\ post'[p] \in Over \/ drop'[p] \in Over
             /\ post'[p] \notin Over => age'[q] <= age'[p]
  BY <1>0, <1>1, <1>3
<1>4. ASSUME NEW x \in Posts, NEW m \in Media, NEW n \in FileNames, Commit(x, m, n)
      PROVE  Made(x, m, n, "commit", "saving") /\ UNCHANGED drop
  BY <1>4, Committing DEF Renamed
<1>5. ASSUME NEW x \in Posts, NEW m \in Media, NEW n \in FileNames,
             NEW kind \in {"write", "append"}, Post(x, m, n, kind)
      PROVE  Made(x, m, n, kind, "writing") /\ UNCHANGED drop
  <2>1. PICK f \in Posts : Opened(x, m, n, kind, f)
    BY <1>5, Posting
  <2> QED
    BY <1>5, <2>1, Posting DEF Opened
<1>6. ASSUME NEW m \in Media, Delete(m)
      PROVE  /\ (post'[p] \notin Over \/ drop'[p] \notin Over)
                    /\ (post'[q] \notin Over \/ drop'[q] \notin Over) => p = q
             /\ post'[p] \in Over \/ drop'[p] \in Over
             /\ post'[p] \notin Over => age'[q] <= age'[p]
  <2>1. PICK z \in Posts : Removed(m, z) /\ z \in EntriesOf(m)
    BY <1>6, Deleting
  <2>2. \A y \in Posts : entry[y] # Nil /\ entry[y].media = m => post[y] \in Over /\ drop[y] \in Over
    BY <2>1 DEF Removed, isIdle, EntriesOf
  <2>3. entry' = entry /\ post' = post /\ \A y \in Posts \ {z} : drop'[y] = drop[y]
    BY <2>1 DEF Removed
  <2>4. entry[z].media = m /\ entry[z] # Nil
    BY <2>1 DEF EntriesOf
  <2>5. p = z \/ q = z => post[p] \in Over /\ post[q] \in Over
                             /\ (p # z => drop'[p] \in Over) /\ (q # z => drop'[q] \in Over)
    BY <1>0, <2>2, <2>3, <2>4
  <2> QED
    BY <1>0, <1>1, <2>3, <2>5
<1>7. ASSUME NEW x \in Posts,
             LoadLogs(x) \/ PostWritten(x) \/ PostSaved(x) \/ PostFails(x)
                \/ DeleteSaved(x) \/ DeleteFails(x)
      PROVE  \A y \in Posts :
                /\ entry[y] = Nil <=> entry'[y] = Nil
                /\ post'[y] \notin Over => post[y] \notin Over
                /\ drop'[y] \notin Over => drop[y] \notin Over
  <2>1. CASE PostWritten(x)
    <3>1. PICK m \in Media, f \in Posts, content \in Content : Recorded(x, m, f, content)
      BY <2>1, Recording
    <3> QED
      BY <3>1 DEF Recorded, Over
  <2>2. CASE LoadLogs(x)
    BY <2>2, Loading DEF store
  <2>3. CASE PostSaved(x)
    BY <2>3, PostSaving DEF store, Over
  <2>4. CASE PostFails(x)
    BY <2>4, PostFailing DEF store, Over
  <2>5. CASE DeleteSaved(x)
    BY <2>5, DropSaving DEF store, Over
  <2>6. CASE DeleteFails(x)
    BY <2>6, DropFailing DEF store, Over
  <2> QED
    BY <1>7, <2>1, <2>2, <2>3, <2>4, <2>5, <2>6
<1>8. Reader => \A y \in Posts :
                /\ entry[y] = Nil <=> entry'[y] = Nil
                /\ post'[y] \notin Over => post[y] \notin Over
                /\ drop'[y] \notin Over => drop[y] \notin Over
  BY DEF Reader, SameMedia, store, logs
<1>9. "commit" \in Kind /\ \A kind \in {"write", "append"} : kind \in Kind
  BY DEF Kind
<1> HIDE DEF old
<1>10. ASSUME NEW x \in Posts, NEW m \in Media, NEW n \in FileNames,
              Commit(x, m, n) \/ \E kind \in {"write", "append"} : Post(x, m, n, kind)
       PROVE  /\ (post'[p] \notin Over \/ drop'[p] \notin Over)
                    /\ (post'[q] \notin Over \/ drop'[q] \notin Over) => p = q
              /\ post'[p] \in Over \/ drop'[p] \in Over
              /\ post'[p] \notin Over => age'[q] <= age'[p]
  <2>1. PICK kind \in Kind, step \in {"writing", "saving"} :
           Made(x, m, n, kind, step) /\ UNCHANGED drop
    BY <1>4, <1>5, <1>9, <1>10
  <2> QED
    BY <1>2, <2>1
<1> QED
  BY <1>3, <1>6, <1>7, <1>8, <1>10 DEF Writer

(***************************************************************************)
(* Files.                                                                  *)
(***************************************************************************)

LEMMA NamedBy ==
    ASSUME NEW s \in Path, NEW f, f = file'[s], NEW content, content = data'[f],
           f # Nil => entry'[f] # Nil /\ path(f)' = s /\ isOf(content, s)'
    PROVE  NamedOK(s)'
<1>1. ASSUME f # Nil PROVE entry'[file'[s]] # Nil /\ path(file[s])' = s
  BY <1>1 DEF path
<1>2. ASSUME f # Nil PROVE isOf(data[file[s]], s)'
  BY <1>2 DEF isOf, path, inPlace
<1> QED
  BY <1>1, <1>2 DEF NamedOK

LEMMA PostedBy ==
    ASSUME NEW q \in Posts, NEW s, s = path(q)', NEW f, f = file'[s], NEW content, content = data'[f],
           NEW m, m = entry'[q].media,
           entry'[q] # Nil /\ post'[q] # "writing" =>
              /\ f = Nil => isGone(m)'
              /\ f # Nil => content = {} \/ \E x \in content : age'[q] <= age'[x]
    PROVE  PostedOK(q)'
<1>1. isGone(m)' => isGone(entry[q].media)'
  BY DEF isGone, EntriesOf
<1> QED
  BY <1>1 DEF PostedOK

\* A path and its file that a step leaves alone.
LEMMA NamedStays ==
    ASSUME TypeOK, TypeOK', Grows, FilesOK, NEW s \in Path, file'[s] = file[s],
           file[s] # Nil => data'[file[s]] = data[file[s]]
    PROVE  NamedOK(s)'
<1>1. PICK f : f = file[s]
  OBVIOUS
<1>2. PICK content : content = data[f]
  OBVIOUS
<1>3. CASE f = Nil
  BY <1>1, <1>3 DEF NamedOK
<1>4. CASE f # Nil
  <2>1. f \in Posts /\ content \in Content /\ entry[f] # Nil /\ path(f) = s /\ isOf(content, s)
    BY <1>1, <1>2, <1>4 DEF TypeOK, FilesOK, NamedOK
  <2>2. path(f)' = s /\ entry'[f] # Nil
    BY <2>1, Grown DEF Grows
  <2>3. isOf(content, s)'
    BY <2>1, Grown
  <2>4. f = file'[s] /\ content = data'[f]
    BY <1>1, <1>2, <1>4
  <2> QED
    BY <2>2, <2>3, <2>4, NamedBy
<1> QED
  BY <1>3, <1>4

LEMMA PostedStays ==
    ASSUME TypeOK, TypeOK', Grows, FilesOK, NEW q \in Posts, entry[q] # Nil,
           post'[q] # "writing" => post[q] # "writing",
           NEW s \in Path, s = path(q), file'[s] = file[s],
           file[s] # Nil => data'[file[s]] = data[file[s]]
    PROVE  PostedOK(q)'
<1>1. PICK f : f = file[s]
  OBVIOUS
<1>2. PICK content : content = data[f]
  OBVIOUS
<1>3. PICK m : m = entry[q].media
  OBVIOUS
<1>4. m \in Media /\ path(q)' = s /\ entry'[q].media = m /\ age'[q] = age[q]
  BY <1>3, Grown, Paths DEF Grows
<1>5. PostedOK(q)
  BY DEF FilesOK
<1>6. CASE f = Nil
  <2>1. post[q] # "writing" => isGone(m)'
    BY <1>1, <1>3, <1>4, <1>5, <1>6, Grown DEF PostedOK
  <2>2. PICK c : c = data'[f]
    OBVIOUS
  <2> QED
    BY <1>1, <1>4, <1>6, <2>1, <2>2, PostedBy
<1>7. CASE f # Nil
  <2>1. f \in Posts /\ content \in Content /\ isOf(content, s)
    BY <1>1, <1>2, <1>7 DEF TypeOK, FilesOK, NamedOK
  <2>2. \A x \in content : x \in Posts /\ age'[x] = age[x]
    BY <2>1 DEF isOf, Grows, Content
  <2>3. post[q] # "writing" => content = {} \/ \E x \in content : age'[q] <= age'[x]
    BY <1>1, <1>2, <1>4, <1>5, <1>7, <2>2 DEF PostedOK
  <2>4. f = file'[s] /\ content = data'[f]
    BY <1>1, <1>2, <1>7
  <2> QED
    BY <1>4, <1>7, <2>3, <2>4, PostedBy
<1> QED
  BY <1>6, <1>7

\* What a step leaves that touches one path at most, and one file.
LEMMA OtherFiles ==
    ASSUME TypeOK, TypeOK', Grows, FilesOK, NEW s \in Path, NEW f \in Posts,
           f = file[s] \/ (f \in Posts /\ entry[f] = Nil),
           \A t \in Path : t # s => file'[t] = file[t],
           \A x \in Posts \ {f} : data'[x] = data[x]
    PROVE  \A t \in Path \ {s} : file'[t] = file[t] /\ (file[t] # Nil => data'[file[t]] = data[file[t]])
<1> SUFFICES ASSUME NEW t \in Path, t # s, file[t] # Nil PROVE data'[file[t]] = data[file[t]]
  OBVIOUS
<1>1. file[t] # f /\ file[t] \in Posts
  BY Apart DEF TypeOK
<1> QED
  BY <1>1

LEMMA FilesStep ==
    ASSUME TypeOK, TypeOK', Grows, EntriesOK, ZoneOK, BusyOK, FilesOK, Writer \/ Reader
    PROVE  FilesOK'
<1>0. \A q \in Posts : entry[q] # Nil => path(q) \in Path /\ path(q)[1] = entry[q].media
                         /\ path(q)' = path(q) /\ entry'[q].media = entry[q].media
                         /\ entry[q].media \in Media /\ age'[q] = age[q]
                         /\ q \in EntriesOf(entry[q].media)
  BY Paths, Grown DEF Grows, EntriesOf
<1>1. ASSUME NEW p \in Posts, NEW m \in Media, NEW n \in FileNames,
             NEW kind \in {"write", "append"}, Post(p, m, n, kind)
      PROVE  FilesOK'
  <2>1. Made(p, m, n, kind, "writing")
    BY <1>1, Posting
  <2>2. PICK f \in Posts : Opened(p, m, n, kind, f)
    BY <1>1, Posting
  <2>3. PICK s : s = <<m, n>>
    OBVIOUS
  <2>4. /\ s \in Path /\ path(p)' = s /\ entry'[p] # Nil /\ entry'[p].kind \in {"write", "append"}
        /\ entry[p] = Nil /\ post'[p] = "writing" /\ file'[s] = f
        /\ f = IF file[s] = Nil THEN p ELSE file[s]
        /\ data'[f] = IF kind = "append" THEN data[f] ELSE {}
    BY <2>1, <2>2, <2>3 DEF Made, Opened
  <2>5. \A t \in Path \ {s} : file'[t] = file[t] /\ (file[t] # Nil => data'[file[t]] = data[file[t]])
    BY <2>2, <2>3, <2>4, OtherFiles DEF Opened
  <2>6. inPlace(s)'
    BY <2>4 DEF inPlace
  <2>7. NamedOK(s)'
    <3>1. PICK content : content = data'[f]
      OBVIOUS
    <3>2. isOf({}, s)'
      BY <2>6 DEF isOf
    <3>3. entry'[f] # Nil /\ path(f)' = s
      <4>1. CASE f = p
        BY <2>4, <4>1
      <4>2. CASE f # p
        BY <1>0, <2>4, <4>2 DEF FilesOK, NamedOK, Grows
      <4> QED
        BY <4>1, <4>2
    <3>4. isOf(content, s)'
      <4>1. CASE content = {}
        BY <3>2, <4>1
      <4>2. CASE content # {}
        <5>1. content = data[f] /\ f # p
          BY <2>4, <3>1, <4>2 DEF EntriesOK, EntryOK
        <5>2. f = file[s] /\ file[s] # Nil
          BY <2>4, <5>1
        <5>3. isOf(content, s) /\ content \in Content
          BY <2>4, <5>1, <5>2 DEF FilesOK, NamedOK, TypeOK
        <5> QED
          BY <2>4, <5>3, Grown
      <4> QED
        BY <4>1, <4>2
    <3> QED
      BY <2>4, <3>1, <3>3, <3>4, NamedBy
  <2>8. ASSUME NEW q \in Posts PROVE PostedOK(q)'
    <3>1. CASE q = p
      BY <2>4, <3>1 DEF PostedOK
    <3>2. CASE q # p /\ entry[q] = Nil
      BY <2>1, <3>2 DEF Made, PostedOK
    <3>3. CASE q # p /\ entry[q] # Nil /\ path(q) # s
      <4>1. post'[q] = post[q] /\ path(q) \in Path
        BY <1>0, <2>1, <3>3 DEF Made
      <4> QED
        BY <2>5, <3>3, <4>1, PostedStays
    <3>4. CASE q # p /\ entry[q] # Nil /\ path(q) = s
      <4>1. PICK content : content = data'[f]
        OBVIOUS
      <4>2. PICK o : o = entry[q].media
        OBVIOUS
      <4>3. post'[q] = post[q] /\ path(q)' = s /\ entry'[q].media = o /\ f # Nil
        BY <1>0, <2>1, <3>4, <4>2, NoNil DEF Made
      <4>4. ASSUME content # {}, post[q] # "writing"
            PROVE  \E x \in content : age'[q] <= age'[x]
        <5>1. content = data[f] /\ f # p
          BY <2>4, <4>1, <4>4 DEF EntriesOK, EntryOK
        <5>2. f = file[s] /\ file[s] # Nil
          BY <2>4, <5>1
        <5>3. \E x \in content : age[q] <= age[x]
          BY <3>4, <4>4, <5>1, <5>2 DEF FilesOK, PostedOK
        <5>4. \A x \in content : x \in Posts /\ entry[x] # Nil
          BY <2>4, <5>1, <5>2 DEF FilesOK, NamedOK, isOf, TypeOK, Content
        <5> QED
          BY <1>0, <3>4, <5>3, <5>4
      <4> QED
        BY <2>4, <4>1, <4>2, <4>3, <4>4, PostedBy
    <3> QED
      BY <3>1, <3>2, <3>3, <3>4
  <2>9. ASSUME NEW t \in Path, t # s PROVE NamedOK(t)'
    BY <2>5, <2>9, NamedStays
  <2> QED
    BY <2>7, <2>8, <2>9 DEF FilesOK
<1>2. ASSUME NEW p \in Posts, NEW m \in Media, NEW n \in FileNames, Commit(p, m, n)
      PROVE  FilesOK'
  <2>1. Made(p, m, n, "commit", "saving") /\ Renamed(p, m, n)
    BY <1>2, Committing
  <2>3. PICK s : s = <<m, n>>
    OBVIOUS
  <2>4. /\ s \in Path /\ path(p)' = s /\ entry'[p] # Nil /\ entry[p] = Nil /\ file'[s] = p
        /\ data'[p] = {p} /\ age'[p] = written /\ written \in Nat
    BY <2>1, <2>3 DEF Made, Renamed
  <2>5. \A t \in Path \ {s} : file'[t] = file[t] /\ (file[t] # Nil => data'[file[t]] = data[file[t]])
    BY <2>1, <2>3, <2>4, OtherFiles DEF Renamed
  <2>6. isOf({p}, s)'
    BY <2>4 DEF isOf
  <2>7. NamedOK(s)'
    BY <2>4, <2>6, NamedBy
  <2>8. ASSUME NEW q \in Posts PROVE PostedOK(q)'
    <3>1. CASE entry'[q] = Nil
      BY <3>1 DEF PostedOK
    <3>2. CASE entry'[q] # Nil /\ path(q)' # s
      <4>1. post'[q] = post[q] /\ path(q) \in Path /\ path(q)' = path(q) /\ entry[q] # Nil
        BY <1>0, <2>1, <2>4, <3>2 DEF Made
      <4> QED
        BY <2>5, <3>2, <4>1, PostedStays
    <3>3. CASE entry'[q] # Nil /\ path(q)' = s
      <4>1. PICK o : o = entry'[q].media
        OBVIOUS
      <4>2. age'[q] <= age'[p]
        <5>1. CASE q = p
          BY <2>4, <5>1
        <5>2. CASE q # p
          <6>1. entry[q] # Nil /\ age'[q] = age[q] /\ age[q] \in Nat
            BY <2>1, <3>3, <5>2 DEF Made, TypeOK
          <6> QED
            BY <2>4, <6>1 DEF EntriesOK, EntryOK
        <5> QED
          BY <5>1, <5>2
      <4> QED
        BY <2>4, <3>3, <4>1, <4>2, NoNil, PostedBy
    <3> QED
      BY <3>1, <3>2, <3>3
  <2>9. ASSUME NEW t \in Path, t # s PROVE NamedOK(t)'
    BY <2>5, <2>9, NamedStays
  <2> QED
    BY <2>7, <2>8, <2>9 DEF FilesOK
<1>3. ASSUME NEW p \in Posts, PostWritten(p) PROVE FilesOK'
  <2>1. PICK m \in Media, f \in Posts, content \in Content : Recorded(p, m, f, content)
    BY <1>3, Recording
  <2>2. entry' = entry /\ file' = file /\ entry[p] # Nil /\ post[p] = "writing"
    BY <2>1 DEF Recorded, EntriesOf
  <2>3. PICK s : s = path(p)
    OBVIOUS
  <2>4. s \in Path /\ f = file[s] /\ f # Nil /\ entry[f] # Nil /\ path(f) = s /\ isOf(data[f], s)
        /\ data'[f] = content /\ file'[s] = f
    BY <1>0, <2>1, <2>2, <2>3, NoNil DEF Recorded, FilesOK, NamedOK
  <2>5. \A t \in Path \ {s} : file'[t] = file[t] /\ (file[t] # Nil => data'[file[t]] = data[file[t]])
    BY <2>1, <2>2, <2>4, OtherFiles DEF Recorded
  <2>6. p \in content /\ content \subseteq data[f] \cup {p}
    BY <2>1 DEF Recorded
  <2>7. isOf(content, s)'
    <3>1. \A x \in data[f] : x \in Posts /\ entry[x] # Nil /\ path(x) = s
      BY <2>4 DEF isOf, TypeOK, Content
    <3>2. \A x \in content : entry'[x] # Nil /\ path(x)' = s
      BY <1>0, <2>2, <2>3, <2>6, <3>1
    <3> QED
      BY <2>6, <3>2 DEF isOf
  <2>8. NamedOK(s)'
    BY <1>0, <2>2, <2>4, <2>7, NamedBy
  <2>9. ASSUME NEW q \in Posts PROVE PostedOK(q)'
    <3>1. CASE entry[q] = Nil
      BY <2>2, <3>1 DEF PostedOK
    <3>2. CASE entry[q] # Nil /\ path(q) # s
      <4>1. post'[q] # "writing" => post[q] # "writing"
        BY <2>3, <3>2, <2>1 DEF Recorded
      <4>2. path(q) \in Path
        BY <1>0, <3>2
      <4> QED
        BY <2>5, <3>2, <4>1, <4>2, PostedStays
    <3>3. CASE entry[q] # Nil /\ path(q) = s
      <4>1. PICK o : o = entry'[q].media
        OBVIOUS
      <4>2. entry[q].media = entry[p].media
        BY <1>0, <2>2, <2>3, <3>3
      <4>3. age[q] <= age[p]
        BY <2>2, <3>3, <4>2 DEF BusyOK, Over
      <4>4. age'[q] <= age'[p]
        BY <1>0, <2>2, <3>3, <4>3
      <4>5. path(q)' = s
        BY <1>0, <3>3
      <4> QED
        BY <2>4, <2>6, <4>1, <4>4, <4>5, PostedBy
    <3> QED
      BY <3>1, <3>2, <3>3
  <2>10. ASSUME NEW t \in Path, t # s PROVE NamedOK(t)'
    BY <2>5, <2>10, NamedStays
  <2> QED
    BY <2>8, <2>9, <2>10 DEF FilesOK
<1>4. ASSUME UNCHANGED <<entry, file, data>>,
             \A q \in Posts : post'[q] # "writing" => post[q] # "writing"
      PROVE  FilesOK'
  <2>1. ASSUME NEW s \in Path PROVE NamedOK(s)'
    BY <1>4, NamedStays
  <2>2. ASSUME NEW q \in Posts, entry[q] # Nil PROVE PostedOK(q)'
    <3>1. path(q) \in Path
      BY <1>0, <2>2
    <3> QED
      BY <1>4, <2>2, <3>1, PostedStays
  <2>3. ASSUME NEW q \in Posts, entry[q] = Nil PROVE PostedOK(q)'
    BY <1>4, <2>3 DEF PostedOK
  <2> QED
    BY <2>1, <2>2, <2>3 DEF FilesOK
<1>5. ASSUME NEW p \in Posts, PostSaved(p) \/ PostFails(p) \/ DeleteSaved(p) \/ DeleteFails(p)
                                 \/ LoadLogs(p)
      PROVE  FilesOK'
  <2>1. UNCHANGED <<entry, file, data>>
    BY <1>5, PostSaving, PostFailing, DropSaving, DropFailing, Loading DEF store, disk
  <2>2. \A q \in Posts : post'[q] # "writing" => post[q] # "writing"
    BY <1>5, PostSaving, PostFailing, DropSaving, DropFailing, Loading
  <2> QED
    BY <1>4, <2>1, <2>2
<1>6. ASSUME NEW m \in Media, Delete(m) PROVE FilesOK'
  <2>1. PICK z \in Posts : Removed(m, z) /\ z \in EntriesOf(m)
    BY <1>6, Deleting
  <2>2. PICK s : s = path(z)
    OBVIOUS
  <2>3. s \in Path /\ s[1] = m /\ file'[s] = Nil /\ entry' = entry /\ data' = data /\ post' = post
        /\ \A t \in Path : t # s => file'[t] = file[t]
    BY <1>0, <2>1, <2>2 DEF Removed, EntriesOf
  <2>4. isGone(m)'
    <3>1. z \in EntriesOf(m)' /\ drop'[z] # "none"
      BY <2>1, <2>3 DEF Removed, EntriesOf
    <3> QED
      BY <3>1 DEF isGone
  <2>5. ASSUME NEW q \in Posts PROVE PostedOK(q)'
    <3>1. CASE entry[q] = Nil
      BY <2>3, <3>1 DEF PostedOK
    <3>2. CASE entry[q] # Nil /\ path(q) # s
      <4>1. path(q) \in Path
        BY <1>0, <3>2
      <4> QED
        BY <2>3, <3>2, <4>1, PostedStays
    <3>3. CASE entry[q] # Nil /\ path(q) = s
      <4>1. path(q)' = s /\ entry'[q].media = m
        BY <1>0, <2>3, <3>3
      <4>2. PICK c : c = data'[Nil]
        OBVIOUS
      <4> QED
        BY <2>3, <2>4, <4>1, <4>2, PostedBy
    <3> QED
      BY <3>1, <3>2, <3>3
  <2>6. ASSUME NEW t \in Path PROVE NamedOK(t)'
    <3>1. CASE t = s
      BY <2>3, <3>1 DEF NamedOK
    <3>2. CASE t # s
      BY <2>3, <3>2, NamedStays
    <3> QED
      BY <3>1, <3>2
  <2> QED
    BY <2>5, <2>6 DEF FilesOK
<1>7. CASE Reader
  <2>1. UNCHANGED <<entry, file, data, post>>
    BY <1>7 DEF Reader, SameMedia, store, disk, logs
  <2> QED
    BY <1>4, <2>1
<1> QED
  BY <1>1, <1>2, <1>3, <1>5, <1>6, <1>7 DEF Writer

(***************************************************************************)
(* What the database lists.                                                *)
(***************************************************************************)

LEMMA ListedIf ==
    ASSUME NEW m \in Media, NEW E, E = EntriesOf(m)', NEW e, e = db'[m], NEW z, z = zoneDb'[m],
           (\E p \in E : load'[p] = "logging") => \A p \in E : post'[p] # "done",
           e # Nil => \A p \in E : post'[p] = "done" => age'[p] <= age'[e],
           e = Nil /\ (\A p \in E : load'[p] # "logging") =>
               z = Nil \/ post'[z] \in {"failed", "saving"},
           \A p \in E : p = e \/ load'[p] = "logging" =>
               \/ \E k \in Keys : zoneDb'[k] = p
               \/ isUnsaved(p)'
               \/ isDoubled(p)'
               \/ z # Nil /\ post'[z] = "saving"
               \/ drop'[p] = "saving"
    PROVE  ListedAt(m)'
<1>1. isLoading(m)' => Listed(m)' = {}
  BY DEF isLoading, Listed
<1>2. db'[m] # Nil => \A p \in Listed(m)' : age'[p] <= age'[db'[m]]
  BY DEF Listed
<1>3. db'[m] = Nil /\ ~isLoading(m)' => zoneDb'[m] = Nil \/ post'[zoneDb'[m]] \in {"failed", "saving"}
  BY DEF isLoading
<1> QED
  BY <1>1, <1>2, <1>3 DEF ListedAt

\* What ListedAt says, in the terms of ListedIf.
LEMMA ListedThen ==
    ASSUME NEW m \in Media, ListedAt(m), NEW E, E = EntriesOf(m)
    PROVE  /\ (\E p \in E : load[p] = "logging") => \A p \in E : post[p] # "done"
           /\ db[m] # Nil => \A p \in E : post[p] = "done" => age[p] <= age[db[m]]
           /\ db[m] = Nil /\ (\A p \in E : load[p] # "logging") =>
                  zoneDb[m] = Nil \/ post[zoneDb[m]] \in {"failed", "saving"}
           /\ \A p \in E : p = db[m] \/ load[p] = "logging" =>
               \/ \E k \in Keys : zoneDb[k] = p
               \/ isUnsaved(p)
               \/ isDoubled(p)
               \/ zoneDb[m] # Nil /\ post[zoneDb[m]] = "saving"
               \/ drop[p] = "saving"
BY DEF ListedAt, isLoading, Listed

\* A step that does nothing about what a media lists; it may begin to post.
LEMMA ListedStays ==
    ASSUME TypeOK, TypeOK', Grows, EntriesOK, ZoneOK, NEW m \in Media, ListedAt(m),
           db'[m] = db[m], zoneDb'[m] = zoneDb[m],
           \A x \in EntriesOf(m)' : x \notin EntriesOf(m) => load'[x] # "logging" /\ post'[x] # "done",
           \A x \in EntriesOf(m) :
              /\ load'[x] = load[x] /\ post'[x] = post[x] /\ drop'[x] = drop[x]
              /\ (\E k \in Keys : zoneDb[k] = x) => \E k \in Keys : zoneDb'[k] = x
    PROVE  ListedAt(m)'
<1>1. PICK E : E = EntriesOf(m)
  OBVIOUS
<1>2. PICK F : F = EntriesOf(m)'
  OBVIOUS
<1>3. PICK e : e = db[m]
  OBVIOUS
<1>4. PICK z : z = zoneDb[m]
  OBVIOUS
<1>5. E \subseteq F /\ E \subseteq Posts /\ (\A x \in E : entry[x] # Nil)
  BY <1>1, <1>2, Grown DEF EntriesOf
<1>6. (e # Nil => e \in E) /\ (z # Nil => z \in E)
  BY <1>1, <1>3, <1>4 DEF ZoneOK
<1>7. \A x \in E : /\ age'[x] = age[x] /\ load'[x] = load[x] /\ post'[x] = post[x] /\ drop'[x] = drop[x]
                   /\ (\E k \in Keys : zoneDb[k] = x) => \E k \in Keys : zoneDb'[k] = x
                   /\ isUnsaved(x) => isUnsaved(x)'
                   /\ isDoubled(x) => isDoubled(x)'
  BY <1>1, <1>5, Grown DEF Grows
<1>8. \A x \in F : x \notin E => load'[x] # "logging" /\ post'[x] # "done"
  BY <1>1, <1>2
<1>9. /\ (\E p \in E : load[p] = "logging") => \A p \in E : post[p] # "done"
      /\ e # Nil => \A p \in E : post[p] = "done" => age[p] <= age[e]
      /\ e = Nil /\ (\A p \in E : load[p] # "logging") =>
             z = Nil \/ post[z] \in {"failed", "saving"}
      /\ \A p \in E : p = e \/ load[p] = "logging" =>
            \/ \E k \in Keys : zoneDb[k] = p
            \/ isUnsaved(p)
            \/ isDoubled(p)
            \/ z # Nil /\ post[z] = "saving"
            \/ drop[p] = "saving"
  BY <1>1, <1>3, <1>4, ListedThen
<1>10. (\E p \in F : load'[p] = "logging") => \A p \in F : post'[p] # "done"
  BY <1>5, <1>7, <1>8, <1>9
<1>11. e # Nil => \A p \in F : post'[p] = "done" => age'[p] <= age'[e]
  BY <1>5, <1>6, <1>7, <1>8, <1>9
<1>12. e = Nil /\ (\A p \in F : load'[p] # "logging") => z = Nil \/ post'[z] \in {"failed", "saving"}
  BY <1>5, <1>6, <1>7, <1>9
<1>13. ASSUME NEW p \in F, p = e \/ load'[p] = "logging"
       PROVE  \/ \E k \in Keys : zoneDb'[k] = p
              \/ isUnsaved(p)'
              \/ isDoubled(p)'
              \/ z # Nil /\ post'[z] = "saving"
              \/ drop'[p] = "saving"
  <2>1. p \in E
    <3>1. p # Nil
      BY <1>2, <1>13, NoNil DEF EntriesOf
    <3> QED
      BY <1>6, <1>8, <1>13, <3>1
  <2> QED
    BY <1>6, <1>7, <1>9, <1>13, <2>1
<1>14. e = db'[m] /\ z = zoneDb'[m]
  BY <1>3, <1>4
<1> QED
  BY <1>2, <1>10, <1>11, <1>12, <1>13, <1>14, ListedIf

LEMMA ListedStep ==
    ASSUME TypeOK, TypeOK', Grows, EntriesOK, ZoneOK, BusyOK, ListedOK, Writer \/ Reader
    PROVE  ListedOK'
<1>0. SUFFICES ASSUME NEW m \in Media, m \notin raced' PROVE ListedAt(m)'
  BY DEF ListedOK
<1>a. ListedAt(m) /\ m \notin raced
  BY <1>0 DEF ListedOK, Grows
<1>b. /\ m \in Keys /\ m \notin Posts
      /\ \A q \in EntriesOf(m) : q \in Posts /\ q \in Keys /\ q # Nil /\ entry[q] # Nil
                                 /\ entry[q].media = m /\ EntryOK(q) /\ age'[q] = age[q]
  BY NoNil DEF Keys, EntriesOf, EntriesOK, Grows
<1>c. ASSUME UNCHANGED entry PROVE EntriesOf(m)' = EntriesOf(m)
  BY <1>c DEF EntriesOf
<1>d. PICK E : E = EntriesOf(m)
  OBVIOUS
<1>e. PICK z : z = zoneDb[m]
  OBVIOUS
<1>f. z # Nil => z \in E
  BY <1>d, <1>e DEF ZoneOK
<1>g. /\ (\E p \in E : load[p] = "logging") => \A p \in E : post[p] # "done"
      /\ db[m] # Nil => \A p \in E : post[p] = "done" => age[p] <= age[db[m]]
      /\ db[m] = Nil /\ (\A p \in E : load[p] # "logging") =>
             z = Nil \/ post[z] \in {"failed", "saving"}
      /\ \A p \in E : p = db[m] \/ load[p] = "logging" =>
            \/ \E k \in Keys : zoneDb[k] = p
            \/ isUnsaved(p)
            \/ isDoubled(p)
            \/ z # Nil /\ post[z] = "saving"
            \/ drop[p] = "saving"
  BY <1>a, <1>d, <1>e, ListedThen
<1>h. \A q \in E : (isUnsaved(q) => isUnsaved(q)') /\ (isDoubled(q) => isDoubled(q)')
  BY <1>b, <1>d, Grown
<1>i. db[m] # Nil => db[m] \in E
  BY <1>d DEF ZoneOK
<1>1. ASSUME NEW p \in Posts, NEW o \in Media, NEW n \in FileNames, NEW kind \in Kind,
             NEW step \in {"writing", "saving"}, Made(p, o, n, kind, step),
             UNCHANGED <<db, load, drop>>,
             zoneDb'[m] = zoneDb[m],
             \A q \in Posts : (\E k \in Keys : zoneDb[k] = q) => \E k \in Keys : zoneDb'[k] = q
      PROVE  ListedAt(m)'
  <2>1. load[p] = "none" /\ entry[p] = Nil
    BY <1>1 DEF Made, EntriesOK, EntryOK
  <2>2. ASSUME NEW x \in EntriesOf(m)', x \notin EntriesOf(m)
        PROVE  load'[x] # "logging" /\ post'[x] # "done"
    <3>1. x = p
      BY <1>1, <2>2 DEF Made, EntriesOf
    <3> QED
      BY <1>1, <2>1, <3>1 DEF Made
  <2>3. \A x \in EntriesOf(m) :
              /\ load'[x] = load[x] /\ post'[x] = post[x] /\ drop'[x] = drop[x]
              /\ (\E k \in Keys : zoneDb[k] = x) => \E k \in Keys : zoneDb'[k] = x
    BY <1>1, <1>b, <2>1 DEF Made
  <2> QED
    BY <1>1, <1>a, <2>2, <2>3, ListedStays
<1>2. ASSUME NEW p \in Posts, NEW o \in Media, NEW n \in FileNames,
             Commit(p, o, n) \/ \E kind \in {"write", "append"} : Post(p, o, n, kind)
      PROVE  ListedAt(m)'
  <2>1. CASE Commit(p, o, n)
    <3>1. Made(p, o, n, "commit", "saving") /\ Renamed(p, o, n)
      BY <2>1, Committing
    <3>2. zoneDb[p] = Nil
      BY <3>1, NoNil DEF Made, ZoneOK, Keys, TypeOK
    <3>3. "commit" \in Kind /\ p \in Keys /\ p # m
      BY <1>b DEF Kind, Keys
    <3>4. zoneDb'[m] = zoneDb[m] /\ UNCHANGED <<db, load, drop>>
          /\ \A k \in Keys : k # p => zoneDb'[k] = zoneDb[k]
      BY <1>b, <3>1, <3>3 DEF Renamed
    <3>5. \A q \in Posts : (\E k \in Keys : zoneDb[k] = q) => \E k \in Keys : zoneDb'[k] = q
      BY <3>2, <3>4, NoNil
    <3> QED
      BY <1>1, <3>1, <3>3, <3>4, <3>5
  <2>2. CASE \E kind \in {"write", "append"} : Post(p, o, n, kind)
    <3>1. PICK kind \in {"write", "append"} : Post(p, o, n, kind)
      BY <2>2
    <3>2. PICK f \in Posts : Opened(p, o, n, kind, f)
      BY <3>1, Posting
    <3>3. Made(p, o, n, kind, "writing") /\ kind \in Kind
      BY <3>1, Posting DEF Kind
    <3>4. UNCHANGED <<db, load, drop, zoneDb>>
      BY <3>2 DEF Opened
    <3> QED
      BY <1>1, <3>3, <3>4
  <2> QED
    BY <1>2, <2>1, <2>2
<1>3. ASSUME UNCHANGED entry, db'[m] = db[m], zoneDb'[m] = zoneDb[m],
             \A x \in EntriesOf(m) :
              /\ load'[x] = load[x] /\ post'[x] = post[x] /\ drop'[x] = drop[x]
              /\ (\E k \in Keys : zoneDb[k] = x) => \E k \in Keys : zoneDb'[k] = x
      PROVE  ListedAt(m)'
  BY <1>3, <1>a, <1>c, ListedStays
<1>4. ASSUME NEW p \in Posts, PostWritten(p) PROVE ListedAt(m)'
  <2>1. PICK o \in Media, f \in Posts, content \in Content : Recorded(p, o, f, content)
    BY <1>4, Recording
  <2>2. /\ UNCHANGED <<entry, db, load, drop, age>> /\ post[p] = "writing" /\ post'[p] = "saving"
        /\ p \in EntriesOf(o) /\ entry[p].media = o
        /\ zoneDb'[o] = p /\ (\A k \in Keys \ {o} : zoneDb'[k] = zoneDb[k])
        /\ \A q \in Posts \ {p} : post'[q] = post[q]
    BY <2>1 DEF Recorded
  <2>3. CASE o = m
    <3>1. E = EntriesOf(m)' /\ E \subseteq Posts
      BY <1>b, <1>c, <1>d, <2>2
    <3>2. (\E q \in E : load'[q] = "logging") => \A q \in E : post'[q] # "done"
      BY <1>g, <2>2, <3>1
    <3>3. db[m] # Nil => \A q \in E : post'[q] = "done" => age'[q] <= age'[db[m]]
      BY <1>g, <2>2, <3>1
    <3>4. p # Nil /\ post'[p] = "saving" /\ p = zoneDb'[m] /\ db[m] = db'[m]
      BY <2>2, <2>3, NoNil
    <3> QED
      BY <3>1, <3>2, <3>3, <3>4, ListedIf
  <2>4. CASE o # m
    <3>1. p \notin EntriesOf(m) /\ zoneDb'[m] = zoneDb[m]
      BY <1>b, <2>2, <2>4
    <3>2. \A x \in EntriesOf(m) : zoneDb[o] # x
      BY <1>b, <2>4 DEF ZoneOK, EntriesOf
    <3>3. \A x \in EntriesOf(m) :
              /\ load'[x] = load[x] /\ post'[x] = post[x] /\ drop'[x] = drop[x]
              /\ (\E k \in Keys : zoneDb[k] = x) => \E k \in Keys : zoneDb'[k] = x
      BY <1>b, <2>2, <3>1, <3>2
    <3> QED
      BY <1>3, <2>2, <3>1, <3>3
  <2> QED
    BY <2>3, <2>4
<1>5. ASSUME NEW p \in Posts, PostSaved(p) PROVE ListedAt(m)'
  <2>1. PICK o \in Media : p \in EntriesOf(o) /\ o = entry[p].media /\ ListedFor(o, p)
    BY <1>5, PostSaving
  <2>2. post[p] = "saving" /\ post'[p] = "done" /\ (\A q \in Posts \ {p} : post'[q] = post[q])
        /\ UNCHANGED <<entry, zoneDb, age, load, drop>>
    BY <1>5, PostSaving DEF store
  <2>3. CASE o = m
    <3>1. E = EntriesOf(m)' /\ E \subseteq Posts /\ p \in E /\ p # Nil
      BY <1>b, <1>c, <1>d, <2>1, <2>2, <2>3, NoNil
    <3>2. ~isLoading(m) /\ db'[m] = p
      BY <1>0, <2>1, <2>3 DEF ListedFor
    <3>3. \A q \in E : load'[q] # "logging"
      BY <1>d, <2>2, <3>2 DEF isLoading
    <3>4. \A q \in E : age'[q] <= age'[p]
      BY <1>b, <1>d, <2>2, <3>1 DEF BusyOK, Over
    <3>5. \E k \in Keys : zoneDb'[k] = p
      BY <1>b, <1>d, <2>2, <3>1 DEF EntryOK
    <3>6. z = zoneDb'[m]
      BY <1>e, <2>2
    <3> QED
      BY <3>1, <3>2, <3>3, <3>4, <3>5, <3>6, ListedIf
  <2>4. CASE o # m
    <3>1. p \notin EntriesOf(m) /\ db'[m] = db[m]
      BY <1>b, <2>1, <2>4 DEF ListedFor
    <3> QED
      BY <1>3, <1>b, <2>2, <3>1
  <2> QED
    BY <2>3, <2>4
<1>6. ASSUME NEW p \in Posts, PostFails(p) PROVE ListedAt(m)'
  <2>1. post[p] = "saving" /\ post'[p] = "failed" /\ (\A q \in Posts \ {p} : post'[q] = post[q])
        /\ UNCHANGED <<entry, zoneDb, age, db, load, drop>> /\ entry[p] # Nil
    BY <1>6, PostFailing DEF store
  <2>2. CASE p \in E
    <3>1. E = EntriesOf(m)' /\ E \subseteq Posts /\ z = zoneDb'[m]
      BY <1>b, <1>c, <1>d, <1>e, <2>1
    <3>2. ASSUME NEW q \in E PROVE isUnsaved(q)'
      <4>1. age[q] <= age[p] /\ entry[q].media = m /\ q \in Posts
        BY <1>b, <1>d, <2>1, <2>2, <3>2 DEF BusyOK, Over
      <4>2. age'[p] >= age'[q] /\ p \in EntriesOf(entry[q].media)'
        BY <1>d, <2>1, <2>2, <3>1, <4>1 DEF TypeOK
      <4> QED
        BY <2>1, <4>2 DEF isUnsaved
    <3>3. (\E q \in E : load'[q] = "logging") => \A q \in E : post'[q] # "done"
      BY <1>g, <2>1, <3>1
    <3>4. db[m] # Nil => \A q \in E : post'[q] = "done" => age'[q] <= age'[db[m]]
      BY <1>g, <2>1, <3>1
    <3>5. db[m] = Nil /\ (\A q \in E : load'[q] # "logging") => z = Nil \/ post'[z] \in {"failed", "saving"}
      BY <1>f, <1>g, <2>1, <3>1
    <3>6. db[m] = db'[m]
      BY <2>1
    <3> QED
      BY <3>1, <3>2, <3>3, <3>4, <3>5, <3>6, ListedIf
  <2>3. CASE p \notin E
    BY <1>3, <1>b, <1>d, <2>1, <2>3
  <2> QED
    BY <2>2, <2>3
<1>7. ASSUME NEW o \in Media, Delete(o) PROVE ListedAt(m)'
  <2>1. PICK y \in Posts : Removed(o, y) /\ y \in EntriesOf(o)
    BY <1>7, Deleting
  <2>2. /\ isIdle(o) /\ y = zoneDb[o] /\ zoneDb'[o] = Nil
        /\ (\A k \in Keys \ {o} : zoneDb'[k] = zoneDb[k])
        /\ drop'[y] \in {"saving", "hung"} /\ (\A q \in Posts \ {y} : drop'[q] = drop[q])
        /\ UNCHANGED <<entry, age, db, load, post>>
    BY <2>1 DEF Removed
  <2>3. CASE o = m
    <3>1. E = EntriesOf(m)' /\ E \subseteq Posts /\ y = z /\ y \in E /\ zoneDb'[m] = Nil
      BY <1>b, <1>c, <1>d, <1>e, <2>1, <2>2, <2>3
    <3>2. \A q \in E : post[q] # "saving" /\ drop[q] # "saving"
      BY <1>d, <2>2, <2>3 DEF isIdle, Over
    <3>3. ASSUME NEW q \in E, q = db[m] \/ load[q] = "logging"
          PROVE  (\E k \in Keys : zoneDb'[k] = q) \/ isUnsaved(q)' \/ isDoubled(q)' \/ drop'[q] = "saving"
      <4>1. CASE isUnsaved(q) \/ isDoubled(q)
        BY <1>h, <4>1
      <4>2. CASE \E k \in Keys : zoneDb[k] = q /\ k # m
        BY <2>2, <2>3, <4>2
      <4>3. CASE q = y
        <5>1. ASSUME drop'[y] = "hung" PROVE isUnsaved(y)'
          <6>1. age'[y] >= age'[y] /\ y \in EntriesOf(entry[y].media)' /\ entry'[y].media = m
            BY <1>b, <1>d, <2>2, <3>1 DEF TypeOK
          <6> QED
            BY <2>2, <3>1, <5>1, <6>1 DEF isUnsaved
        <5> QED
          BY <2>2, <4>3, <5>1
      <4> QED
        BY <1>e, <1>f, <1>g, <3>1, <3>2, <3>3, <4>1, <4>2, <4>3
    <3>4. (\E q \in E : load'[q] = "logging") => \A q \in E : post'[q] # "done"
      BY <1>g, <2>2
    <3>5. db[m] # Nil => \A q \in E : post'[q] = "done" => age'[q] <= age'[db[m]]
      BY <1>g, <2>2
    <3>6. db[m] = db'[m] /\ Nil = zoneDb'[m]
      BY <2>2, <3>1
    <3> QED
      BY <2>2, <3>1, <3>3, <3>4, <3>5, <3>6, ListedIf
  <2>4. CASE o # m
    <3>1. y \notin EntriesOf(m) /\ zoneDb'[m] = zoneDb[m]
      BY <1>b, <2>1, <2>2, <2>4 DEF EntriesOf
    <3>2. \A x \in EntriesOf(m) :
              /\ load'[x] = load[x] /\ post'[x] = post[x] /\ drop'[x] = drop[x]
              /\ (\E k \in Keys : zoneDb[k] = x) => \E k \in Keys : zoneDb'[k] = x
      BY <1>b, <2>2, <3>1
    <3> QED
      BY <1>3, <2>2, <3>1, <3>2
  <2> QED
    BY <2>3, <2>4
<1>8. ASSUME NEW p \in Posts, DeleteSaved(p) PROVE ListedAt(m)'
  <2>1. PICK o \in Media : p \in EntriesOf(o) /\ o = entry[p].media /\ ListedFor(o, Nil)
    BY <1>8, DropSaving
  <2>2. drop[p] = "saving" /\ drop'[p] = "done" /\ (\A q \in Posts \ {p} : drop'[q] = drop[q])
        /\ UNCHANGED <<entry, zoneDb, age, load, post>>
    BY <1>8, DropSaving DEF store
  <2>3. CASE o = m
    <3>1. E = EntriesOf(m)' /\ E \subseteq Posts /\ p \in E
      BY <1>b, <1>c, <1>d, <2>1, <2>2, <2>3
    <3>2. ~isLoading(m) /\ db'[m] = Nil
      BY <1>0, <2>1, <2>3 DEF ListedFor
    <3>3. \A q \in E : load'[q] # "logging" /\ q # Nil
      BY <1>b, <1>d, <2>2, <3>2 DEF isLoading
    <3>4. zoneDb'[m] = Nil
      BY <1>b, <1>d, <2>2, <3>1 DEF EntryOK
    <3> QED
      BY <3>1, <3>2, <3>3, <3>4, ListedIf
  <2>4. CASE o # m
    <3>1. p \notin EntriesOf(m) /\ db'[m] = db[m]
      BY <1>b, <2>1, <2>4 DEF ListedFor
    <3> QED
      BY <1>3, <1>b, <2>2, <3>1
  <2> QED
    BY <2>3, <2>4
<1>9. ASSUME NEW p \in Posts, DeleteFails(p) PROVE ListedAt(m)'
  <2>1. drop[p] = "saving" /\ drop'[p] = "failed" /\ (\A q \in Posts \ {p} : drop'[q] = drop[q])
        /\ UNCHANGED <<entry, zoneDb, age, db, load, post>> /\ entry[p] # Nil
    BY <1>9, DropFailing DEF store
  <2>2. CASE p \in E
    <3>1. E = EntriesOf(m)' /\ E \subseteq Posts /\ z = zoneDb'[m] /\ db[m] = db'[m]
      BY <1>b, <1>c, <1>d, <1>e, <2>1
    <3>2. isUnsaved(p)'
      <4>1. age'[p] >= age'[p] /\ p \in EntriesOf(entry[p].media)' /\ entry'[p].media = m
        BY <1>b, <1>d, <2>1, <2>2, <3>1 DEF TypeOK
      <4> QED
        BY <2>1, <4>1 DEF isUnsaved
    <3>3. ASSUME NEW q \in E, q = db[m] \/ load'[q] = "logging"
          PROVE  \/ \E k \in Keys : zoneDb'[k] = q
                 \/ isUnsaved(q)'
                 \/ isDoubled(q)'
                 \/ z # Nil /\ post'[z] = "saving"
                 \/ drop'[q] = "saving"
      BY <1>g, <1>h, <2>1, <3>1, <3>2, <3>3
    <3> QED
      BY <1>g, <2>1, <3>1, <3>3, ListedIf
  <2>3. CASE p \notin E
    BY <1>3, <1>b, <1>d, <2>1, <2>3
  <2> QED
    BY <2>2, <2>3
<1>10. ASSUME NEW p \in Posts, LoadLogs(p) PROVE ListedAt(m)'
  <2>1. PICK o \in Media : p \in EntriesOf(o) /\ o = entry[p].media
                  /\ db'[o] = p /\ \A q \in Media \ {o} : db'[q] = db[q]
    BY <1>10, Loading
  <2>2. load[p] = "logging" /\ load'[p] = "done" /\ (\A q \in Posts \ {p} : load'[q] = load[q])
        /\ UNCHANGED <<entry, zoneDb, age, post, drop>>
    BY <1>10, Loading DEF store
  <2>3. CASE o = m
    <3>1. E = EntriesOf(m)' /\ E \subseteq Posts /\ z = zoneDb'[m] /\ p \in E /\ p # Nil /\ db'[m] = p
      BY <1>b, <1>c, <1>d, <1>e, <2>1, <2>2, <2>3
    <3>2. \A q \in E : post'[q] # "done"
      BY <1>g, <2>2, <3>1
    <3>3. ASSUME NEW q \in E, q = p \/ load'[q] = "logging"
          PROVE  \/ \E k \in Keys : zoneDb'[k] = q
                 \/ isUnsaved(q)'
                 \/ isDoubled(q)'
                 \/ z # Nil /\ post'[z] = "saving"
                 \/ drop'[q] = "saving"
      <4>1. load[q] = "logging"
        BY <2>2, <3>1, <3>3
      <4> QED
        BY <1>g, <1>h, <2>2, <4>1
    <3> QED
      BY <3>1, <3>2, <3>3, ListedIf
  <2>4. CASE o # m
    <3>1. p \notin EntriesOf(m) /\ db'[m] = db[m]
      BY <1>b, <2>1, <2>4
    <3> QED
      BY <1>3, <1>b, <2>2, <3>1
  <2> QED
    BY <2>3, <2>4
<1>11. CASE Reader
  <2>1. UNCHANGED <<entry, zoneDb, db, load, post, drop>>
    BY <1>11 DEF Reader, SameMedia, store, logs
  <2> QED
    BY <1>3, <2>1
<1> QED
  BY <1>2, <1>4, <1>5, <1>6, <1>7, <1>8, <1>9, <1>10, <1>11 DEF Writer

(***************************************************************************)
(* Connectors and requests.                                                *)
(***************************************************************************)

LEMMA ConnIf ==
    ASSUME NEW c \in Conns, NEW s, s = storageId'[c].source, NEW ref, ref = storageId'[c].ref,
           \A q \in due'[c] : entry'[q] # Nil,
           storageId'[c] # Nil =>
              /\ journal'[c] # "none"
              /\ ref = s[1] /\ isPath(s)'
              /\ s[1] \notin raced' => isCurrent(c, s)'
              /\ db'[s[1]] # Nil \/ isGone(s[1])'
    PROVE  ConnOK(c)'
<1>1. isPath(s)' => isPath(storageId[c].source)'
  BY DEF isPath, path, wasListed
<1>2. isCurrent(c, s)' => isCurrent(c, storageId[c].source)'
  BY DEF isCurrent, path, wasListed
<1>3. isGone(s[1])' => isGone(storageId[c].source[1])'
  BY DEF isGone, EntriesOf
<1> QED
  BY <1>1, <1>2, <1>3 DEF ConnOK

LEMMA GetIf ==
    ASSUME NEW g \in Gets, NEW s, s = get'[g].path, NEW c, c = get'[g].conn,
           NEW e, e = get'[g].entry, NEW f, f = get'[g].file, NEW seen, seen = get'[g].seen,
           get'[g].media = s[1], isPath(s)',
           c # Nil => journal'[c] # "none" /\ (s[1] \notin raced' => isCurrent(c, s)'),
           c = Nil => e # Nil /\ wasListed(e)' /\ path(e)' = s,
           f = Nil => seen = {},
           f # Nil => entry'[f] # Nil /\ path(f)' = s,
           \A content \in seen :
              /\ isOf(content, s)'
              /\ content # {} /\ c # Nil /\ s[1] \notin raced' =>
                    \A q \in due'[c] : \E x \in content : age'[q] <= age'[x]
    PROVE  GetOK(g)'
<1>1. isPath(get[g].path)'
  BY DEF isPath, path, wasListed
<1>2. c # Nil /\ s[1] \notin raced' => isCurrent(get[g].conn, get[g].path)'
  BY DEF isCurrent, path, wasListed
<1>3. c = Nil => e # Nil /\ wasListed(get[g].entry)' /\ path(get[g].entry)' = s
  BY DEF path, wasListed
<1>4. f # Nil => entry'[f] # Nil /\ path(get[g].file)' = s
  BY DEF path
<1>5. \A content \in seen : isOf(content, get[g].path)'
  BY DEF isOf, path, inPlace
<1> QED
  BY <1>1, <1>2, <1>3, <1>4, <1>5 DEF GetOK

\* A media that is listed or was deleted stays so.
Kept == \A m \in Media : db[m] # Nil \/ isGone(m) => db'[m] # Nil \/ isGone(m)'

LEMMA KeptStep ==
    ASSUME TypeOK, TypeOK', Grows, EntriesOK, ZoneOK, Writer \/ Reader
    PROVE  Kept
<1>0. SUFFICES ASSUME NEW m \in Media, db[m] # Nil, db'[m] = Nil PROVE isGone(m)'
  BY Grown DEF Kept
<1>1. ASSUME NEW p \in Posts, NEW o \in Media, NEW n \in FileNames, Commit(p, o, n)
      PROVE  UNCHANGED db
  BY <1>1, Committing DEF Renamed
<1>2. ASSUME NEW p \in Posts, NEW o \in Media, NEW n \in FileNames,
             NEW kind \in {"write", "append"}, Post(p, o, n, kind)
      PROVE  UNCHANGED db
  <2>1. PICK f \in Posts : Opened(p, o, n, kind, f)
    BY <1>2, Posting
  <2> QED
    BY <2>1 DEF Opened
<1>3. ASSUME NEW o \in Media, Delete(o) PROVE UNCHANGED db
  <2>1. PICK y \in Posts : Removed(o, y)
    BY <1>3, Deleting
  <2> QED
    BY <2>1 DEF Removed
<1>4. ASSUME NEW p \in Posts, PostWritten(p) PROVE UNCHANGED db
  <2>1. PICK o \in Media, f \in Posts, content \in Content : Recorded(p, o, f, content)
    BY <1>4, Recording
  <2> QED
    BY <2>1 DEF Recorded
<1>5. ASSUME NEW p \in Posts, LoadLogs(p) PROVE db'[m] # Nil
  <2>1. PICK o \in Media : db'[o] = p /\ \A q \in Media \ {o} : db'[q] = db[q]
    BY <1>5, Loading
  <2> QED
    BY <1>0, <2>1, NoNil
<1>6. ASSUME NEW p \in Posts, PostSaved(p) PROVE db'[m] # Nil
  <2>1. PICK o \in Media : ListedFor(o, p)
    BY <1>6, PostSaving
  <2> QED
    BY <1>0, <2>1, NoNil DEF ListedFor
<1>7. ASSUME NEW p \in Posts, PostFails(p) \/ DeleteFails(p) PROVE UNCHANGED db
  BY <1>7, PostFailing, DropFailing
<1>8. ASSUME NEW p \in Posts, DeleteSaved(p) PROVE isGone(m)'
  <2>1. PICK o \in Media : p \in EntriesOf(o) /\ ListedFor(o, Nil)
    BY <1>8, DropSaving
  <2>2. drop'[p] = "done" /\ UNCHANGED entry
    BY <1>8, DropSaving DEF store
  <2>3. o = m
    BY <1>0, <2>1 DEF ListedFor
  <2>4. p \in EntriesOf(m)' /\ drop'[p] # "none"
    BY <2>1, <2>2, <2>3 DEF EntriesOf
  <2> QED
    BY <2>4 DEF isGone
<1>9. Reader => UNCHANGED db
  BY DEF Reader, SameMedia
<1> QED
  BY <1>0, <1>1, <1>2, <1>3, <1>4, <1>5, <1>6, <1>7, <1>8, <1>9 DEF Writer

LEMMA StillConn ==
    ASSUME TypeOK, TypeOK', Grows, Kept, NEW c \in Conns, ConnOK(c), due'[c] = due[c],
           \/ storageId'[c] = Nil
           \/ /\ storageId[c] # Nil /\ storageId'[c].ref = storageId[c].ref
              /\ storageId'[c].source = storageId[c].source
    PROVE  ConnOK(c)'
<1>1. due[c] \subseteq Posts /\ \A q \in due[c] : entry[q] # Nil /\ entry'[q] # Nil
  BY DEF TypeOK, ConnOK, Grows
<1>2. PICK s : s = storageId'[c].source
  OBVIOUS
<1>3. PICK ref : ref = storageId'[c].ref
  OBVIOUS
<1>4. ASSUME storageId'[c] # Nil
      PROVE  /\ journal'[c] # "none" /\ ref = s[1] /\ isPath(s)'
             /\ s[1] \notin raced' => isCurrent(c, s)'
             /\ db'[s[1]] # Nil \/ isGone(s[1])'
  <2>1. storageId[c] # Nil /\ s = storageId[c].source /\ ref = storageId[c].ref
    BY <1>2, <1>3, <1>4
  <2>2. s \in Path /\ ref \in Media
    BY <2>1 DEF TypeOK, Connector
  <2>3. journal[c] # "none" /\ ref = s[1] /\ isPath(s)
        /\ (s[1] \notin raced => isCurrent(c, s)) /\ (db[s[1]] # Nil \/ isGone(s[1]))
    BY <2>1 DEF ConnOK
  <2>4. journal'[c] # "none" /\ raced \subseteq raced'
    BY <2>3 DEF Grows
  <2>5. isPath(s)' /\ (isCurrent(c, s) => isCurrent(c, s)')
    BY <1>1, <2>2, <2>3, Grown
  <2>6. db'[s[1]] # Nil \/ isGone(s[1])'
    BY <2>2, <2>3 DEF Kept
  <2> QED
    BY <2>3, <2>4, <2>5, <2>6
<1> QED
  BY <1>1, <1>2, <1>3, <1>4, ConnIf

LEMMA NewConn ==
    ASSUME TypeOK, TypeOK', Grows, ListedOK, NEW c \in Conns, NEW m \in Media, NEW e \in Posts,
           NEW j \in {"new_conn", "acc_conn"}, OpenedFor(c, m, e, j), SameMedia
    PROVE  /\ ConnOK(c)' /\ journal'[c] # "none" /\ isPath(path(e))' /\ path(e)[1] = m
           /\ m \notin raced' => isCurrent(c, path(e))'
<1>1. PICK s : s = path(e)
  OBVIOUS
<1>2. s \in Path /\ s[1] = m /\ e = db[m] /\ wasListed(e) /\ due'[c] = Listed(m)
      /\ storageId'[c].ref = m /\ storageId'[c].source = s /\ journal'[c] # "none"
  BY <1>1 DEF OpenedFor, Connected
<1>3. UNCHANGED <<entry, age, db, raced, load, post>>
  BY DEF SameMedia, store, logs
<1>4. \A q \in Listed(m) : q \in Posts /\ entry[q] # Nil
  BY DEF Listed, EntriesOf
<1>5. path(e)' = s /\ wasListed(e)'
  BY <1>1, <1>2, <1>3 DEF path, wasListed
<1>6. isPath(s)'
  BY <1>5 DEF isPath
<1>7. ASSUME m \notin raced' PROVE isCurrent(c, s)'
  <2>1. \A q \in Listed(m) : age[q] <= age[e]
    BY <1>2, <1>3, <1>7, NoNil DEF ListedOK, ListedAt
  <2>2. \A q \in due'[c] : age'[q] <= age'[e]
    BY <1>2, <1>3, <2>1
  <2> QED
    BY <1>5, <2>2 DEF isCurrent
<1>8. db'[s[1]] # Nil
  BY <1>2, <1>3, NoNil
<1>9. \A q \in due'[c] : entry'[q] # Nil
  BY <1>2, <1>3, <1>4
<1>10. ConnOK(c)'
  BY <1>2, <1>6, <1>7, <1>8, <1>9, ConnIf
<1>11. isPath(path(e))' /\ (m \notin raced' => isCurrent(c, path(e))')
  <2>1. path(e) = s /\ path(e)' = s
    BY <1>1, <1>5
  <2> QED
    BY <1>3, <1>6, <1>7, <2>1 DEF isPath, isCurrent, path, wasListed
<1> QED
  BY <1>1, <1>2, <1>10, <1>11

LEMMA NewGet ==
    ASSUME TypeOK', NEW g \in Gets, NEW c \in Conns \cup {Nil}, NEW m \in Media, NEW s \in Path,
           NEW e \in Posts \cup {Nil}, Asked(g, c, m, s, e), m = s[1], isPath(s)',
           c # Nil => journal'[c] # "none" /\ (m \notin raced' => isCurrent(c, s)'),
           c = Nil => e # Nil /\ wasListed(e)' /\ path(e)' = s
    PROVE  GetOK(g)'
<1>1. /\ s = get'[g].path /\ c = get'[g].conn /\ e = get'[g].entry
      /\ Nil = get'[g].file /\ {} = get'[g].seen /\ get'[g].media = s[1]
  BY DEF Asked
<1> QED
  BY <1>1, GetIf

LEMMA StillGet ==
    ASSUME TypeOK, TypeOK', Grows, ConnsOK, NEW g \in Gets, get[g] # Nil,
           NEW s, s = get[g].path, NEW c, c = get[g].conn,
           NEW f, f = get'[g].file, NEW seen, seen = get'[g].seen,
           f = Nil => seen = {},
           f # Nil => entry'[f] # Nil /\ path(f)' = s,
           \A content \in seen :
              \/ content \in get[g].seen
              \/ /\ isOf(content, s)'
                 /\ content # {} /\ c # Nil /\ s[1] \notin raced' =>
                       \A q \in due'[c] : \E x \in content : age'[q] <= age'[x]
    PROVE  GetOK(g)'
<1>1. PICK e : e = get[g].entry
  OBVIOUS
<1>2. get[g] \in Get /\ s \in Path /\ c \in Conns \cup {Nil} /\ e \in Posts \cup {Nil}
      /\ get[g].seen \in SUBSET Content
  BY <1>1 DEF TypeOK, Get
<1>3. /\ get[g].media = s[1] /\ isPath(s)
      /\ c # Nil => journal[c] # "none" /\ (s[1] \notin raced => isCurrent(c, s))
      /\ c = Nil => e # Nil /\ wasListed(e) /\ path(e) = s
      /\ \A content \in get[g].seen :
              /\ isOf(content, s)
              /\ content # {} /\ c # Nil /\ s[1] \notin raced =>
                    \A q \in due[c] : \E x \in content : age[q] <= age[x]
  BY <1>1 DEF ConnsOK, GetOK
<1>4. /\ s = get'[g].path /\ c = get'[g].conn /\ e = get'[g].entry /\ get'[g].media = s[1]
      /\ raced \subseteq raced'
  BY <1>1, <1>3 DEF Grows
<1>5. isPath(s)'
  BY <1>2, <1>3, Grown
<1>6. ASSUME c # Nil
      PROVE  /\ c \in Conns /\ journal'[c] # "none" /\ due'[c] = due[c]
             /\ \A q \in due[c] : q \in Posts /\ entry[q] # Nil /\ age'[q] = age[q]
             /\ s[1] \notin raced' => isCurrent(c, s)'
  <2>1. c \in Conns /\ journal[c] # "none"
    BY <1>2, <1>3, <1>6
  <2>2. journal'[c] # "none" /\ due'[c] = due[c]
    BY <2>1 DEF Grows
  <2>3. \A q \in due[c] : q \in Posts /\ entry[q] # Nil
    BY <2>1 DEF ConnsOK, ConnOK, TypeOK
  <2>4. isCurrent(c, s) => isCurrent(c, s)'
    BY <1>2, <2>1, <2>3, Grown
  <2> QED
    BY <1>3, <1>4, <1>6, <2>1, <2>2, <2>3, <2>4 DEF Grows
<1>7. c = Nil => e # Nil /\ wasListed(e)' /\ path(e)' = s
  <2>1. ASSUME c = Nil PROVE e \in Posts /\ entry[e] # Nil /\ wasListed(e) /\ path(e) = s /\ e # Nil
    BY <1>2, <1>3, <2>1 DEF wasListed
  <2> QED
    BY <2>1, Grown
<1>8. ASSUME NEW content \in get[g].seen
      PROVE  /\ isOf(content, s)'
             /\ content # {} /\ c # Nil /\ s[1] \notin raced' =>
                    \A q \in due'[c] : \E x \in content : age'[q] <= age'[x]
  <2>1. content \in Content /\ isOf(content, s)
    BY <1>2, <1>3
  <2>2. isOf(content, s)'
    BY <1>2, <2>1, Grown
  <2>3. \A x \in content : x \in Posts /\ age'[x] = age[x]
    BY <2>1 DEF Content, isOf, Grows
  <2> QED
    BY <1>3, <1>4, <1>6, <2>2, <2>3
<1>9. \A content \in seen :
              /\ isOf(content, s)'
              /\ content # {} /\ c # Nil /\ s[1] \notin raced' =>
                    \A q \in due'[c] : \E x \in content : age'[q] <= age'[x]
  BY <1>8
<1> QED
  BY <1>4, <1>5, <1>6, <1>7, <1>9, GetIf

\* A request whose file and what it may find are what they were.
LEMMA SameGet ==
    ASSUME TypeOK, TypeOK', Grows, ConnsOK, NEW g \in Gets,
           get'[g] # Nil => get[g] # Nil,
           get[g] # Nil => get'[g].file = get[g].file /\ get'[g].seen = get[g].seen
    PROVE  GetOK(g)'
<1>1. CASE get'[g] = Nil
  BY <1>1 DEF GetOK
<1>2. CASE get'[g] # Nil
  <2>1. PICK f : f = get'[g].file
    OBVIOUS
  <2>2. PICK s : s = get[g].path
    OBVIOUS
  <2>3. PICK c : c = get[g].conn
    OBVIOUS
  <2>4. PICK seen : seen = get'[g].seen
    OBVIOUS
  <2>5. get[g] # Nil /\ f = get[g].file /\ seen = get[g].seen /\ f \in Posts \cup {Nil}
    BY <1>2, <2>1, <2>4 DEF TypeOK, Get
  <2>6. (f = Nil => seen = {}) /\ (f # Nil => entry[f] # Nil /\ path(f) = s)
    BY <2>2, <2>5 DEF ConnsOK, GetOK
  <2>7. f # Nil => entry'[f] # Nil /\ path(f)' = s
    BY <2>5, <2>6, Grown DEF Grows
  <2> QED
    BY <2>1, <2>2, <2>3, <2>4, <2>5, <2>6, <2>7, StillGet
<1> QED
  BY <1>1, <1>2

\* What readers see of a content that is written.
LEMMA SeesGet ==
    ASSUME TypeOK, TypeOK', Grows, ConnsOK, NEW g \in Gets,
           NEW f \in Posts, NEW content \in Content, get' = readersSee(f, content),
           get[g] # Nil /\ get[g].file = f =>
              /\ isOf(content, get[g].path)'
              /\ content # {} /\ get[g].conn # Nil /\ get[g].path[1] \notin raced' =>
                    \A q \in due'[get[g].conn] : \E x \in content : age'[q] <= age'[x]
    PROVE  GetOK(g)'
<1>1. /\ get'[g] = Nil <=> get[g] = Nil
      /\ get[g] # Nil =>
            /\ get'[g].conn = get[g].conn /\ get'[g].media = get[g].media
            /\ get'[g].path = get[g].path /\ get'[g].entry = get[g].entry
            /\ get'[g].file = get[g].file
            /\ get'[g].seen = IF answer[g] = Nil /\ get[g].file = f
                                 THEN get[g].seen \cup {content} ELSE get[g].seen
  BY Seen
<1>2. CASE get[g] = Nil \/ get[g].file # f \/ answer[g] # Nil
  BY <1>1, <1>2, SameGet
<1>3. CASE get[g] # Nil /\ get[g].file = f /\ answer[g] = Nil
  <2>1. PICK s : s = get[g].path
    OBVIOUS
  <2>2. PICK c : c = get[g].conn
    OBVIOUS
  <2>3. PICK seen : seen = get'[g].seen
    OBVIOUS
  <2>4. f = get'[g].file /\ f # Nil /\ entry[f] # Nil /\ path(f) = s
    BY <1>1, <1>3, <2>1, NoNil DEF ConnsOK, GetOK
  <2>5. entry'[f] # Nil /\ path(f)' = s
    BY <2>4, Grown DEF Grows
  <2>6. isOf(content, s)'
    <3>1. s = get[g].path /\ s = get'[g].path
      BY <1>1, <1>3, <2>1
    <3> QED
      BY <1>3, <3>1 DEF isOf, inPlace, path
  <2>7. content # {} /\ c # Nil /\ s[1] \notin raced' =>
            \A q \in due'[c] : \E x \in content : age'[q] <= age'[x]
    <3>1. c = get'[g].conn /\ s = get'[g].path
      BY <1>1, <1>3, <2>1, <2>2
    <3> QED
      BY <1>3, <2>1, <2>2, <3>1
  <2>8. \A x \in seen : x \in get[g].seen \/ x = content
    BY <1>1, <1>3, <2>3
  <2> QED
    BY <1>3, <2>1, <2>2, <2>3, <2>4, <2>5, <2>6, <2>7, <2>8, StillGet
<1> QED
  BY <1>2, <1>3


\* What a reader that opens its file may find.
LEMMA OpensGet ==
    ASSUME TypeOK, EntriesOK, FilesOK, ConnsOK, NEW g \in Gets, get[g] # Nil,
           NEW s \in Path, s = get[g].path, NEW c, c = get[g].conn, NEW f \in Posts, f = file[s],
           NEW content,
           content = data[f] \/ (content = {} /\ \E p \in Posts : post[p] = "writing" /\ file[path(p)] = f)
    PROVE  /\ entry[f] # Nil /\ path(f) = s /\ isOf(content, s)
           /\ content # {} /\ c # Nil /\ s[1] \notin raced =>
                 \A q \in due[c] : \E x \in content : age[q] <= age[x]
<1>1. f # Nil /\ entry[f] # Nil /\ path(f) = s /\ isOf(data[f], s)
  BY NoNil DEF FilesOK, NamedOK
<1>2. CASE content = data[f]
  <2>1. ASSUME content # {}, c # Nil, s[1] \notin raced, NEW q \in due[c]
        PROVE  \E x \in content : age[q] <= age[x]
    <3>1. c \in Conns /\ isCurrent(c, s) /\ q \in Posts
      BY <2>1 DEF ConnsOK, GetOK, TypeOK, Get
    <3>2. PICK e \in Posts : wasListed(e) /\ path(e) = s /\ age[q] <= age[e]
      BY <2>1, <3>1 DEF isCurrent
    <3>3. entry[e] # Nil /\ post[e] # "writing"
      BY <3>2 DEF wasListed, EntriesOK, EntryOK
    <3>4. PICK x \in data[f] : age[e] <= age[x]
      BY <1>1, <1>2, <2>1, <3>2, <3>3 DEF FilesOK, PostedOK
    <3>5. x \in Posts /\ age[q] \in Nat /\ age[e] \in Nat /\ age[x] \in Nat
      BY <3>1, <3>4 DEF TypeOK, Content
    <3> QED
      BY <1>2, <3>2, <3>4, <3>5
  <2> QED
    BY <1>1, <1>2, <2>1
<1>3. CASE content = {} /\ \E p \in Posts : post[p] = "writing" /\ file[path(p)] = f
  <2>1. PICK p \in Posts : post[p] = "writing" /\ file[path(p)] = f
    BY <1>3
  <2>2. entry[p] # Nil /\ entry[p].kind \in {"write", "append"}
    BY <2>1 DEF EntriesOK, EntryOK
  <2>3. path(p) \in Path
    BY <2>2, Paths
  <2>4. path(p) = s
    BY <1>1, <2>1, <2>3 DEF FilesOK, NamedOK
  <2>5. isOf(content, s)
    BY <1>3, <2>2, <2>4 DEF isOf, inPlace
  <2> QED
    BY <1>1, <1>3, <2>5
<1> QED
  BY <1>2, <1>3

\* What a post writes where somebody reads.
LEMMA PostSees ==
    ASSUME TypeOK, TypeOK', Grows, FilesOK, ConnsOK, NEW p \in Posts, NEW m \in Media,
           NEW n \in FileNames, NEW kind \in {"write", "append"}, Made(p, m, n, kind, "writing"),
           NEW f \in Posts, Opened(p, m, n, kind, f), NEW g \in Gets
    PROVE  GetOK(g)'
<1>1. {} \in Content /\ get' = readersSee(f, {})
  BY DEF Content, Opened
<1>2. ASSUME get[g] # Nil, get[g].file = f PROVE isOf({}, get[g].path)'
  <2>1. PICK s : s = get[g].path
    OBVIOUS
  <2>2. f # Nil /\ entry[f] # Nil /\ path(f) = s /\ s = get'[g].path
    BY <1>2, <2>1, NoNil DEF ConnsOK, GetOK, Grows
  <2>3. <<m, n>> \in Path /\ entry[p] = Nil
    BY DEF Made
  <2>4. f = file[<<m, n>>]
    BY <2>2, <2>3 DEF Opened
  <2>5. s = <<m, n>>
    BY <2>2, <2>3, <2>4, Apart
  <2>6. entry'[p] # Nil /\ path(p)' = s /\ entry'[p].kind \in {"write", "append"}
    BY <2>5 DEF Made
  <2>7. inPlace(s)'
    BY <2>6 DEF inPlace
  <2> QED
    BY <2>2, <2>7 DEF isOf, inPlace, path
<1> QED
  BY <1>1, <1>2, SeesGet

\* What it has written.
LEMMA WrittenSees ==
    ASSUME TypeOK, TypeOK', Grows, EntriesOK, BusyOK, FilesOK, FilesOK', ConnsOK,
           NEW p \in Posts, NEW m \in Media, NEW f \in Posts, NEW content \in Content,
           Recorded(p, m, f, content), NEW g \in Gets
    PROVE  GetOK(g)'
<1>1. /\ get' = readersSee(f, content) /\ f = file[path(p)] /\ data'[f] = content
      /\ p \in EntriesOf(m) /\ m = entry[p].media /\ post[p] = "writing" /\ p \in content
      /\ UNCHANGED <<entry, age, file, due, raced, load>>
  BY DEF Recorded, conns
<1>2. entry[p] # Nil /\ path(p) \in Path /\ path(p)[1] = m
  BY <1>1, Paths DEF EntriesOf
<1>3. ASSUME get[g] # Nil, get[g].file = f
      PROVE  /\ isOf(content, get[g].path)'
             /\ content # {} /\ get[g].conn # Nil /\ get[g].path[1] \notin raced' =>
                    \A q \in due'[get[g].conn] : \E x \in content : age'[q] <= age'[x]
  <2>1. PICK s : s = get[g].path
    OBVIOUS
  <2>2. PICK c : c = get[g].conn
    OBVIOUS
  <2>3. /\ f # Nil /\ entry[f] # Nil /\ path(f) = s /\ s = get'[g].path
        /\ c # Nil /\ s[1] \notin raced => isCurrent(c, s)
        /\ c \in Conns \cup {Nil}
    BY <1>3, <2>1, <2>2, NoNil DEF ConnsOK, GetOK, Grows, TypeOK, Get
  <2>4. path(p) = s
    BY <1>1, <1>2, <2>3, Apart, NoNil
  <2>5. isOf(content, s)'
    <3>1. s \in Path /\ file'[s] = f
      BY <1>1, <1>2, <2>4
    <3>2. NamedOK(s)'
      BY <3>1 DEF FilesOK
    <3> QED
      BY <1>1, <2>3, <3>1, <3>2 DEF NamedOK, isOf, inPlace, path
  <2>6. ASSUME c # Nil, s[1] \notin raced', NEW q \in due'[c]
        PROVE  age'[q] <= age'[p]
    <3>1. isCurrent(c, s) /\ q \in due[c] /\ q \in Posts
      BY <1>1, <2>3, <2>6 DEF TypeOK
    <3>2. PICK e \in Posts : wasListed(e) /\ path(e) = s /\ age[q] <= age[e]
      BY <3>1 DEF isCurrent
    <3>3. entry[e] # Nil /\ entry[e].media = m
      BY <1>2, <2>4, <3>2, Paths DEF wasListed
    <3>4. age[e] <= age[p]
      BY <1>1, <1>2, <3>3 DEF BusyOK, Over
    <3>5. age[q] \in Nat /\ age[e] \in Nat /\ age[p] \in Nat
      BY <3>1 DEF TypeOK
    <3> QED
      BY <1>1, <3>2, <3>4, <3>5
  <2> QED
    BY <1>1, <2>1, <2>2, <2>3, <2>5, <2>6 DEF isOf, inPlace, path
<1> QED
  BY <1>1, <1>3, SeesGet

LEMMA ConnsStep ==
    ASSUME TypeOK, TypeOK', Grows, Kept, EntriesOK, ZoneOK, BusyOK, FilesOK, FilesOK', ListedOK,
           ConnsOK, AnswersOK, [Next]_vars
    PROVE  ConnsOK'
<1>1. ASSUME UNCHANGED conns PROVE \A c \in Conns : ConnOK(c)'
  <2> SUFFICES ASSUME NEW c \in Conns PROVE ConnOK(c)'
    OBVIOUS
  <2>1. ConnOK(c) /\ due'[c] = due[c] /\ storageId'[c] = storageId[c]
    BY <1>1 DEF ConnsOK, conns
  <2> QED
    BY <2>1, StillConn
<1>2. ASSUME UNCHANGED get PROVE \A g \in Gets : GetOK(g)'
  BY <1>2, SameGet
<1>3. ASSUME NEW p \in Posts, NEW m \in Media, NEW n \in FileNames,
             NEW kind \in {"write", "append"}, Post(p, m, n, kind)
      PROVE  ConnsOK'
  <2>1. Made(p, m, n, kind, "writing")
    BY <1>3, Posting
  <2>2. PICK f \in Posts : Opened(p, m, n, kind, f)
    BY <1>3, Posting
  <2>3. \A g \in Gets : GetOK(g)'
    BY <2>1, <2>2, PostSees
  <2>4. \A c \in Conns : ConnOK(c)'
    BY <1>1, <2>2 DEF Opened
  <2> QED
    BY <2>3, <2>4 DEF ConnsOK
<1>4. ASSUME NEW p \in Posts, NEW m \in Media, NEW n \in FileNames, Commit(p, m, n) PROVE ConnsOK'
  <2>1. UNCHANGED conns /\ UNCHANGED get
    BY <1>4, Committing DEF Renamed, reads
  <2> QED
    BY <1>1, <1>2, <2>1 DEF ConnsOK
<1>5. ASSUME NEW p \in Posts, PostWritten(p) PROVE ConnsOK'
  <2>1. PICK m \in Media, f \in Posts, content \in Content : Recorded(p, m, f, content)
    BY <1>5, Recording
  <2>2. \A g \in Gets : GetOK(g)'
    BY <2>1, WrittenSees
  <2>3. \A c \in Conns : ConnOK(c)'
    BY <1>1, <2>1 DEF Recorded
  <2> QED
    BY <2>2, <2>3 DEF ConnsOK
<1>6. ASSUME NEW p \in Posts, PostSaved(p) \/ PostFails(p) \/ DeleteSaved(p) \/ DeleteFails(p)
                                 \/ LoadLogs(p)
      PROVE  ConnsOK'
  <2>1. UNCHANGED conns /\ UNCHANGED get
    BY <1>6, PostSaving, PostFailing, DropSaving, DropFailing, Loading DEF reads
  <2> QED
    BY <1>1, <1>2, <2>1 DEF ConnsOK
<1>7. ASSUME NEW m \in Media, Delete(m) PROVE ConnsOK'
  <2>1. PICK z \in Posts : Removed(m, z)
    BY <1>7, Deleting
  <2>2. UNCHANGED conns /\ UNCHANGED get
    BY <2>1 DEF Removed, reads
  <2> QED
    BY <1>1, <1>2, <2>2 DEF ConnsOK
\* The connectors but one, and the requests but one, are as they were.
<1>8. ASSUME NEW c \in Conns,
             \A d \in Conns \ {c} : storageId'[d] = storageId[d] /\ due'[d] = due[d],
             ConnOK(c)'
      PROVE  \A d \in Conns : ConnOK(d)'
  <2> SUFFICES ASSUME NEW d \in Conns, d # c PROVE ConnOK(d)'
    BY <1>8
  <2>1. ConnOK(d) /\ due'[d] = due[d] /\ storageId'[d] = storageId[d]
    BY <1>8 DEF ConnsOK
  <2> QED
    BY <2>1, StillConn
<1>9. ASSUME NEW g \in Gets, \A h \in Gets \ {g} : get'[h] = get[h], GetOK(g)'
      PROVE  \A h \in Gets : GetOK(h)'
  <2> SUFFICES ASSUME NEW h \in Gets, h # g PROVE GetOK(h)'
    BY <1>9
  <2> QED
    BY <1>9, SameGet
<1>10. ASSUME NEW c \in Conns, NEW m \in Media, Open(c, m) PROVE ConnsOK'
  <2>1. PICK e \in Posts : OpenedFor(c, m, e, "new_conn")
    BY <1>10, Opens
  <2>2. SameMedia /\ UNCHANGED get
    BY <1>10, Opens DEF reads
  <2>3. ConnOK(c)'
    BY <2>1, <2>2, NewConn
  <2>4. \A d \in Conns : ConnOK(d)'
    BY <1>8, <2>1, <2>3 DEF OpenedFor, Connected
  <2> QED
    BY <1>2, <2>2, <2>4 DEF ConnsOK
<1>11. ASSUME NEW g \in Gets, NEW c \in Conns, NEW m \in Media, Direct(g, c, m) PROVE ConnsOK'
  <2>1. PICK e \in Posts : OpenedFor(c, m, e, "acc_conn") /\ Asked(g, c, m, path(e), Nil)
    BY <1>11, Directs
  <2>2. SameMedia
    BY <1>11, Directs
  <2>3. /\ ConnOK(c)' /\ journal'[c] # "none" /\ isPath(path(e))' /\ path(e)[1] = m
        /\ m \notin raced' => isCurrent(c, path(e))'
    BY <2>1, <2>2, NewConn
  <2>4. \A d \in Conns : ConnOK(d)'
    BY <1>8, <2>1, <2>3 DEF OpenedFor, Connected
  <2>5. PICK s : s = path(e)
    OBVIOUS
  <2>6. s \in Path /\ s = path(e)'
    BY <2>1, <2>2, <2>5 DEF OpenedFor, SameMedia, store, path
  <2>7. isPath(s)' /\ (m \notin raced' => isCurrent(c, s)')
    BY <2>3, <2>6 DEF isPath, isCurrent, path, wasListed
  <2>8. GetOK(g)'
    BY <2>1, <2>3, <2>5, <2>6, <2>7, NewGet, NoNil
  <2>9. \A h \in Gets : GetOK(h)'
    BY <1>9, <2>1, <2>8 DEF Asked
  <2> QED
    BY <2>4, <2>9 DEF ConnsOK
<1>12. ASSUME NEW g \in Gets, NEW c \in Conns, Find(g, c) PROVE ConnsOK'
  <2>1. PICK m \in Media, s \in Path :
           /\ m = storageId[c].ref /\ s = storageId[c].source
           /\ Connected(c, m, s, "acc_conn") /\ Asked(g, c, m, s, Nil)
    BY <1>12, Finds
  <2>2. storageId[c] # Nil /\ SameMedia /\ UNCHANGED due
    BY <1>12, Finds
  <2>3. ConnOK(c)
    BY DEF ConnsOK
  <2>4. ConnOK(c)'
    BY <2>1, <2>2, <2>3, StillConn DEF Connected
  <2>5. \A d \in Conns : ConnOK(d)'
    BY <1>8, <2>1, <2>2, <2>4 DEF Connected
  <2>6. /\ m = s[1] /\ isPath(s) /\ (m \notin raced => isCurrent(c, s))
        /\ journal[c] # "none" /\ \A q \in due[c] : entry[q] # Nil
    BY <2>1, <2>2, <2>3 DEF ConnOK
  <2>7. isPath(s)' /\ (m \notin raced' => isCurrent(c, s)') /\ journal'[c] # "none"
    BY <2>1, <2>2, <2>6, Grown DEF Connected, SameMedia
  <2>8. GetOK(g)'
    BY <2>1, <2>6, <2>7, NewGet, NoNil
  <2>9. \A h \in Gets : GetOK(h)'
    BY <1>9, <2>1, <2>8 DEF Asked
  <2> QED
    BY <2>5, <2>9 DEF ConnsOK
<1>13. ASSUME NEW g \in Gets, NEW m \in Media, Check(g, m) PROVE ConnsOK'
  <2>1. PICK e \in Posts :
           /\ e = db[m] /\ e \in EntriesOf(m) /\ wasListed(e)
           /\ path(e) \in Path /\ path(e)[1] = m
           /\ Asked(g, Nil, m, path(e), e)
    BY <1>13, Checks
  <2>2. SameMedia /\ UNCHANGED conns
    BY <1>13, Checks
  <2>3. PICK s : s = path(e)
    OBVIOUS
  <2>4. path(e)' = s /\ wasListed(e)'
    BY <2>1, <2>2, <2>3 DEF SameMedia, store, logs, path, wasListed
  <2>5. isPath(s)'
    BY <2>4 DEF isPath
  <2>6. GetOK(g)'
    BY <2>1, <2>3, <2>4, <2>5, NewGet, NoNil
  <2>7. \A h \in Gets : GetOK(h)'
    BY <1>9, <2>1, <2>6 DEF Asked
  <2> QED
    BY <1>1, <2>2, <2>7 DEF ConnsOK
<1>14. ASSUME NEW g \in Gets, ReadOpens(g) PROVE ConnsOK'
  <2>1. PICK f \in Posts, seen \in SUBSET Content :
           /\ f = file[get[g].path] /\ Reads(g, f, seen)
           /\ \A content \in seen :
                 content = data[f]
                 \/ (content = {} /\ \E p \in Posts : post[p] = "writing" /\ file[path(p)] = f)
    BY <1>14, ReadOpening
  <2>2. SameMedia /\ UNCHANGED conns /\ get[g].path \in Path /\ get[g] # Nil
    BY <1>14, <2>1, ReadOpening DEF Reads
  <2>3. PICK s \in Path : s = get[g].path
    BY <2>2
  <2>4. PICK c : c = get[g].conn
    OBVIOUS
  <2>5. \A content \in seen :
           /\ isOf(content, s)
           /\ content # {} /\ c # Nil /\ s[1] \notin raced =>
                 \A q \in due[c] : \E x \in content : age[q] <= age[x]
    <3> SUFFICES ASSUME NEW content \in seen
                 PROVE  /\ isOf(content, s)
                        /\ content # {} /\ c # Nil /\ s[1] \notin raced =>
                              \A q \in due[c] : \E x \in content : age[q] <= age[x]
      OBVIOUS
    <3>1. f = file[s]
      BY <2>1, <2>3
    <3>2. content = data[f] \/ (content = {} /\ \E p \in Posts : post[p] = "writing" /\ file[path(p)] = f)
      BY <2>1
    <3> QED
      BY <2>2, <2>3, <2>4, <3>1, <3>2, OpensGet
  <2>6. entry[f] # Nil /\ path(f) = s
    BY <2>1, <2>2, <2>3, NoNil DEF FilesOK, NamedOK
  <2>7. UNCHANGED <<entry, age, due, raced>>
    BY <2>2 DEF SameMedia, store, conns
  <2>8. \A content \in seen :
           /\ isOf(content, s)'
           /\ content # {} /\ c # Nil /\ s[1] \notin raced' =>
                 \A q \in due'[c] : \E x \in content : age'[q] <= age'[x]
    BY <2>5, <2>7 DEF isOf, inPlace, path
  <2>9. f = get'[g].file /\ seen = get'[g].seen /\ f # Nil /\ entry'[f] # Nil /\ path(f)' = s
    BY <2>1, <2>6, <2>7, NoNil DEF Reads, path
  <2>10. GetOK(g)'
    BY <2>2, <2>3, <2>4, <2>8, <2>9, StillGet
  <2>11. \A h \in Gets : GetOK(h)'
    BY <1>9, <2>1, <2>10 DEF Reads
  <2> QED
    BY <1>1, <2>2, <2>11 DEF ConnsOK
<1>15. ASSUME NEW g \in Gets, ReadFails(g) PROVE ConnsOK'
  BY <1>1, <1>2, <1>15, ReadFailing DEF ConnsOK
<1>16. ASSUME NEW g \in Gets, Served(g) \/ Checked(g) PROVE ConnsOK'
  <2>1. Reads(g, Nil, {}) /\ UNCHANGED conns
    BY <1>16, Serving, Checking
  <2>2. PICK s : s = get[g].path
    OBVIOUS
  <2>3. PICK c : c = get[g].conn
    OBVIOUS
  <2>4. Nil = get'[g].file /\ {} = get'[g].seen /\ get[g] # Nil
    BY <2>1 DEF Reads
  <2>5. GetOK(g)'
    BY <2>2, <2>3, <2>4, StillGet
  <2>6. \A h \in Gets : GetOK(h)'
    BY <1>9, <2>1, <2>5 DEF Reads
  <2> QED
    BY <1>1, <2>1, <2>6 DEF ConnsOK
<1>17. ASSUME Timers \/ Interrupt \/ Close PROVE ConnsOK'
  <2>1. /\ \A c \in Conns : storageId'[c] = Nil \/ storageId'[c] = storageId[c]
        /\ UNCHANGED due /\ UNCHANGED get
    BY <1>17, Ending DEF Timers, reads
  <2> SUFFICES ASSUME NEW c \in Conns PROVE ConnOK(c)'
    BY <1>2, <2>1 DEF ConnsOK
  <2>2. ConnOK(c) /\ due'[c] = due[c] /\ (storageId'[c] = Nil \/ storageId'[c] = storageId[c])
    BY <2>1 DEF ConnsOK
  <2>3. CASE storageId'[c] = Nil
    BY <2>2, <2>3, StillConn
  <2>4. CASE storageId'[c] # Nil
    BY <2>2, <2>4, StillConn
  <2> QED
    BY <2>3, <2>4
<1>18. CASE UNCHANGED vars
  BY <1>1, <1>2, <1>18 DEF vars, reads, ConnsOK
<1> QED
  BY <1>3, <1>4, <1>5, <1>6, <1>7, <1>10, <1>11, <1>12, <1>13, <1>14, <1>15, <1>16, <1>17, <1>18
     DEF Next, Clients, Callbacks

(***************************************************************************)
(* Answers.                                                                *)
(***************************************************************************)

LEMMA AnswerIf ==
    ASSUME NEW g \in Gets, NEW s, s = get'[g].path, NEW c, c = get'[g].conn,
           NEW status, status = answer'[g].status, NEW content, content = answer'[g].content,
           NEW m, m = s[1], get'[g] # Nil,
           status \in {"notFound", "error"} => isGone(m)',
           status = "ok" =>
              /\ isOf(content, s)'
              /\ content # {} /\ c # Nil /\ m \notin raced' =>
                    \A q \in due'[c] : \E x \in content : age'[q] <= age'[x]
    PROVE  AnswerOK(g)'
<1>1. isGone(m)' => isGone(get[g].path[1])'
  BY DEF isGone, EntriesOf
<1>2. isOf(content, s)' => isOf(answer[g].content, get[g].path)'
  BY DEF isOf, inPlace, path
<1> QED
  BY <1>1, <1>2 DEF AnswerOK

LEMMA StillAnswer ==
    ASSUME TypeOK, TypeOK', Grows, ConnsOK, AnswersOK, NEW g \in Gets, answer[g] # Nil
    PROVE  AnswerOK(g)'
<1>1. PICK s : s = get[g].path
  OBVIOUS
<1>2. PICK c : c = get[g].conn
  OBVIOUS
<1>3. PICK status : status = answer[g].status
  OBVIOUS
<1>4. PICK content : content = answer[g].content
  OBVIOUS
<1>5. PICK m : m = s[1]
  OBVIOUS
<1>6. /\ get[g] # Nil
      /\ status \in {"notFound", "error"} => isGone(m)
      /\ status = "ok" =>
            /\ isOf(content, s)
            /\ content # {} /\ c # Nil /\ m \notin raced =>
                  \A q \in due[c] : \E x \in content : age[q] <= age[x]
  BY <1>1, <1>2, <1>3, <1>4, <1>5 DEF AnswersOK, AnswerOK
<1>7. /\ s = get'[g].path /\ c = get'[g].conn /\ status = answer'[g].status
      /\ content = answer'[g].content /\ get'[g] # Nil /\ raced \subseteq raced'
  BY <1>1, <1>2, <1>3, <1>4, <1>6 DEF Grows
<1>8. s \in Path /\ m \in Media /\ c \in Conns \cup {Nil} /\ content \in Content
  BY <1>1, <1>2, <1>4, <1>5, <1>6 DEF TypeOK, Get, Answer, Path
<1>9. status \in {"notFound", "error"} => isGone(m)'
  BY <1>6, <1>8, Grown
<1>10. ASSUME status = "ok"
       PROVE  /\ isOf(content, s)'
              /\ content # {} /\ c # Nil /\ m \notin raced' =>
                    \A q \in due'[c] : \E x \in content : age'[q] <= age'[x]
  <2>1. isOf(content, s)
    BY <1>6, <1>10
  <2>2. isOf(content, s)'
    BY <1>8, <2>1, Grown
  <2>3. \A x \in content : x \in Posts /\ age'[x] = age[x]
    BY <1>8, <2>1 DEF Content, isOf, Grows
  <2>4. ASSUME c # Nil
        PROVE  due'[c] = due[c] /\ \A q \in due[c] : age'[q] = age[q]
    <3>1. c \in Conns /\ journal[c] # "none"
      BY <1>2, <1>6, <1>8, <2>4 DEF ConnsOK, GetOK
    <3>2. \A q \in due[c] : q \in Posts /\ entry[q] # Nil
      BY <3>1 DEF ConnsOK, ConnOK, TypeOK
    <3> QED
      BY <3>1, <3>2 DEF Grows
  <2> QED
    BY <1>6, <1>7, <1>10, <2>2, <2>3, <2>4
<1> QED
  BY <1>5, <1>6, <1>7, <1>9, <1>10, AnswerIf

\* What is served was seen.
LEMMA SeenAnswer ==
    ASSUME TypeOK, TypeOK', Grows, ConnsOK, NEW g \in Gets, NEW content \in Content,
           content \in get[g].seen, Reads(g, Nil, {}), Answered(g, "ok", content), SameMedia
    PROVE  AnswerOK(g)'
<1>1. PICK s : s = get[g].path
  OBVIOUS
<1>2. PICK c : c = get[g].conn
  OBVIOUS
<1>3. PICK m : m = s[1]
  OBVIOUS
<1>4. get[g] # Nil /\ s = get'[g].path /\ c = get'[g].conn /\ get'[g] # Nil
      /\ "ok" = answer'[g].status /\ content = answer'[g].content
  BY <1>1, <1>2 DEF Reads, Answered
<1>5. /\ isOf(content, s) /\ c \in Conns \cup {Nil}
      /\ c # Nil => journal[c] # "none"
      /\ content # {} /\ c # Nil /\ m \notin raced =>
            \A q \in due[c] : \E x \in content : age[q] <= age[x]
  <2>1. GetOK(g) /\ get[g] \in Get
    BY <1>4 DEF ConnsOK, TypeOK
  <2>2. c \in Conns \cup {Nil}
    BY <1>2, <2>1 DEF Get
  <2>3. c # Nil => journal[c] # "none"
    BY <1>2, <1>4, <2>1 DEF GetOK
  <2>4. /\ isOf(content, s)
        /\ content # {} /\ c # Nil /\ m \notin raced =>
            \A q \in due[c] : \E x \in content : age[q] <= age[x]
    BY <1>1, <1>2, <1>3, <1>4, <2>1 DEF GetOK
  <2> QED
    BY <2>2, <2>3, <2>4
<1>6. UNCHANGED <<entry, age, raced>>
  BY DEF SameMedia, store
<1>7. c # Nil => due'[c] = due[c]
  BY <1>5 DEF Grows
<1>8. isOf(content, s)'
  BY <1>5, <1>6 DEF isOf, inPlace, path
<1>9. content # {} /\ c # Nil /\ m \notin raced' =>
            \A q \in due'[c] : \E x \in content : age'[q] <= age'[x]
  BY <1>5, <1>6, <1>7
<1> QED
  BY <1>3, <1>4, <1>8, <1>9, AnswerIf

LEMMA AnswersStep ==
    ASSUME TypeOK, TypeOK', Grows, EntriesOK, ZoneOK, FilesOK, ConnsOK, AnswersOK, [Next]_vars
    PROVE  AnswersOK'
<1>1. ASSUME NEW g \in Gets, answer'[g] = answer[g] PROVE AnswerOK(g)'
  <2>1. CASE answer[g] = Nil
    BY <1>1, <2>1 DEF AnswerOK
  <2> QED
    BY <2>1, StillAnswer
<1>2. ASSUME NEW g \in Gets, \A h \in Gets \ {g} : answer'[h] = answer[h], AnswerOK(g)'
      PROVE  AnswersOK'
  BY <1>1, <1>2 DEF AnswersOK
<1>3. ASSUME UNCHANGED answer PROVE AnswersOK'
  BY <1>1, <1>3 DEF AnswersOK
<1>4. ASSUME NEW g \in Gets, NEW c \in Conns, Find(g, c) PROVE AnswersOK'
  <2>1. PICK m \in Media, s \in Path :
           /\ m = storageId[c].ref /\ s = storageId[c].source
           /\ Asked(g, c, m, s, Nil)
           /\ answer' = answer \/ (db[m] = Nil /\ Answered(g, "error", {}))
    BY <1>4, Finds
  <2>2. storageId[c] # Nil
    BY <1>4, Finds
  <2>3. CASE answer' = answer
    BY <1>3, <2>3
  <2>4. CASE db[m] = Nil /\ Answered(g, "error", {})
    <3>1. m = s[1] /\ isGone(m)
      BY <2>1, <2>2, <2>4 DEF ConnsOK, ConnOK
    <3>2. isGone(m)'
      BY <3>1, Grown
    <3>3. /\ s = get'[g].path /\ c = get'[g].conn /\ get'[g] # Nil
          /\ "error" = answer'[g].status /\ {} = answer'[g].content
          /\ \A h \in Gets \ {g} : answer'[h] = answer[h]
      BY <2>1, <2>4 DEF Asked, Answered
    <3>4. AnswerOK(g)'
      BY <3>1, <3>2, <3>3, AnswerIf
    <3> QED
      BY <1>2, <3>3, <3>4
  <2> QED
    BY <2>1, <2>3, <2>4
<1>5. ASSUME NEW g \in Gets, ReadFails(g) PROVE AnswersOK'
  <2>1. /\ get[g] # Nil /\ get[g].path \in Path /\ file[get[g].path] = Nil
        /\ Answered(g, "notFound", {}) /\ UNCHANGED get
    BY <1>5, ReadFailing
  <2>2. PICK s \in Path : s = get[g].path
    BY <2>1
  <2>3. PICK c : c = get[g].conn
    OBVIOUS
  <2>4. PICK m : m = s[1]
    OBVIOUS
  <2>5. m \in Media
    BY <2>4 DEF Path
  <2>6. isPath(s)
    BY <2>1, <2>2 DEF ConnsOK, GetOK
  <2>7. PICK e \in Posts : wasListed(e) /\ path(e) = s
    BY <2>6 DEF isPath
  <2>8. entry[e] # Nil /\ post[e] # "writing" /\ entry[e].media = m
    BY <2>4, <2>7, Paths DEF wasListed, EntriesOK, EntryOK
  <2>9. isGone(m)
    BY <2>1, <2>2, <2>7, <2>8 DEF FilesOK, PostedOK
  <2>10. isGone(m)'
    BY <2>5, <2>9, Grown
  <2>11. /\ s = get'[g].path /\ c = get'[g].conn /\ get'[g] # Nil
         /\ "notFound" = answer'[g].status /\ {} = answer'[g].content
         /\ \A h \in Gets \ {g} : answer'[h] = answer[h]
    BY <2>1, <2>2, <2>3 DEF Answered
  <2>12. AnswerOK(g)'
    BY <2>4, <2>10, <2>11, AnswerIf
  <2> QED
    BY <1>2, <2>11, <2>12
<1>6. ASSUME NEW g \in Gets, Served(g) \/ Checked(g) PROVE AnswersOK'
  <2>1. PICK content \in Content :
           content \in get[g].seen /\ Reads(g, Nil, {}) /\ Answered(g, "ok", content)
    BY <1>6, Serving, Checking
  <2>2. SameMedia
    BY <1>6, Serving, Checking
  <2>3. AnswerOK(g)'
    BY <2>1, <2>2, SeenAnswer
  <2> QED
    BY <1>2, <2>1, <2>3 DEF Answered
<1>7. ASSUME NEW p \in Posts, NEW m \in Media, NEW n \in FileNames,
             NEW kind \in {"write", "append"}, Post(p, m, n, kind)
      PROVE  AnswersOK'
  <2>1. PICK f \in Posts : Opened(p, m, n, kind, f)
    BY <1>7, Posting
  <2> QED
    BY <1>3, <2>1 DEF Opened
<1>8. ASSUME NEW p \in Posts, PostWritten(p) PROVE AnswersOK'
  <2>1. PICK m \in Media, f \in Posts, content \in Content : Recorded(p, m, f, content)
    BY <1>8, Recording
  <2> QED
    BY <1>3, <2>1 DEF Recorded
<1>9. ASSUME NEW m \in Media, Delete(m) PROVE AnswersOK'
  <2>1. PICK z \in Posts : Removed(m, z)
    BY <1>9, Deleting
  <2> QED
    BY <1>3, <2>1 DEF Removed, reads
<1>10. ASSUME \/ \E p \in Posts, m \in Media, n \in FileNames : Commit(p, m, n)
              \/ \E p \in Posts : PostSaved(p) \/ PostFails(p) \/ DeleteSaved(p) \/ DeleteFails(p)
                                     \/ LoadLogs(p)
       PROVE  AnswersOK'
  BY <1>3, <1>10, Committing, PostSaving, PostFailing, DropSaving, DropFailing, Loading
     DEF Renamed, reads
<1>11. ASSUME \/ \E c \in Conns, m \in Media : Open(c, m) \/ \E g \in Gets : Direct(g, c, m)
              \/ \E g \in Gets, m \in Media : Check(g, m)
              \/ \E g \in Gets : ReadOpens(g)
       PROVE  AnswersOK'
  BY <1>3, <1>11, Opens, Directs, Checks, ReadOpening DEF reads
<1>12. ASSUME Timers \/ Interrupt \/ Close PROVE AnswersOK'
  BY <1>3, <1>12, Ending DEF Timers, reads
<1>13. CASE UNCHANGED vars
  BY <1>3, <1>13 DEF vars, reads
<1> QED
  BY <1>4, <1>5, <1>6, <1>7, <1>8, <1>9, <1>10, <1>11, <1>12, <1>13
     DEF Next, Clients, Callbacks

(***************************************************************************)
(* Hashes.                                                                 *)
(***************************************************************************)

\* A check of an entry, that reads a file.
Checker(g, e) ==
    /\ get[g] # Nil /\ answer[g] = Nil /\ get[g].conn = Nil /\ get[g].entry = e
    /\ get[g].file # Nil

LEMMA HashIf ==
    ASSUME NEW m \in Media, NEW e, e = db'[m], NEW s, e # Nil => s = path(e)',
           NEW f, f = file'[s], NEW content, content = data'[f],
           e # Nil /\ isStill(m)' /\ ~isUnsaved(e)' /\ f # Nil =>
              /\ md5'[e] = content \/ md5'[e] = Nil \/ (entry'[e].kind = "append" /\ md5'[e] = {e})
              /\ \A g \in Gets : Checker(g, e)' => get'[g].file = f /\ get'[g].seen = {content}
    PROVE  HashOK(m)'
<1>1. isUnsaved(e)' => isUnsaved(db[m])'
  BY DEF isUnsaved, EntriesOf
<1>2. e # Nil => s = path(db[m])'
  BY DEF path
<1> QED
  BY <1>1, <1>2 DEF HashOK, Checker

\* The entry of a media that is still listed, with its file or without.
LEMMA StillHash ==
    ASSUME TypeOK, TypeOK', Grows, ZoneOK, HashesOK, NEW m \in Media, db'[m] = db[m],
           NEW e \in Posts, e = db[m], NEW s, s = path(e),
           isStill(m)' => isStill(m),
           file'[s] = file[s] \/ file'[s] = Nil,
           file[s] # Nil => data'[file[s]] = data[file[s]],
           md5'[e] = md5[e] \/ (HashOK(m) /\ isStill(m) /\ ~isUnsaved(e) /\ file[s] # Nil => md5'[e] = data[file[s]]),
           \A g \in Gets : Checker(g, e)' => Checker(g, e) /\ get'[g].file = get[g].file,
           \A g \in Gets :
              Checker(g, e) /\ Checker(g, e)' /\ get[g].file = file[s] => get'[g].seen = get[g].seen
    PROVE  HashOK(m)'
<1>1. PICK f : f = file'[s]
  OBVIOUS
<1>2. PICK content : content = data'[f]
  OBVIOUS
<1>3. e # Nil /\ e \in EntriesOf(m) /\ entry[e] # Nil
  BY NoNil DEF ZoneOK, EntriesOf
<1>4. entry'[e] = entry[e] /\ s = path(e)' /\ (isUnsaved(e) => isUnsaved(e)')
  BY <1>3, Grown DEF Grows
<1>5. ASSUME isStill(m)', ~isUnsaved(e)', f # Nil
      PROVE  /\ md5'[e] = content \/ md5'[e] = Nil \/ (entry'[e].kind = "append" /\ md5'[e] = {e})
             /\ \A g \in Gets : Checker(g, e)' => get'[g].file = f /\ get'[g].seen = {content}
  <2>1. isStill(m) /\ ~isUnsaved(e) /\ file[s] = f /\ data[f] = content
    BY <1>1, <1>2, <1>4, <1>5
  <2>2. HashOK(m)
    BY DEF HashesOK
  <2>3. /\ md5[e] = content \/ md5[e] = Nil \/ (entry[e].kind = "append" /\ md5[e] = {e})
        /\ \A g \in Gets : Checker(g, e) => get[g].file = f /\ get[g].seen = {content}
    BY <1>3, <1>5, <2>1, <2>2 DEF HashOK, Checker
  <2>4. md5'[e] = md5[e] \/ md5'[e] = content
    BY <1>5, <2>1, <2>2
  <2>5. ASSUME NEW g \in Gets, Checker(g, e)' PROVE get'[g].file = f /\ get'[g].seen = {content}
    BY <2>1, <2>3, <2>5
  <2> QED
    BY <1>4, <2>3, <2>4, <2>5
<1>6. e = db'[m] /\ (e # Nil => s = path(e)')
  BY <1>4
<1> QED
  BY <1>1, <1>2, <1>5, <1>6, HashIf

\* Where requests to read are as they were, or see what they saw.
LEMMA SameChecker ==
    ASSUME Grows, NEW e, NEW g \in Gets, get'[g] = get[g]
    PROVE  Checker(g, e)' => Checker(g, e) /\ get'[g].file = get[g].file /\ get'[g].seen = get[g].seen
BY DEF Checker, Grows

LEMMA SeenChecker ==
    ASSUME TypeOK, Grows, NEW e, NEW g \in Gets,
           NEW f \in Posts, NEW content \in Content, get' = readersSee(f, content)
    PROVE  /\ Checker(g, e)' => Checker(g, e) /\ get'[g].file = get[g].file
           /\ Checker(g, e) /\ get[g].file # f => get'[g].seen = get[g].seen
<1>1. /\ get'[g] = Nil <=> get[g] = Nil
      /\ get[g] # Nil =>
            /\ get'[g].conn = get[g].conn /\ get'[g].entry = get[g].entry
            /\ get'[g].file = get[g].file
            /\ get'[g].seen = IF answer[g] = Nil /\ get[g].file = f
                                 THEN get[g].seen \cup {content} ELSE get[g].seen
  BY Seen
<1> QED
  BY <1>1 DEF Checker, Grows

\* A write of another media leaves alone what is listed.
LEMMA OtherHash ==
    ASSUME TypeOK, TypeOK', Grows, ZoneOK, FilesOK, HashesOK, NEW m \in Media, db'[m] = db[m],
           NEW e \in Posts, e = db[m], NEW o \in Media, o # m,
           NEW t \in Path, t[1] = o, NEW f \in Posts, f = file[t] \/ entry[f] = Nil,
           \A q \in EntriesOf(m) : post'[q] = post[q],
           \A x \in Path : x # t => file'[x] = file[x],
           \A x \in Posts \ {f} : data'[x] = data[x],
           md5'[e] = md5[e],
           get' = get \/ \E content \in Content : get' = readersSee(f, content)
    PROVE  HashOK(m)'
<1>1. PICK s : s = path(e)
  OBVIOUS
<1>2. e \in EntriesOf(m) /\ entry[e] # Nil /\ s \in Path /\ s[1] = m /\ s # t
  BY <1>1, NoNil, Paths DEF ZoneOK, EntriesOf
<1>3. file'[s] = file[s] /\ (file[s] # Nil => data'[file[s]] = data[file[s]])
  BY <1>2, OtherFiles
<1>4. file[s] # Nil => file[s] # f
  BY <1>2, Apart
<1>5. isStill(m)' => isStill(m)
  <2>1. EntriesOf(m) \subseteq EntriesOf(m)'
    BY Grown
  <2> QED
    BY <2>1 DEF isStill
<1>6. ASSUME NEW g \in Gets
      PROVE  /\ Checker(g, e)' => Checker(g, e) /\ get'[g].file = get[g].file
             /\ Checker(g, e) /\ Checker(g, e)' /\ get[g].file = file[s] => get'[g].seen = get[g].seen
  <2>1. CASE get' = get
    BY <2>1, SameChecker
  <2>2. CASE get' # get
    <3>1. PICK content \in Content : get' = readersSee(f, content)
      BY <2>2
    <3>2. /\ Checker(g, e)' => Checker(g, e) /\ get'[g].file = get[g].file
          /\ Checker(g, e) /\ get[g].file # f => get'[g].seen = get[g].seen
      BY <3>1, SeenChecker
    <3>3. Checker(g, e) => get[g].file # Nil
      BY DEF Checker
    <3> QED
      BY <1>4, <3>2, <3>3
  <2> QED
    BY <2>1, <2>2
<1> QED
  BY <1>1, <1>3, <1>5, <1>6, StillHash

\* A request of another media, or one that leaves the entries and files alone.
LEMMA LeftHash ==
    ASSUME TypeOK, TypeOK', Grows, ZoneOK, HashesOK, NEW m \in Media, db'[m] = db[m],
           NEW e \in Posts, e = db[m],
           \A q \in EntriesOf(m) : post'[q] = post[q],
           UNCHANGED <<disk, md5, get>>
    PROVE  HashOK(m)'
<1>1. PICK s : s = path(e)
  OBVIOUS
<1>2. isStill(m)' => isStill(m)
  <2>1. EntriesOf(m) \subseteq EntriesOf(m)'
    BY Grown
  <2> QED
    BY <2>1 DEF isStill
<1>3. UNCHANGED <<file, data, md5, get>>
  BY DEF disk
<1>4. \A g \in Gets : Checker(g, e)' => Checker(g, e) /\ get'[g].file = get[g].file
                                           /\ get'[g].seen = get[g].seen
  BY <1>3, SameChecker
<1> QED
  BY <1>1, <1>2, <1>3, <1>4, StillHash

\* An entry that was not listed is not checked.
LEMMA Unchecked ==
    ASSUME Grows, ConnsOK, NEW p \in Posts, ~wasListed(p), UNCHANGED get
    PROVE  \A g \in Gets : ~Checker(g, p)'
BY DEF Checker, ConnsOK, GetOK, Grows

LEMMA HashesByWriter ==
    ASSUME TypeOK, TypeOK', Grows, EntriesOK, ZoneOK, ZoneOK', BusyOK, FilesOK, ConnsOK, HashesOK, Writer
    PROVE  HashesOK'
<1> SUFFICES ASSUME NEW m \in Media, db'[m] # Nil PROVE HashOK(m)'
  BY DEF HashesOK, HashOK
<1>0. \A q \in EntriesOf(m) : q \in Posts /\ entry[q] # Nil /\ entry[q].media = m
  BY DEF EntriesOf
<1>1. ASSUME NEW p \in Posts, p \in EntriesOf(m)', post'[p] \notin Over PROVE HashOK(m)'
  <2>1. ~isStill(m)'
    BY <1>1 DEF isStill
  <2> QED
    BY <2>1 DEF HashOK
<1>2. db'[m] = db[m] => db[m] \in Posts
  BY DEF TypeOK
<1>3. ASSUME NEW p \in Posts, NEW o \in Media, NEW n \in FileNames,
             NEW kind \in {"write", "append"}, Post(p, o, n, kind)
      PROVE  HashOK(m)'
  <2>1. Made(p, o, n, kind, "writing")
    BY <1>3, Posting
  <2>2. PICK f \in Posts : Opened(p, o, n, kind, f)
    BY <1>3, Posting
  <2>3. CASE o = m
    <3>1. p \in EntriesOf(m)' /\ post'[p] \notin Over
      BY <2>1, <2>3 DEF Made, EntriesOf, Over
    <3> QED
      BY <1>1, <3>1
  <2>4. CASE o # m
    <3>1. PICK t \in Path : t = <<o, n>>
      BY <2>1 DEF Made
    <3>2. t[1] = o /\ entry[p] = Nil /\ (f = file[t] \/ entry[f] = Nil)
          /\ (\A x \in Path : x # t => file'[x] = file[x])
          /\ (\A x \in Posts \ {f} : data'[x] = data[x]) /\ UNCHANGED db
      BY <2>1, <2>2, <3>1 DEF Made, Opened
    <3>3. {} \in Content /\ get' = readersSee(f, {})
      BY <2>2 DEF Content, Opened
    <3>4. PICK e \in Posts : e = db[m]
      BY <1>2, <3>2
    <3>5. e # p /\ md5'[e] = md5[e] /\ \A q \in EntriesOf(m) : post'[q] = post[q]
      <4>1. e \in EntriesOf(m) /\ entry[e] # Nil
        BY <3>4, NoNil DEF ZoneOK, EntriesOf
      <4> QED
        BY <1>0, <2>1, <3>2, <4>1 DEF Made
    <3> QED
      BY <2>4, <3>2, <3>3, <3>4, <3>5, OtherHash
  <2> QED
    BY <2>3, <2>4
<1>4. ASSUME NEW p \in Posts, NEW o \in Media, NEW n \in FileNames, Commit(p, o, n)
      PROVE  HashOK(m)'
  <2>1. Made(p, o, n, "commit", "saving") /\ Renamed(p, o, n)
    BY <1>4, Committing
  <2>2. CASE o = m
    <3>1. p \in EntriesOf(m)' /\ post'[p] \notin Over
      BY <2>1, <2>2 DEF Made, EntriesOf, Over
    <3> QED
      BY <1>1, <3>1
  <2>3. CASE o # m
    <3>1. PICK t \in Path : t = <<o, n>>
      BY <2>1 DEF Made
    <3>2. t[1] = o /\ entry[p] = Nil
          /\ (\A x \in Path : x # t => file'[x] = file[x])
          /\ (\A x \in Posts \ {p} : data'[x] = data[x]) /\ UNCHANGED db /\ get' = get
      BY <2>1, <3>1 DEF Made, Renamed, reads
    <3>3. PICK e \in Posts : e = db[m]
      BY <1>2, <3>2
    <3>4. e # p /\ md5'[e] = md5[e] /\ \A q \in EntriesOf(m) : post'[q] = post[q]
      <4>1. e \in EntriesOf(m) /\ entry[e] # Nil
        BY <3>3, NoNil DEF ZoneOK, EntriesOf
      <4> QED
        BY <1>0, <2>1, <3>2, <4>1 DEF Made
    <3> QED
      BY <2>3, <3>2, <3>3, <3>4, OtherHash
  <2> QED
    BY <2>2, <2>3
<1>5. ASSUME NEW p \in Posts, PostWritten(p) PROVE HashOK(m)'
  <2>1. PICK o \in Media, f \in Posts, content \in Content : Recorded(p, o, f, content)
    BY <1>5, Recording
  <2>2. /\ p \in EntriesOf(o) /\ post'[p] = "saving" /\ o = entry[p].media
        /\ f = file[path(p)] /\ get' = readersSee(f, content)
        /\ \A x \in Posts \ {f} : data'[x] = data[x]
        /\ \A q \in Posts \ {p} : post'[q] = post[q]
        /\ UNCHANGED <<entry, file, db, md5>>
    BY <2>1 DEF Recorded
  <2>3. CASE o = m
    <3>1. p \in EntriesOf(m)' /\ post'[p] \notin Over
      BY <2>2, <2>3 DEF EntriesOf, Over
    <3> QED
      BY <1>1, <3>1
  <2>4. CASE o # m
    <3>1. PICK t : t = path(p)
      OBVIOUS
    <3>2. t \in Path /\ t[1] = o /\ f = file[t]
      BY <2>2, <3>1, Paths DEF EntriesOf
    <3>3. PICK e \in Posts : e = db[m]
      BY <1>2, <2>2
    <3>4. \A q \in EntriesOf(m) : post'[q] = post[q]
      BY <1>0, <2>2, <2>4
    <3> QED
      BY <2>2, <2>4, <3>2, <3>3, <3>4, OtherHash
  <2> QED
    BY <2>3, <2>4
<1>6. ASSUME NEW p \in Posts, PostSaved(p) PROVE HashOK(m)'
  <2>1. PICK o \in Media : p \in EntriesOf(o) /\ o = entry[p].media /\ ListedFor(o, p)
    BY <1>6, PostSaving
  <2>2. /\ post[p] = "saving" /\ \A q \in Posts \ {p} : post'[q] = post[q]
        /\ UNCHANGED <<entry, md5, file, data, disk, get>>
    BY <1>6, PostSaving DEF store, disk, reads
  <2>3. CASE o = m
    <3>1. PICK s : s = path(p)
      OBVIOUS
    <3>2. PICK f : f = file'[s]
      OBVIOUS
    <3>3. PICK content : content = data'[f]
      OBVIOUS
    <3>4. entry[p] # Nil /\ ~wasListed(p) /\ md5[p] = {p}
          /\ (entry[p].kind = "append" \/ f = Nil \/ content = {p})
      BY <2>1, <2>2, <3>1, <3>2, <3>3 DEF EntriesOf, EntriesOK, EntryOK, wasListed
    <3>5. \A g \in Gets : ~Checker(g, p)'
      BY <2>2, <3>4, Unchecked
    <3>6. p = db'[m] /\ s = path(p)'
      BY <2>1, <2>2, <2>3, <3>1 DEF ListedFor, path
    <3>7. md5'[p] = {p} /\ entry'[p] = entry[p]
      BY <2>2, <3>4
    <3> QED
      BY <3>2, <3>3, <3>4, <3>5, <3>6, <3>7, HashIf
  <2>4. CASE o # m
    <3>1. db'[m] = db[m] /\ \A q \in EntriesOf(m) : post'[q] = post[q]
      BY <1>0, <2>1, <2>2, <2>4 DEF ListedFor
    <3> QED
      BY <1>2, <2>2, <3>1, LeftHash
  <2> QED
    BY <2>3, <2>4
<1>7. ASSUME NEW p \in Posts, PostFails(p) PROVE HashOK(m)'
  <2>1. /\ entry[p] # Nil /\ post[p] = "saving" /\ post'[p] = "failed"
        /\ \A q \in Posts \ {p} : post'[q] = post[q]
        /\ UNCHANGED <<entry, age, md5, disk, db, get>>
    BY <1>7, PostFailing DEF store, reads
  <2>2. PICK e \in Posts : e = db[m]
    BY <1>2, <2>1
  <2>3. e \in EntriesOf(m)
    BY <2>2, NoNil DEF ZoneOK
  <2>4. CASE entry[p].media = m
    <3>1. age[e] <= age[p] /\ age[e] \in Nat /\ age[p] \in Nat
      BY <1>0, <2>1, <2>3, <2>4 DEF BusyOK, Over, TypeOK
    <3>2. p \in EntriesOf(m)' /\ entry'[e].media = m /\ age'[p] >= age'[e]
      BY <1>0, <2>1, <2>3, <2>4, <3>1 DEF EntriesOf
    <3>3. e = db'[m]
      BY <2>1, <2>2
    <3>4. isUnsaved(db[m])'
      BY <2>1, <3>2, <3>3 DEF isUnsaved
    <3> QED
      BY <3>4 DEF HashOK
  <2>5. CASE entry[p].media # m
    <3>1. \A q \in EntriesOf(m) : post'[q] = post[q]
      BY <1>0, <2>1, <2>5
    <3> QED
      BY <2>1, <2>2, <3>1, LeftHash
  <2> QED
    BY <2>4, <2>5
<1>8. ASSUME NEW o \in Media, Delete(o) PROVE HashOK(m)'
  <2>1. PICK z \in Posts : Removed(o, z) /\ z \in EntriesOf(o)
    BY <1>8, Deleting
  <2>2. /\ file'[path(z)] = Nil /\ \A x \in Path : x # path(z) => file'[x] = file[x]
        /\ UNCHANGED <<entry, md5, data, db, post, get>>
    BY <2>1 DEF Removed, reads
  <2>3. PICK e \in Posts : e = db[m]
    BY <1>2, <2>2
  <2>4. PICK s : s = path(e)
    OBVIOUS
  <2>5. s \in Path /\ (file'[s] = file[s] \/ file'[s] = Nil)
    <3>1. entry[e] # Nil
      BY <2>3, NoNil DEF ZoneOK, EntriesOf
    <3> QED
      BY <2>2, <2>4, <3>1, Paths
  <2>6. isStill(m)' => isStill(m)
    BY <2>2 DEF isStill, EntriesOf
  <2>7. \A g \in Gets : Checker(g, e)' => Checker(g, e) /\ get'[g].file = get[g].file
                                           /\ get'[g].seen = get[g].seen
    BY <2>2, SameChecker
  <2> QED
    BY <2>2, <2>3, <2>4, <2>5, <2>6, <2>7, StillHash
<1>9. ASSUME NEW p \in Posts, DeleteSaved(p) \/ DeleteFails(p) PROVE HashOK(m)'
  <2>1. db'[m] = db[m]
    <3>1. CASE DeleteSaved(p)
      <4>1. PICK o \in Media : ListedFor(o, Nil)
        BY <3>1, DropSaving
      <4> QED
        BY <4>1 DEF ListedFor
    <3>2. CASE DeleteFails(p)
      BY <3>2, DropFailing
    <3> QED
      BY <1>9, <3>1, <3>2
  <2>2. UNCHANGED <<disk, md5, get>> /\ UNCHANGED post
    BY <1>9, DropSaving, DropFailing DEF reads
  <2>3. \A q \in EntriesOf(m) : post'[q] = post[q]
    BY <2>2
  <2> QED
    BY <1>2, <2>1, <2>2, <2>3, LeftHash
<1>10. ASSUME NEW p \in Posts, LoadLogs(p) PROVE HashOK(m)'
  <2>1. PICK o \in Media : p \in EntriesOf(o) /\ o = entry[p].media
                  /\ db'[o] = p /\ \A q \in Media \ {o} : db'[q] = db[q]
    BY <1>10, Loading
  <2>2. load[p] = "logging" /\ UNCHANGED <<entry, md5, disk, post, get>>
    BY <1>10, Loading DEF store, reads
  <2>3. CASE o = m
    <3>1. PICK s : s = path(p)
      OBVIOUS
    <3>2. PICK f : f = file'[s]
      OBVIOUS
    <3>3. PICK content : content = data'[f]
      OBVIOUS
    <3>4. entry[p] # Nil /\ ~wasListed(p) /\ md5[p] = Nil
      BY <2>1, <2>2 DEF EntriesOf, EntriesOK, EntryOK, wasListed
    <3>5. \A g \in Gets : ~Checker(g, p)'
      BY <2>2, <3>4, Unchecked
    <3>6. p = db'[m] /\ s = path(p)' /\ md5'[p] = Nil
      BY <2>1, <2>2, <2>3, <3>1, <3>4 DEF path
    <3> QED
      BY <3>2, <3>3, <3>5, <3>6, HashIf
  <2>4. CASE o # m
    <3>1. db'[m] = db[m] /\ \A q \in EntriesOf(m) : post'[q] = post[q]
      BY <2>1, <2>2, <2>4
    <3> QED
      BY <1>2, <2>2, <3>1, LeftHash
  <2> QED
    BY <2>3, <2>4
<1> QED
  BY <1>3, <1>4, <1>5, <1>6, <1>7, <1>8, <1>9, <1>10 DEF Writer

\* A step that reads: what is listed is what it was.
LEMMA ReadHash ==
    ASSUME TypeOK, TypeOK', Grows, ZoneOK, HashesOK, SameMedia, md5' = md5,
           \A g \in Gets :
              get'[g] = get[g] \/ get'[g] = Nil \/ get'[g].file = Nil
    PROVE  HashesOK'
<1> SUFFICES ASSUME NEW m \in Media, db'[m] # Nil PROVE HashOK(m)'
  BY DEF HashesOK, HashOK
<1>1. UNCHANGED <<entry, file, data, db, post, md5>>
  BY DEF SameMedia, store, disk, logs
<1>2. PICK e \in Posts : e = db[m]
  BY <1>1 DEF TypeOK
<1>3. PICK s : s = path(e)
  OBVIOUS
<1>4. isStill(m)' => isStill(m)
  BY <1>1 DEF isStill, EntriesOf
<1>5. ASSUME NEW g \in Gets, Checker(g, e)'
      PROVE  Checker(g, e) /\ get'[g].file = get[g].file /\ get'[g].seen = get[g].seen
  <2>1. get'[g] = get[g]
    BY <1>5 DEF Checker
  <2> QED
    BY <1>5, <2>1, SameChecker
<1> QED
  BY <1>1, <1>2, <1>3, <1>4, <1>5, StillHash

\* A check that opens the file of what is listed finds its content.
LEMMA OpensHash ==
    ASSUME TypeOK, TypeOK', Grows, EntriesOK, ZoneOK, FilesOK, ConnsOK, HashesOK,
           NEW g \in Gets, ReadOpens(g)
    PROVE  HashesOK'
<1>1. PICK f0 \in Posts, seen \in SUBSET Content :
         /\ f0 = file[get[g].path] /\ Reads(g, f0, seen)
         /\ \A content \in seen :
               content = data[f0]
               \/ (content = {} /\ \E p \in Posts : post[p] = "writing" /\ file[path(p)] = f0)
         /\ data[f0] \in seen
  BY ReadOpening
<1>2. SameMedia /\ UNCHANGED <<md5, answer>> /\ get[g].path \in Path
  BY ReadOpening
<1>3. UNCHANGED <<entry, age, file, data, db, load, post, drop>>
  BY <1>2 DEF SameMedia, store, disk, logs
<1> SUFFICES ASSUME NEW m \in Media, db'[m] # Nil PROVE HashOK(m)'
  BY DEF HashesOK, HashOK
<1>4. PICK e \in Posts : e = db[m]
  BY <1>3 DEF TypeOK
<1>5. PICK s : s = path(e)
  OBVIOUS
<1>6. PICK f : f = file[s]
  OBVIOUS
<1>7. PICK content : content = data[f]
  OBVIOUS
<1>8. entry[e] # Nil /\ entry[e].media = m /\ s \in Path /\ s[1] = m /\ e # Nil
  BY <1>4, <1>5, NoNil, Paths DEF ZoneOK, EntriesOf
<1>9. e = db'[m] /\ s = path(e)' /\ f = file'[s] /\ content = data'[f]
  BY <1>3, <1>4, <1>5, <1>6, <1>7 DEF path
<1>10. ASSUME isStill(m)', ~isUnsaved(e)', f # Nil
       PROVE  /\ md5'[e] = content \/ md5'[e] = Nil \/ (entry'[e].kind = "append" /\ md5'[e] = {e})
              /\ \A h \in Gets : Checker(h, e)' => get'[h].file = f /\ get'[h].seen = {content}
  <2>1. isStill(m) /\ ~isUnsaved(e)
    BY <1>3, <1>10 DEF isStill, isUnsaved, EntriesOf
  <2>2. HashOK(m)
    BY DEF HashesOK
  <2>3. /\ md5[e] = content \/ md5[e] = Nil \/ (entry[e].kind = "append" /\ md5[e] = {e})
        /\ \A h \in Gets : Checker(h, e) => get[h].file = f /\ get[h].seen = {content}
    BY <1>4, <1>5, <1>6, <1>7, <1>8, <1>10, <2>1, <2>2 DEF HashOK, Checker
  <2>4. ASSUME NEW h \in Gets, h # g, Checker(h, e)' PROVE get'[h].file = f /\ get'[h].seen = {content}
    <3>1. get'[h] = get[h]
      BY <1>1, <2>4 DEF Reads
    <3> QED
      BY <2>3, <2>4, <3>1, SameChecker
  <2>5. ASSUME NEW h \in Gets, h = g, Checker(h, e)' PROVE get'[h].file = f /\ get'[h].seen = {content}
    <3>1. get[g] # Nil /\ get[g].conn = Nil /\ get[g].entry = e
      BY <1>1, <2>5 DEF Checker, Reads
    <3>2. get[g].path = s
      BY <1>5, <3>1 DEF ConnsOK, GetOK
    <3>3. f0 = f /\ get'[g].file = f /\ get'[g].seen = seen /\ content \in seen
      BY <1>1, <1>6, <1>7, <3>2 DEF Reads
    <3>4. ASSUME NEW p \in Posts, post[p] = "writing", file[path(p)] = f PROVE FALSE
      <4>1. entry[p] # Nil
        BY <3>4 DEF EntriesOK, EntryOK
      <4>2. path(p) \in Path /\ path(p)[1] = entry[p].media
        BY <4>1, Paths
      <4>3. path(p) = s
        BY <1>6, <1>8, <1>10, <3>4, <4>2, Apart
      <4>4. p \in EntriesOf(m)
        BY <1>8, <4>1, <4>2, <4>3 DEF EntriesOf
      <4> QED
        BY <2>1, <3>4, <4>4 DEF isStill, Over
    <3>5. \A x \in seen : x = content
      BY <1>1, <1>7, <3>3, <3>4
    <3>6. seen = {content}
      BY <3>3, <3>5
    <3> QED
      BY <2>5, <3>3, <3>6
  <2>6. ASSUME NEW h \in Gets, Checker(h, e)' PROVE get'[h].file = f /\ get'[h].seen = {content}
    BY <2>4, <2>5, <2>6
  <2>7. md5'[e] = content \/ md5'[e] = Nil \/ (entry'[e].kind = "append" /\ md5'[e] = {e})
    BY <1>2, <1>3, <2>3
  <2> QED
    BY <2>6, <2>7
<1> QED
  BY <1>9, <1>10, HashIf

\* A check that is answered gives the entry it read the hash of what it found.
LEMMA ChecksHash ==
    ASSUME TypeOK, TypeOK', Grows, ZoneOK, ConnsOK, HashesOK, NEW g \in Gets, Checked(g)
    PROVE  HashesOK'
<1>1. PICK content \in Content :
         /\ content \in get[g].seen /\ Reads(g, Nil, {})
         /\ md5'[get[g].entry] = content
         /\ \A p \in Posts : p # get[g].entry => md5'[p] = md5[p]
  BY Checking
<1>2. SameMedia /\ get[g].conn = Nil
  BY Checking DEF Checked
<1>3. UNCHANGED <<entry, file, data, db, post>>
  BY <1>2 DEF SameMedia, store, disk, logs
<1> SUFFICES ASSUME NEW m \in Media, db'[m] # Nil PROVE HashOK(m)'
  BY DEF HashesOK, HashOK
<1>4. PICK e \in Posts : e = db[m]
  BY <1>3 DEF TypeOK
<1>5. PICK s : s = path(e)
  OBVIOUS
<1>6. isStill(m)' => isStill(m)
  BY <1>3 DEF isStill, EntriesOf
<1>7. ASSUME NEW h \in Gets, Checker(h, e)'
      PROVE  Checker(h, e) /\ get'[h].file = get[h].file /\ get'[h].seen = get[h].seen
  <2>1. get'[h] = get[h]
    BY <1>1, <1>7 DEF Checker, Reads
  <2> QED
    BY <1>7, <2>1, SameChecker
<1>8. ASSUME e = get[g].entry, HashOK(m), isStill(m), ~isUnsaved(e), file[s] # Nil
      PROVE  md5'[e] = data[file[s]]
  <2>1. get[g] # Nil /\ answer[g] = Nil /\ get[g].file # Nil
    BY <1>1 DEF Reads, ConnsOK, GetOK
  <2>2. get[g].seen = {data[file[s]]}
    BY <1>2, <1>4, <1>5, <1>8, <2>1, NoNil DEF HashOK
  <2> QED
    BY <1>1, <1>8, <2>2
<1>9. md5'[e] = md5[e] \/ e = get[g].entry
  BY <1>1
<1> QED
  BY <1>3, <1>4, <1>5, <1>6, <1>7, <1>8, <1>9, StillHash

LEMMA HashesStep ==
    ASSUME TypeOK, TypeOK', Grows, EntriesOK, ZoneOK, ZoneOK', BusyOK, FilesOK, ConnsOK, AnswersOK,
           HashesOK, [Next]_vars
    PROVE  HashesOK'
<1>1. CASE Writer
  BY <1>1, HashesByWriter
<1>2. ASSUME NEW g \in Gets, NEW c, NEW m, NEW s, NEW e,
             Asked(g, c, m, s, e), SameMedia, md5' = md5
      PROVE  HashesOK'
  BY <1>2, ReadHash DEF Asked
<1>3. ASSUME NEW c \in Conns, NEW m \in Media, Open(c, m) PROVE HashesOK'
  BY <1>3, Opens, ReadHash DEF reads
<1>4. ASSUME NEW g \in Gets, NEW c \in Conns, NEW m \in Media, Direct(g, c, m) PROVE HashesOK'
  <2>1. PICK e \in Posts : Asked(g, c, m, path(e), Nil)
    BY <1>4, Directs
  <2> QED
    BY <1>2, <1>4, <2>1, Directs
<1>5. ASSUME NEW g \in Gets, NEW c \in Conns, Find(g, c) PROVE HashesOK'
  <2>1. PICK m \in Media, s \in Path : Asked(g, c, m, s, Nil)
    BY <1>5, Finds
  <2> QED
    BY <1>2, <1>5, <2>1, Finds
<1>6. ASSUME NEW g \in Gets, NEW m \in Media, Check(g, m) PROVE HashesOK'
  <2>1. PICK e \in Posts : Asked(g, Nil, m, path(e), e)
    BY <1>6, Checks
  <2> QED
    BY <1>2, <1>6, <2>1, Checks
<1>7. ASSUME NEW g \in Gets, ReadOpens(g) PROVE HashesOK'
  BY <1>7, OpensHash
<1>8. ASSUME NEW g \in Gets, ReadFails(g) PROVE HashesOK'
  BY <1>8, ReadFailing, ReadHash
<1>9. ASSUME NEW g \in Gets, Served(g) PROVE HashesOK'
  <2>1. Reads(g, Nil, {}) /\ SameMedia /\ md5' = md5
    BY <1>9, Serving
  <2> QED
    BY <2>1, ReadHash DEF Reads
<1>10. ASSUME NEW g \in Gets, Checked(g) PROVE HashesOK'
  BY <1>10, ChecksHash
<1>11. ASSUME Timers \/ Interrupt \/ Close PROVE HashesOK'
  BY <1>11, Ending, ReadHash DEF Timers, reads
<1>12. CASE UNCHANGED vars
  BY <1>12, ReadHash DEF vars, reads, SameMedia
<1> QED
  BY <1>1, <1>3, <1>4, <1>5, <1>6, <1>7, <1>8, <1>9, <1>10, <1>11, <1>12
     DEF Next, Clients, Callbacks, Writer

(***************************************************************************)
(* The start.                                                              *)
(***************************************************************************)

\* The lines of the CSV file have their files, or have lost them.
LEMMA InvInit == Init => IInv
<1> SUFFICES ASSUME Init PROVE IInv
  OBVIOUS
<1>1. PICK lines \in SUBSET Posts, med \in [Posts -> Media], nam \in [Posts -> FileNames] :
         /\ file \in [Path -> lines \cup {Nil}]
         /\ \A s \in Path : file[s] # Nil => s = <<med[file[s]], nam[file[s]]>>
         /\ entry = [p \in Posts |->
                        IF p \notin lines THEN Nil
                        ELSE [media |-> med[p], name |-> nam[p],
                              kind |-> IF file[<<med[p], nam[p]>>] = Nil THEN "lost" ELSE "line"]]
         /\ data = [f \in Posts |-> IF f \in lines THEN {f} ELSE {}]
  BY DEF Init
<1>2. /\ \A k \in Keys : zoneDb[k] = Nil <=> (k \notin Media \/ EntriesOf(k) = {})
      /\ \A k \in Keys : zoneDb[k] # Nil => zoneDb[k] \in EntriesOf(k)
      /\ server = "up" /\ zoneDb \in [Keys -> Posts \cup {Nil}]
      /\ md5 = [p \in Posts |-> Nil]
      /\ load = [p \in Posts |-> IF entry[p] # Nil THEN "logging" ELSE "none"]
      /\ db = [m \in Media |-> Nil]
      /\ post = [p \in Posts |-> "none"] /\ drop = [p \in Posts |-> "none"]
      /\ storageId = [c \in Conns |-> Nil] /\ timer = {}
      /\ journal = [c \in Conns |-> "none"]
      /\ get = [g \in Gets |-> Nil] /\ answer = [g \in Gets |-> Nil]
      /\ age = [p \in Posts |-> 0] /\ due = [c \in Conns |-> {}] /\ raced = {}
  BY DEF Init
<1>3. ASSUME NEW p \in Posts
      PROVE  /\ entry[p] \in Entry \cup {Nil} /\ (entry[p] # Nil <=> p \in lines)
             /\ p \in lines => path(p) = <<med[p], nam[p]>> /\ entry[p].media = med[p]
                               /\ (file[path(p)] = Nil => entry[p].kind = "lost")
  <2>1. CASE p \notin lines
    BY <1>1, <2>1
  <2>2. CASE p \in lines
    <3>1. PICK kind \in Kind :
             /\ entry[p] = [media |-> med[p], name |-> nam[p], kind |-> kind]
             /\ file[<<med[p], nam[p]>>] = Nil => kind = "lost"
      <4>1. "lost" \in Kind /\ "line" \in Kind
        BY DEF Kind
      <4> QED
        BY <1>1, <2>2, <4>1
    <3>2. entry[p] \in Entry
      BY <3>1 DEF Entry
    <3>3. path(p) = <<med[p], nam[p]>> /\ entry[p].media = med[p] /\ entry[p].kind = kind
      BY <3>1 DEF path
    <3> QED
      BY <2>2, <3>1, <3>2, <3>3, NoNil
  <2> QED
    BY <2>1, <2>2
<1>4. TypeOK
  <2>1. entry \in [Posts -> Entry \cup {Nil}] /\ data \in [Posts -> Content]
        /\ file \in [Path -> Posts \cup {Nil}]
    BY <1>1, <1>3 DEF Content
  <2> QED
    BY <1>2, <2>1 DEF TypeOK
<1>5. EntriesOK
  <2> SUFFICES ASSUME NEW p \in Posts PROVE EntryOK(p)
    BY DEF EntriesOK
  <2>1. CASE p \notin lines
    BY <1>1, <1>2, <1>3, <2>1 DEF EntryOK
  <2>2. CASE p \in lines
    <3>1. written > 0
      <4> DEFINE W == {q \in Posts : entry[q] # Nil}
      <4>1. p \in W /\ IsFiniteSet(W)
        BY <1>3, <2>2, ConstantsAssumption, FS_Subset
      <4>2. Cardinality(W) \in Nat /\ Cardinality(W) # 0
        BY <4>1, FS_CardinalityType, FS_EmptySet
      <4> QED
        BY <4>2 DEF written
    <3> QED
      BY <1>2, <1>3, <2>2, <3>1 DEF EntryOK
  <2> QED
    BY <2>1, <2>2
<1>6. ZoneOK
  <2>1. \A m \in Media : m \in Keys
    BY DEF Keys
  <2>2. \A p \in Posts : p \in Keys /\ p \notin Media
    BY NoNil DEF Keys
  <2>3. \A k \in Keys : zoneDb[k] # Nil => zoneDb[k] \in Posts /\ entry[zoneDb[k]] # Nil
    BY <1>2 DEF EntriesOf
  <2> QED
    BY <1>2, <2>1, <2>2, <2>3 DEF ZoneOK
<1>7. BusyOK
  BY <1>2 DEF BusyOK, isBusy, Over
<1>8. FilesOK
  <2>1. ASSUME NEW s \in Path PROVE NamedOK(s)
    <3>1. PICK f : f = file[s]
      OBVIOUS
    <3>2. CASE f = Nil
      BY <3>1, <3>2 DEF NamedOK
    <3>3. CASE f # Nil
      <4>1. f \in lines /\ f \in Posts
        BY <1>1, <3>1, <3>3
      <4>2. entry[f] # Nil /\ path(f) = s /\ data[f] = {f}
        BY <1>1, <1>3, <3>1, <3>3, <4>1
      <4>3. isOf({f}, s)
        BY <4>2 DEF isOf
      <4> QED
        BY <3>1, <4>2, <4>3 DEF NamedOK
    <3> QED
      BY <3>2, <3>3
  <2>2. ASSUME NEW p \in Posts, p \in lines PROVE PostedOK(p)
    <3>1. PICK s : s = path(p)
      OBVIOUS
    <3>2. s \in Path /\ entry[p] # Nil
      BY <1>3, <1>4, <2>2, <3>1, Paths
    <3>3. CASE file[s] = Nil
      <4>1. p \in EntriesOf(entry[p].media) /\ entry[p].kind = "lost"
        BY <1>3, <2>2, <3>1, <3>3 DEF EntriesOf
      <4>2. isGone(entry[p].media)
        BY <4>1 DEF isGone
      <4> QED
        BY <3>1, <3>3, <4>2 DEF PostedOK
    <3>4. CASE file[s] # Nil
      <4>1. file[s] \in lines /\ file[s] \in Posts
        BY <1>1, <3>2, <3>4
      <4>2. file[s] \in data[file[s]] /\ age[p] <= age[file[s]]
        BY <1>1, <1>2, <4>1
      <4> QED
        BY <3>1, <3>4, <4>2 DEF PostedOK
    <3> QED
      BY <3>3, <3>4
  <2>3. ASSUME NEW p \in Posts, p \notin lines PROVE PostedOK(p)
    BY <1>3, <2>3 DEF PostedOK
  <2> QED
    BY <2>1, <2>2, <2>3 DEF FilesOK
<1>9. ListedOK
  <2> SUFFICES ASSUME NEW m \in Media PROVE ListedAt(m)
    BY DEF ListedOK
  <2>1. Listed(m) = {} /\ db[m] = Nil
    BY <1>2 DEF Listed, EntriesOf
  <2>2. m \in Keys /\ (zoneDb[m] = Nil <=> EntriesOf(m) = {})
    BY <1>2 DEF Keys
  <2>3. \A p \in EntriesOf(m) : load[p] = "logging"
    BY <1>2 DEF EntriesOf
  <2>4. ~isLoading(m) => zoneDb[m] = Nil
    BY <2>2, <2>3 DEF isLoading
  <2>5. ASSUME NEW p \in EntriesOf(m)
        PROVE  (\E k \in Keys : zoneDb[k] = p) \/ isDoubled(p)
    <3>1. zoneDb[m] \in EntriesOf(m)
      BY <1>2, <2>2
    <3>2. CASE zoneDb[m] = p
      BY <2>2, <3>2
    <3>3. CASE zoneDb[m] # p
      <4>1. load[p] # "none" /\ load[zoneDb[m]] # "none" /\ entry[p].media = m
        BY <2>3, <3>1 DEF EntriesOf
      <4> QED
        BY <3>1, <3>3, <4>1 DEF isDoubled
    <3> QED
      BY <3>2, <3>3
  <2> QED
    BY <2>1, <2>4, <2>5 DEF ListedAt
<1>10. ConnsOK
  BY <1>2 DEF ConnsOK, ConnOK, GetOK
<1>11. AnswersOK
  BY <1>2 DEF AnswersOK, AnswerOK
<1>12. HashesOK
  BY <1>2 DEF HashesOK, HashOK
<1> QED
  BY <1>4, <1>5, <1>6, <1>7, <1>8, <1>9, <1>10, <1>11, <1>12 DEF IInv

(***************************************************************************)
(* The theorems.                                                           *)
(***************************************************************************)

LEMMA InvStep == IInv /\ [Next]_vars => IInv'
<1> SUFFICES ASSUME IInv, [Next]_vars PROVE IInv'
  OBVIOUS
<1>1. /\ TypeOK /\ EntriesOK /\ ZoneOK /\ BusyOK /\ FilesOK
      /\ ListedOK /\ ConnsOK /\ AnswersOK /\ HashesOK
  BY DEF IInv
<1>2. Grows
  BY <1>1, GrowStep
<1>3. TypeOK' /\ (Writer \/ Reader)
  BY <1>1, TypeStep
<1>4. EntriesOK'
  BY <1>1, <1>2, <1>3, EntriesStep
<1>5. ZoneOK'
  BY <1>1, <1>2, <1>3, ZoneStep
<1>6. BusyOK'
  BY <1>1, <1>2, <1>3, BusyStep
<1>7. FilesOK'
  BY <1>1, <1>2, <1>3, FilesStep
<1>8. ListedOK'
  BY <1>1, <1>2, <1>3, ListedStep
<1>9. Kept
  BY <1>1, <1>2, <1>3, KeptStep
<1>10. ConnsOK'
  BY <1>1, <1>2, <1>3, <1>7, <1>9, ConnsStep
<1>11. AnswersOK'
  BY <1>1, <1>2, <1>3, AnswersStep
<1>12. HashesOK'
  BY <1>1, <1>2, <1>3, <1>5, HashesStep
<1> QED
  BY <1>3, <1>4, <1>5, <1>6, <1>7, <1>8, <1>10, <1>11, <1>12 DEF IInv

\* The invariant of the storage connectors: what the database, the zone, the files, the
\* connectors and the requests to read have of one another, whatever saves fail, whatever
\* is written in place, renamed, removed or stopped (basicdb.js, basiczone.js).
THEOREM Invariance == Spec => []IInv
BY InvInit, InvStep, PTL DEF Spec

\* The tables and requests of rudi-media have their types (BasicFileDB, BasicZone).
THEOREM TypeCorrect == Spec => []TypeOK
<1>1. IInv => TypeOK
  BY DEF IInv
<1> QED
  BY <1>1, Invariance, PTL

\* A connector serves contents of its media that are whole, unless somebody writes the
\* file in place, and no older than what was listed when it was opened (get, find).
THEOREM ServesWhatIsDue == Spec => []ServedCurrent
<1>1. IInv => ServedCurrent
  <2> SUFFICES ASSUME IInv, NEW g \in Gets, answer[g] # Nil, answer[g].status = "ok",
                      get[g].conn # Nil,
                      NEW content, content = answer[g].content, NEW m, m = get[g].media
               PROVE  /\ content \subseteq EntriesOf(m)
                      /\ content = {} =>
                           \E p \in EntriesOf(m) :
                              path(p) = get[g].path /\ entry[p].kind \in {"write", "append"}
                      /\ content # {} /\ m \notin raced =>
                           \A p \in due[get[g].conn] : \E x \in content : age[x] >= age[p]
    BY DEF ServedCurrent
  <2>1. PICK s : s = get[g].path
    OBVIOUS
  <2>2. PICK c : c = get[g].conn
    OBVIOUS
  <2>3. /\ TypeOK /\ get[g] # Nil /\ m = s[1] /\ isOf(content, s)
        /\ content # {} /\ c # Nil /\ m \notin raced =>
              \A q \in due[c] : \E x \in content : age[q] <= age[x]
    BY <2>1, <2>2 DEF IInv, AnswersOK, AnswerOK, ConnsOK, GetOK
  <2>4. content \in Content /\ c \in Conns
    BY <2>2, <2>3 DEF TypeOK, Answer, Get
  <2>5. \A p \in Posts : entry[p] # Nil /\ path(p) = s => p \in EntriesOf(m)
    BY <2>3, Paths DEF EntriesOf
  <2>6. content \subseteq EntriesOf(m)
    BY <2>3, <2>4, <2>5 DEF isOf, Content
  <2>7. content = {} =>
           \E p \in EntriesOf(m) : path(p) = s /\ entry[p].kind \in {"write", "append"}
    BY <2>3, <2>5 DEF isOf, inPlace
  <2>8. \A p \in due[c] : p \in Posts /\ age[p] \in Nat
    BY <2>3, <2>4 DEF TypeOK
  <2>9. \A x \in content : age[x] \in Nat
    BY <2>3, <2>4 DEF TypeOK, Content
  <2>10. content # {} /\ m \notin raced => \A p \in due[c] : \E x \in content : age[x] >= age[p]
    BY <2>2, <2>3, <2>8, <2>9
  <2> QED
    BY <2>1, <2>2, <2>6, <2>7, <2>10
<1> QED
  BY <1>1, Invariance, PTL

\* A connector or a check fails only where the media was deleted, or had lost its file
\* before the start (getFile, find, check).
THEOREM FailsOnlyIfDeleted == Spec => []FailsIfDeleted
<1>1. IInv => FailsIfDeleted
  <2> SUFFICES ASSUME IInv, NEW g \in Gets, answer[g] # Nil,
                      answer[g].status \in {"notFound", "error"}
               PROVE  \E p \in EntriesOf(get[g].media) : drop[p] # "none" \/ entry[p].kind = "lost"
    BY DEF FailsIfDeleted
  <2>1. get[g] # Nil /\ isGone(get[g].path[1])
    BY DEF IInv, AnswersOK, AnswerOK
  <2>2. get[g].media = get[g].path[1]
    BY <2>1 DEF IInv, ConnsOK, GetOK
  <2> QED
    BY <2>1, <2>2 DEF isGone
<1> QED
  BY <1>1, Invariance, PTL

\* When nobody changes a media, the hash that is listed and that a check corrected, or
\* that a whole content gave, is that of the file (check, getRealMd5, addEntry).
THEOREM HashesRight == Spec => []Md5Right
<1>1. IInv => Md5Right
  <2> SUFFICES ASSUME IInv, NEW m \in Media, isIdle(m), db[m] # Nil,
                      file[path(db[m])] # Nil, ~isUnsaved(db[m])
               PROVE  \/ md5[db[m]] = data[file[path(db[m])]]
                      \/ md5[db[m]] = Nil
                      \/ entry[db[m]].kind = "append" /\ md5[db[m]] = {db[m]}
    BY DEF Md5Right
  <2>1. isStill(m)
    BY DEF isIdle, isStill
  <2>2. HashOK(m)
    BY DEF IInv, HashesOK
  <2> QED
    BY <2>1, <2>2 DEF HashOK
<1> QED
  BY <1>1, Invariance, PTL

\* When nobody changes a media, the database lists the last entry of it that the zone
\* has, but for what a failed save left and for the race of two lines (addEntry, mdelete,
\* recordEntry).
THEOREM ListsTheZone == Spec => []ListedIsZone
<1>1. IInv => ListedIsZone
  <2> SUFFICES ASSUME IInv, NEW m \in Media, isIdle(m), ~isLoading(m), m \notin raced,
                      NEW e, e = db[m]
               PROVE  /\ e = Nil => zoneDb[m] = Nil \/ post[zoneDb[m]] = "failed"
                      /\ e # Nil =>
                            /\ (\E k \in Keys : zoneDb[k] = e) \/ isUnsaved(e) \/ isDoubled(e)
                            /\ \A k \in Keys :
                                  zoneDb[k] \in EntriesOf(m) /\ age[zoneDb[k]] > age[e] =>
                                      post[zoneDb[k]] = "failed"
    BY DEF ListedIsZone
  <2>1. ListedAt(m) /\ ZoneOK /\ EntriesOK /\ TypeOK
    BY DEF IInv, ListedOK
  <2>2. \A q \in EntriesOf(m) :
           q \in Posts /\ entry[q] # Nil /\ post[q] # "saving" /\ post[q] # "writing" /\ drop[q] # "saving"
    BY DEF isIdle, EntriesOf, Over
  <2>3. zoneDb[m] # Nil => zoneDb[m] \in EntriesOf(m)
    BY <2>1 DEF ZoneOK
  <2>4. e = Nil => zoneDb[m] = Nil \/ post[zoneDb[m]] = "failed"
    BY <2>1, <2>2, <2>3 DEF ListedAt
  <2>5. ASSUME e # Nil
        PROVE  (\E k \in Keys : zoneDb[k] = e) \/ isUnsaved(e) \/ isDoubled(e)
    <3>1. e \in EntriesOf(m)
      BY <2>1, <2>5 DEF ZoneOK
    <3> QED
      BY <2>1, <2>2, <2>3, <3>1 DEF ListedAt
  <2>6. ASSUME e # Nil, NEW q \in EntriesOf(m), age[q] > age[e], post[q] # "failed"
        PROVE  FALSE
    <3>1. q \in Posts /\ e \in Posts /\ age[q] \in Nat /\ age[e] \in Nat
      BY <2>1, <2>2, <2>6 DEF TypeOK
    <3>2. post[q] # "none"
      <4>1. ASSUME post[q] = "none" PROVE age[q] = 0
        BY <2>1, <2>2, <3>1, <4>1 DEF EntriesOK, EntryOK
      <4> QED
        BY <2>6, <3>1, <4>1
    <3>3. post[q] = "done"
      BY <2>1, <2>2, <2>6, <3>1, <3>2 DEF TypeOK
    <3>4. q \in Listed(m)
      BY <3>3 DEF Listed
    <3>5. age[q] <= age[e]
      BY <2>1, <2>6, <3>4 DEF ListedAt
    <3> QED
      BY <2>6, <3>1, <3>5
  <2> QED
    BY <2>4, <2>5, <2>6
<1> QED
  BY <1>1, Invariance, PTL

(***************************************************************************)
(* Liveness.  That an action may be taken is the one fact about it which   *)
(* no prover here establishes: the theorem takes it as its hypothesis.     *)
(***************************************************************************)

\* What the guard of deleleteFileId says: a timer that is armed may fire.
TimersMayFire ==
    \A c \in Conns : c \in timer /\ server # "down" => ENABLED <<TimerFires(c)>>_vars

\* A connector that is there has its timer, and so has one that was opened and whose
\* removal was not logged, until the process ends.
TimersOK ==
    \A c \in Conns :
        /\ storageId[c] # Nil => c \in timer
        /\ journal[c] \notin {"none", "del_conn"} /\ server # "down" => c \in timer

LEMMA TimersStep == TypeOK /\ TimersOK /\ [Next]_vars => TimersOK'
<1> SUFFICES ASSUME TypeOK, TimersOK, [Next]_vars PROVE TimersOK'
  OBVIOUS
<1> USE DEF TypeOK, TimersOK
<1>1. ASSUME UNCHANGED <<server, conns>> PROVE TimersOK'
  BY <1>1 DEF conns
<1>2. ASSUME NEW c \in Conns, NEW m \in Media, Open(c, m) PROVE TimersOK'
  BY <1>2 DEF Open, opened
<1>3. ASSUME NEW g \in Gets, NEW c \in Conns, NEW m \in Media, Direct(g, c, m) PROVE TimersOK'
  BY <1>3 DEF Direct, opened
<1>4. ASSUME NEW g \in Gets, NEW c \in Conns, Find(g, c) PROVE TimersOK'
  BY <1>4 DEF Find
<1>5. ASSUME NEW c \in Conns, TimerFires(c) PROVE TimersOK'
  BY <1>5 DEF TimerFires
<1>6. CASE Interrupt
  BY <1>6 DEF Interrupt, conns
<1>7. CASE Close
  BY <1>7 DEF Close
<1>8. ASSUME Clients PROVE TimersOK'
  <2>1. ASSUME NEW p \in Posts, NEW m \in Media, NEW n \in FileNames, NEW kind, Post(p, m, n, kind)
        PROVE  TimersOK'
    BY <1>1, <2>1 DEF Post
  <2>2. ASSUME NEW p \in Posts, NEW m \in Media, NEW n \in FileNames, Commit(p, m, n) PROVE TimersOK'
    BY <1>1, <2>2 DEF Commit
  <2>3. ASSUME NEW m \in Media, Delete(m) PROVE TimersOK'
    BY <1>1, <2>3 DEF Delete
  <2>4. ASSUME NEW g \in Gets, NEW m \in Media, Check(g, m) PROVE TimersOK'
    BY <1>1, <2>4 DEF Check
  <2> QED
    BY <1>2, <1>3, <1>4, <1>8, <2>1, <2>2, <2>3, <2>4 DEF Clients
<1>9. ASSUME Callbacks PROVE TimersOK'
  BY <1>1, <1>9 DEF Callbacks, LoadLogs, PostWritten, PostSaved, PostFails, DeleteSaved, DeleteFails,
                    ReadOpens, ReadFails, Served, Checked
<1>10. CASE UNCHANGED vars
  BY <1>1, <1>10 DEF vars
<1> QED
  BY <1>5, <1>6, <1>7, <1>8, <1>9, <1>10 DEF Next, Timers

\* A connector that was opened is removed and its removal logged (get, deleleteFileId),
\* unless the process ends: nothing disarms its timer but what it does.
THEOREM EveryConnectorCloses == FairSpec /\ []TimersMayFire => ConnectorsClose
<1>1. Spec => []TimersOK
  <2>1. Init => TimersOK
    BY DEF Init, TimersOK
  <2> QED
    BY <2>1, TimersStep, TypeCorrect, PTL DEF Spec
<1> DEFINE Fair(c) == WF_vars(TimerFires(c))
           Closes(c) == journal[c] # "none" ~> (journal[c] = "del_conn" \/ server = "down")
<1>2. ASSUME NEW c \in Conns
      PROVE  Spec /\ Fair(c) /\ []TimersMayFire => Closes(c)
  <2> DEFINE Closed == journal[c] = "del_conn" \/ server = "down"
             isOpen == journal[c] # "none" /\ ~Closed
  <2>1. IInv /\ <<TimerFires(c)>>_vars => Closed'
    BY DEF TimerFires, IInv, TypeOK
  <2>2. TimersOK /\ TimersMayFire /\ isOpen => ENABLED <<TimerFires(c)>>_vars
    BY DEF TimersOK, TimersMayFire
  <2>3. IInv /\ isOpen /\ [Next]_vars => isOpen' \/ Closed'
    BY GrowStep DEF IInv, Grows
  <2> QED
    BY <1>1, <2>1, <2>2, <2>3, Invariance, PTL DEF Spec
<1>3. FairSpec => Spec /\ \A c \in Conns : Fair(c)
  BY PTL DEF FairSpec
<1>4. (\A c \in Conns : Closes(c)) => ConnectorsClose
  BY PTL DEF ConnectorsClose
<1> HIDE DEF Fair, Closes
<1> QED
  BY <1>2, <1>3, <1>4
=============================================================================
