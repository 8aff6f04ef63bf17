-------------------------- MODULE MetadataStorage --------------------------
(***************************************************************************)
(* How a metadata and its files become available, across the services: the *)
(* console submits the metadata to rudi-api, then uploads its new files to *)
(* rudi-media; rudi-manager commits each of them there, then in rudi-api,  *)
(* whose commitMedia sets the media available and computes the storage     *)
(* status of the metadata again; when no file is missing, the metadata is  *)
(* sent to the portal.                                                     *)
(*                                                                         *)
(* rudi-media is taken by what it promises, StagingPromise, which          *)
(* MediaStore implements.  What follows the marking of a metadata as sent  *)
(* is in PortalSync; here it is the reports that come back.                *)
(*                                                                         *)
(* There is one metadata: its handlers share nothing with those of others. *)
(* Its media are files (the others never miss); each new file gets an      *)
(* identifier of its own.  A handler is cut where it awaits.               *)
(***************************************************************************)
EXTENDS FiniteSets, Naturals

CONSTANTS
    Edits,    \* forms that are filled, to create the metadata or to edit it
    Files,    \* the media of the metadata
    Nil,      \* null
    Faults    \* what the environment may do, see FaultKinds

\* overlap:   an edit is submitted while handlers run or files are uploaded
\* staleForm: what a form loaded may have changed when it is submitted
\* late:      a report may arrive while handlers run
\* expire:    rudi-media may give up a file before it is committed
\* lost:      the commit in rudi-api may never follow that in rudi-media
FaultKinds == {"overlap", "staleForm", "late", "expire", "lost"}

\* A file also names the handler of its commit in rudi-api.
Tasks == Edits \cup Files

\* file_storage_status
Stored == {"missing", "available"}

ASSUME ConstantsAssumption ==
    /\ Nil \notin Tasks \cup Stored /\ Edits \cap Files = {}
    /\ Faults \subseteq FaultKinds

VARIABLES
    doc,      \* the metadata in MongoDB
    media,    \* file_storage_status of the media in MongoDB
    phase,    \* external: the uploads in the staging area of rudi-media
    added,    \* the new files of an edit
    todo,     \* the media that an edit has still to write
    view,     \* the statuses that an edit loaded, or that a commit read
    pc,       \* where the form or the handler is
    copy,     \* the document that it holds (dbMetadata)
    list,     \* the metadata that it read again
    full,     \* areAllMediaAvailable
    owed,     \* external: the number of reports that the portal owes
    sent      \* (history) the sets of files of the metadata that were sent

form    == <<added, todo, view>>
handler == <<copy, list, full>>
portal  == <<owed, sent>>
vars    == <<doc, media, phase, form, pc, handler, portal>>

Promise == INSTANCE StagingPromise WITH Posts <- Files

-----------------------------------------------------------------------------
(* Data *)

\* published is "never" until a send sets it to null ("no").
Doc == [files : SUBSET Files, storage : {"pending", "online"}, error : BOOLEAN,
        published : {"never", "no", "yes"}, v : Nat,
        status : {"incomplete", "sent", "published", "refused"}]

ASSUME NilAssumption == Nil \notin Doc

\* idle     not started           form      form loaded, not submitted
\* writing  media being written   saving    findOneAndUpdate done
\* reading  commit: media unread  binding   commit: metadata unread
\* setting  commit: media unsaved
\* saved    updateMetadataStorageState starts
\* counting metadata read again, not its media
\* storing, clearing              its two saves
\* sending  isMetadataSendableToPortal starts
\* loading  metadata read, not its media
\* marking  status not saved yet
\* done     over                  failed    answered an error
\* unsent   answered, and the send failed
PC == {"idle", "form", "writing", "saving", "reading", "binding", "setting", "saved",
       "counting", "storing", "clearing", "sending", "loading", "marking",
       "done", "failed", "unsent"}
Over     == {"idle", "form", "done", "failed", "unsent"}
Answered == {"sending", "loading", "marking", "done", "unsent"}

\* Some file of the edit is still to be uploaded or committed.
Uploading(e) == \E f \in added[e] : phase[f] \in {"new", "staged"}

\* No handler runs.
Quiet == \A t \in Tasks : pc[t] \in Over

available(files) == \A f \in files : media[f] = "available"

goto(t, place) == pc' = [pc EXCEPT ![t] = place]

-----------------------------------------------------------------------------
(* MongoDB and mongoose *)

\* reckonMetadataStatus, of a metadata without collection tag, with a portal.
reckonMetadataStatus(d) ==
    CASE d.storage = "pending" -> "incomplete"
      [] d.storage # "pending" /\ d.error -> "refused"
      [] d.storage # "pending" /\ ~d.error /\ d.published = "yes" -> "published"
      [] OTHER -> "sent"

\* optimisticConcurrency: a document is saved only when nobody saved it since.
upToDate(c) == doc.v = c.v

\* document.save() of the copy c, whose fields were set as in n, where the database
\* holds d: the hook computes the status, only the fields that changed are written.
Saved(d, c, n) ==
    LET m     == [n EXCEPT !.status = reckonMetadataStatus(n)]
        dirty == m # c
    IN  [d EXCEPT !.v         = IF dirty THEN @ + 1 ELSE @,
                  !.storage   = IF m.storage # c.storage THEN m.storage ELSE @,
                  !.error     = IF m.error # c.error THEN m.error ELSE @,
                  !.published = IF m.published # c.published THEN m.published ELSE @,
                  !.status    = IF m.status # c.status THEN m.status ELSE @]

\* The handler t saves its copy, set as in n, and holds what it saved.
save(t, n) ==
    /\ upToDate(copy[t])
    /\ doc' = Saved(doc, copy[t], n)
    /\ copy' = [copy EXCEPT ![t] = Saved(@, @, n)]

\* A save that another one forestalled.
VersionError(t) ==
    /\ pc[t] \in {"saving", "storing", "clearing", "marking"}
    /\ ~upToDate(copy[t])
    /\ goto(t, IF pc[t] = "marking" THEN "unsent" ELSE "failed")
    /\ UNCHANGED <<doc, media, phase, form, handler, portal>>

-----------------------------------------------------------------------------
(* The form of the console *)

Fresh == Files \ UNION {added[e] : e \in Edits}

Created(files) ==
    [files |-> files, storage |-> "pending", error |-> FALSE, published |-> "never",
     v |-> 0, status |-> "incomplete"]

\* A form for a new metadata; the status of its files is not set.
Fill(e, new) ==
    /\ doc = Nil /\ \A d \in Edits : pc[d] = "idle"
    /\ new # {} /\ new \subseteq Fresh
    /\ added' = [added EXCEPT ![e] = new]
    /\ copy' = [copy EXCEPT ![e] = Created(new)]
    /\ goto(e, "form")
    /\ UNCHANGED <<doc, media, phase, todo, view, list, full, portal>>

\* The form of the metadata: the editor keeps some files and adds others.
Open(e, kept, new) ==
    /\ pc[e] = "idle"
    /\ doc # Nil /\ kept \subseteq doc.files
    /\ new \subseteq Fresh /\ kept \cup new # {}
    /\ added' = [added EXCEPT ![e] = new]
    /\ view' = [view EXCEPT ![e] = media]
    /\ copy' = [copy EXCEPT ![e] = [doc EXCEPT !.files = kept \cup new]]
    /\ goto(e, "form")
    /\ UNCHANGED <<doc, media, phase, todo, list, full, portal>>

\* The flags and the statuses that the form gives back are no more those stored.
isStale(e) ==
    /\ doc # Nil
    /\ \/ copy[e].storage # doc.storage \/ copy[e].error # doc.error
       \/ copy[e].status # doc.status
       \/ \E f \in copy[e].files \ added[e] : view[e][f] # media[f]

Submit(e) ==
    /\ pc[e] = "form"
    /\ "overlap" \in Faults \/ (Quiet /\ \A d \in Edits : pc[d] \in Answered => ~Uploading(d))
    /\ "staleForm" \in Faults \/ ~isStale(e)
    /\ todo' = [todo EXCEPT ![e] = copy[e].files]
    /\ goto(e, "writing")
    /\ UNCHANGED <<doc, media, phase, added, view, handler, portal>>

-----------------------------------------------------------------------------
(* Creating and overwriting: mediaListRudiToDbFormat, newMetadata, overwriteMetadata *)

\* The media are written in any order: a new one is missing, the others get the
\* status that the form gives back.
WriteMedia(e, f) ==
    /\ pc[e] = "writing" /\ f \in todo[e]
    /\ media' = [media EXCEPT ![f] = IF f \in added[e] THEN "missing" ELSE view[e][f]]
    /\ todo' = [todo EXCEPT ![e] = @ \ {f}]
    /\ UNCHANGED <<doc, phase, added, view, pc, handler, portal>>

InsertMetadata(e) ==
    /\ pc[e] = "writing" /\ todo[e] = {}
    /\ doc = Nil
    /\ doc' = copy[e]
    /\ goto(e, "saved")
    /\ UNCHANGED <<media, phase, form, handler, portal>>

\* findOneAndUpdate, which leaves the version alone.
OverwriteMetadata(e) ==
    LET after == [doc EXCEPT !.files   = copy[e].files,
                             !.storage = copy[e].storage,
                             !.error   = IF copy[e].published = "never" THEN @ ELSE copy[e].error,
                             !.status  = copy[e].status]
    IN  /\ pc[e] = "writing" /\ todo[e] = {}
        /\ doc # Nil
        /\ doc' = after
        /\ copy' = [copy EXCEPT ![e] = after]
        /\ goto(e, "saving")
        /\ UNCHANGED <<media, phase, form, list, full, portal>>

SaveOverwritten(e) ==
    /\ pc[e] = "saving"
    /\ save(e, copy[e])
    /\ goto(e, "saved")
    /\ UNCHANGED <<media, phase, form, list, full, portal>>

-----------------------------------------------------------------------------
(* Uploading and committing a file: the console, rudi-manager, rudi-media *)

\* The console sends the new files of an edit that was answered.
Upload(e, f) ==
    /\ pc[e] \in Answered /\ f \in added[e]
    /\ Promise!Stage(f)
    /\ UNCHANGED <<doc, media, form, pc, handler, portal>>

Expire(f) ==
    /\ "expire" \in Faults
    /\ Promise!Expire(f)
    /\ UNCHANGED <<doc, media, form, pc, handler, portal>>

\* Faulty: rudi-api is called although rudi-media refused the commit.
CommitOnMedia_unchecked(f) ==
    /\ Promise!Commit(f) \/ Promise!Expire(f)
    /\ goto(f, "reading")
    /\ UNCHANGED <<doc, media, form, handler, portal>>

\* commitMedia of rudi-manager: rudi-api is called once rudi-media has accepted.
CommitOnMedia(f) ==
    /\ Promise!Commit(f)
    /\ \/ goto(f, "reading")
       \/ "lost" \in Faults /\ UNCHANGED pc
    /\ UNCHANGED <<doc, media, form, handler, portal>>

-----------------------------------------------------------------------------
(* commitMedia of rudi-api *)

ReadMedia(f) ==
    /\ pc[f] = "reading"
    /\ view' = [view EXCEPT ![f] = media]
    /\ goto(f, "binding")
    /\ UNCHANGED <<doc, media, phase, added, todo, handler, portal>>

ReadMetadata(f) ==
    /\ pc[f] = "binding"
    /\ copy' = [copy EXCEPT ![f] = doc]
    /\ goto(f, IF f \in doc.files THEN "setting" ELSE "failed")
    /\ UNCHANGED <<doc, media, phase, form, list, full, portal>>

\* Media have no version; the status is not written where it was available when
\* it was read.
SetAvailable(f) ==
    /\ pc[f] = "setting"
    /\ media' = [media EXCEPT ![f] = IF view[f][f] = "available" THEN @ ELSE "available"]
    /\ goto(f, "saved")
    /\ UNCHANGED <<doc, phase, form, handler, portal>>

-----------------------------------------------------------------------------
(* updateMetadataStorageState *)

ReadAgain(t) ==
    /\ pc[t] = "saved"
    /\ list' = [list EXCEPT ![t] = doc]
    /\ goto(t, "counting")
    /\ UNCHANGED <<doc, media, phase, form, copy, full, portal>>

\* Faulty: the name of the status of a media, for that of a metadata.
storageOf_media(isFull) == IF isFull THEN "available" ELSE "missing"

storageOf(isFull) == IF isFull THEN "online" ELSE "pending"

\* The document that is saved, with its new storage status.
withStorage(t) == [copy[t] EXCEPT !.storage = storageOf(full[t])]

\* Where it goes on after its saves: the metadata is sent if no file is missing.
afterState(isFull) == IF isFull THEN "sending" ELSE "done"

\* Faulty: a commit counts the media as it read them before it saved its own.
CountMedia_before(t) ==
    LET isFull == \A f \in list[t].files :
                     IF t \in Files THEN f = t \/ view[t][f] = "available"
                                   ELSE media[f] = "available"
    IN  /\ pc[t] = "counting"
        /\ full' = [full EXCEPT ![t] = isFull]
        /\ goto(t, IF copy[t].storage # storageOf(isFull) /\ ~copy[t].error THEN "storing"
                   ELSE IF list[t].error THEN "clearing" ELSE afterState(isFull))
        /\ UNCHANGED <<doc, media, phase, form, copy, list, portal>>

CountMedia(t) ==
    LET isFull == available(list[t].files)
    IN  /\ pc[t] = "counting"
        /\ full' = [full EXCEPT ![t] = isFull]
        /\ goto(t, IF copy[t].storage # storageOf(isFull) /\ ~copy[t].error THEN "storing"
                   ELSE IF list[t].error THEN "clearing" ELSE afterState(isFull))
        /\ UNCHANGED <<doc, media, phase, form, copy, list, portal>>

StoreState(t) ==
    /\ pc[t] = "storing"
    /\ save(t, withStorage(t))
    /\ goto(t, IF list[t].error THEN "clearing" ELSE afterState(full[t]))
    /\ UNCHANGED <<media, phase, form, list, full, portal>>

\* "Integration error flag removed": removed from the answer, not from the database.
ClearError(t) ==
    /\ pc[t] = "clearing"
    /\ save(t, withStorage(t))
    /\ goto(t, afterState(full[t]))
    /\ UNCHANGED <<media, phase, form, list, full, portal>>

-----------------------------------------------------------------------------
(* isMetadataSendableToPortal *)

ReadToSend(t) ==
    /\ pc[t] = "sending"
    /\ copy' = [copy EXCEPT ![t] = doc]
    /\ goto(t, "loading")
    /\ UNCHANGED <<doc, media, phase, form, list, full, portal>>

CheckSendable(t) ==
    /\ pc[t] = "loading"
    /\ goto(t, IF copy[t].storage # "pending" /\ available(copy[t].files)
                 THEN "marking" ELSE "done")
    /\ UNCHANGED <<doc, media, phase, form, handler, portal>>

MarkSent(t) ==
    /\ pc[t] = "marking"
    /\ save(t, [copy[t] EXCEPT !.published = "no", !.error = FALSE, !.status = "sent"])
    /\ sent' = sent \cup {copy[t].files}
    /\ owed' = owed + 1
    /\ goto(t, "done")
    /\ UNCHANGED <<media, phase, form, list, full>>

-----------------------------------------------------------------------------
(* External: the portal reports that a metadata was integrated, or was not, or the  *)
(* send fails and this node reports it                                              *)

Report(ok) ==
    /\ owed > 0
    /\ "late" \in Faults \/ Quiet
    /\ owed' = owed - 1
    /\ doc' = IF ok /\ doc.published = "yes" THEN doc
              ELSE Saved(doc, doc, IF ok THEN [doc EXCEPT !.published = "yes"]
                                         ELSE [doc EXCEPT !.error = TRUE])
    /\ UNCHANGED <<media, phase, form, pc, handler, sent>>

-----------------------------------------------------------------------------

Init ==
    /\ doc = Nil
    /\ media = [f \in Files |-> Nil]
    /\ Promise!Init
    /\ added = [e \in Edits |-> {}] /\ todo = [e \in Edits |-> {}]
    /\ view = [t \in Tasks |-> Nil]
    /\ pc = [t \in Tasks |-> "idle"]
    /\ copy = [t \in Tasks |-> Nil]
    /\ list = [t \in Tasks |-> Nil]
    /\ full = [t \in Tasks |-> FALSE]
    /\ owed = 0
    /\ sent = {}

Editor(e) ==
    \/ \E new \in SUBSET Files : Fill(e, new)
    \/ \E kept, new \in SUBSET Files : Open(e, kept, new)
    \/ Submit(e)
    \/ \E f \in Files : WriteMedia(e, f) \/ Upload(e, f)
    \/ InsertMetadata(e) \/ OverwriteMetadata(e) \/ SaveOverwritten(e)

Committing(f) ==
    Expire(f) \/ CommitOnMedia(f) \/ ReadMedia(f) \/ ReadMetadata(f) \/ SetAvailable(f)

Storing(t) ==
    \/ ReadAgain(t) \/ CountMedia(t) \/ StoreState(t) \/ ClearError(t) \/ VersionError(t)
    \/ ReadToSend(t) \/ CheckSendable(t) \/ MarkSent(t)

Next ==
    \/ \E e \in Edits : Editor(e)
    \/ \E f \in Files : Committing(f)
    \/ \E t \in Tasks : Storing(t)
    \/ \E ok \in BOOLEAN : Report(ok)

Spec == Init /\ [][Next]_vars

-----------------------------------------------------------------------------
(* Properties *)

TypeOK ==
    /\ doc \in Doc \cup {Nil}
    /\ media \in [Files -> Stored \cup {Nil}]
    /\ phase \in [Files -> Promise!Phases]
    /\ added \in [Edits -> SUBSET Files] /\ todo \in [Edits -> SUBSET Files]
    /\ view \in [Tasks -> [Files -> Stored \cup {Nil}] \cup {Nil}]
    /\ pc \in [Tasks -> PC]
    /\ copy \in [Tasks -> Doc \cup {Nil}] /\ list \in [Tasks -> Doc \cup {Nil}]
    /\ full \in [Tasks -> BOOLEAN]
    /\ owed \in Nat
    /\ sent \subseteq SUBSET Files

\* A metadata is sent to the portal only with files that rudi-media committed,
\* whatever expires, is lost, edited meanwhile or given back by a stale form.
SentIsServed == \A files \in sent : \A f \in files : phase[f] = "committed"

Failed == {t \in Tasks : pc[t] \in {"failed", "unsent"}}

\* The handlers that found no file missing among those that the metadata has now.
Finders == {t \in Tasks : full[t] /\ list[t].files = doc.files}

\* Whichever of the commits of the files of a metadata comes last sees the others: when
\* no handler runs and no file is missing, some handler found it, and the metadata has
\* been sent unless a save of each of those who did was forestalled.
LastCommitSends ==
    doc # Nil /\ Quiet /\ available(doc.files) /\ Edits \cap Failed = {} =>
        Finders # {} /\ (doc.files \in sent \/ Finders \subseteq Failed)
=============================================================================
