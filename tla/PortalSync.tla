----------------------------- MODULE PortalSync -----------------------------
(***************************************************************************)
(* How rudi-api keeps the RUDI portal up to date: an editor creates or     *)
(* overwrites a metadata, sendMetadataToPortal marks it as sent, posts it, *)
(* and the portal answers later with an integration report, whose handler  *)
(* flags the metadata as published or refused.                             *)
(*                                                                         *)
(* Every await of a handler is a point where other handlers run: a handler *)
(* is cut at each of them, a request to MongoDB or to the portal being a   *)
(* step, the code up to the next request another where they do not commute.*)
(*                                                                         *)
(* A send, the entry it puts in the waiting room and the report the portal *)
(* issues for it bear the same identifier.  The metadata have no           *)
(* collection tag and all their media are available; none is deleted.      *)
(***************************************************************************)
EXTENDS Naturals, SequencesExt

CONSTANTS
    Sends,      \* what makes a metadata be sent, each used at most once
    Metas,      \* the metadata
    Nil,        \* null
    Faults,     \* what the environment may do, see FaultKinds
    Timeout,    \* WAITING_ROOM_TIMEOUT_S
    MaxClock    \* bound on the clock

\* overlap:   a metadata is edited or sent again while a send of it is under way
\* staleForm: the metadata may be flagged between the loading of a form and its
\*            submission
\* netError:  requests to the portal may fail, or their answers be lost
\* refusal:   the portal may refuse a metadata, or report that it is not valid
\* late:      a report may arrive while the metadata is being sent or edited
\* retry:     the portal sends a report again when its handler failed
FaultKinds == {"overlap", "staleForm", "netError", "refusal", "late", "retry"}

ASSUME ConstantsAssumption ==
    /\ Nil \notin Sends /\ Nil \notin Metas
    /\ Faults \subseteq FaultKinds
    /\ Timeout \in Nat \ {0} /\ MaxClock \in Nat

VARIABLES
    clock,      \* timeEpochS()
    doc,        \* the metadata in MongoDB
    room,       \* metadatasWaitingForPortalFeedback: the senders of its entries
    portal,     \* external: what the portal publishes of each metadata
    meta,       \* the metadata that a send is about
    pc,         \* where the request or the send is
    copy,       \* the mongoose document that it holds
    json,       \* portalReadyMetadata, with the date that its entry has too
    wait,       \* the index of its entry, and the date when it was put there
    found,      \* whether room[waitIndex] was defined
    asked,      \* external: what the portal made of it
    hpc,        \* where the handler of its report is
    seen,       \* the mongoose document that this handler holds
    mark        \* (history) the version of the document that it marked as sent

local   == <<meta, pc, copy, json, wait, found>>
report  == <<hpc, seen>>
vars    == <<clock, doc, room, portal, local, asked, report, mark>>

-----------------------------------------------------------------------------
(* Data *)

\* publishedAt is "never" until a send sets it to null; integration_error_id is
\* then undefined too.  The date of a publication is named by the report that set
\* it, the error by the report that the portal or this node made of the send.
Errors == {Nil} \cup Sends \X {"portal", "local"}
Status == {"sent", "published", "refused"}
Doc == [rev : Sends \cup {Nil}, date : Nat, v : Nat, published : Sends \cup {Nil, "never"},
        error : Errors, status : Status]
Json == [rev : Sends \cup {Nil}, date : Nat]
Entry == [index : Nat \ {0}, date : Nat]

ASSUME NilAssumption ==
    /\ Nil \notin Doc \cup Json \cup Entry /\ Nil \notin Sends \X {"portal", "local"}
    /\ Nil # "never" /\ "never" \notin Sends

Created(s) == [rev |-> s, date |-> 0, v |-> 0, published |-> "never",
               error |-> Nil, status |-> "sent"]

\* idle      not started           form     form loaded, not submitted
\* updated   findOneAndUpdate done saved    saved, state of the media not read yet
\* resaving  error found           reading  the send starts
\* checking  metadata read         marking  entry in the waiting room
\* marked    status saved          asking   waiting for the portal's GET
\* posting, putting, accepted      the portal's POST or PUT
\* dropping  the portal is up to date
\* failing, flagging               createErrorReport, before and after its read
PC == {"idle", "form", "updated", "saved", "resaving", "reading", "checking",
       "marking", "marked", "asking", "posting", "putting", "accepted",
       "dropping", "failing", "flagging", "done", "failed"}
Over == {"idle", "form", "done", "failed"}

HPC == {"none", "received", "saving", "done", "failed"}

-----------------------------------------------------------------------------
(* MongoDB and mongoose *)

\* reckonMetadataStatus, of a metadata that is online, where a portal is set
reckonMetadataStatus(d) ==
    CASE d.error # Nil -> "refused"
      [] d.error = Nil /\ d.published \notin {Nil, "never"} -> "published"
      [] OTHER -> "sent"

\* Faulty: an update is saved whatever the version.
upToDate_any(d, c) == TRUE

\* optimisticConcurrency: a document is saved only when nobody saved it since.
upToDate(d, c) == d.v = c.v

\* Faulty: the hook does not compute the status.
Saved_noHook(d, c, n) ==
    [d EXCEPT !.v = @ + 1, !.date = @ + 1, !.published = n.published, !.error = n.error]

\* document.save() of the copy c, whose fields were set as in n, where the database
\* holds d: the hook computes the status, only the fields that changed are written.
\* The date was set before the hook, and not when nothing but the status changes.
Saved(d, c, n) ==
    LET status == reckonMetadataStatus(n)
        set    == n # c
    IN  [d EXCEPT !.v         = IF set \/ status # c.status THEN @ + 1 ELSE @,
                  !.date      = IF set THEN @ + 1 ELSE @,
                  !.published = IF n.published # c.published THEN n.published ELSE @,
                  !.error     = IF n.error # c.error THEN n.error ELSE @,
                  !.status    = IF status # c.status THEN status ELSE @]

\* What the handler holds once it saved.
Held(c, n) == Saved(c, c, n)

saveMetadata(m, c, n) == upToDate(doc[m], c) /\ doc' = [doc EXCEPT ![m] = Saved(@, c, n)]

goto(s, place) == pc' = [pc EXCEPT ![s] = place]

\* The handler ends, what it held is forgotten.
end(s, place) ==
    /\ goto(s, place)
    /\ copy' = [copy EXCEPT ![s] = Nil]
    /\ found' = [found EXCEPT ![s] = FALSE]

\* A save that another one forestalled: the document is left alone.
VersionError(s, place) ==
    /\ pc[s] = place
    /\ ~upToDate(doc[meta[s]], copy[s])
    /\ end(s, "failed")
    /\ UNCHANGED <<clock, doc, room, portal, meta, json, wait, asked, report, mark>>

-----------------------------------------------------------------------------
(* Editing a metadata: newMetadata, overwriteMetadata, sendManyMetadataToPortal *)

SendsOf(m) == {s \in Sends : meta[s] = m}

\* Nobody works on the metadata.
Settled(m) ==
    \A s \in SendsOf(m) : pc[s] \in Over /\ hpc[s] \notin {"received", "saving"}

MayStart(s, m) ==
    /\ pc[s] = "idle"
    /\ "overlap" \in Faults \/ Settled(m)
    /\ meta' = [meta EXCEPT ![s] = m]

newMetadata(s, m) ==
    /\ MayStart(s, m)
    /\ doc[m] = Nil
    /\ doc' = [doc EXCEPT ![m] = Created(s)]
    /\ copy' = [copy EXCEPT ![s] = Created(s)]
    /\ goto(s, "saved")
    /\ UNCHANGED <<clock, room, portal, json, wait, found, asked, report, mark>>

\* The editor loads the form of a metadata.
Open(s, m) ==
    /\ MayStart(s, m)
    /\ doc[m] # Nil
    /\ copy' = [copy EXCEPT ![s] = doc[m]]
    /\ goto(s, "form")
    /\ UNCHANGED <<clock, doc, room, portal, json, wait, found, asked, report, mark>>

\* Faulty: the update does not set the date.
Overwritten_undated(s, d, form) ==
    [d EXCEPT !.rev    = s,
              !.error  = IF form.published = "never" THEN @ ELSE form.error,
              !.status = form.status]

\* findOneAndUpdate of overwriteDbObject, which leaves the version alone.  The form
\* gives back the error, where there is one or null, and the status that it loaded.
Overwritten(s, d, form) ==
    [d EXCEPT !.rev    = s,
              !.date   = @ + 1,
              !.error  = IF form.published = "never" THEN @ ELSE form.error,
              !.status = form.status]

isStale(d, form) == form.error # d.error \/ form.status # d.status

SubmitForm(s) ==
    LET m     == meta[s]
        form  == copy[s]
        after == Overwritten(s, doc[m], form)
    IN  /\ pc[s] = "form"
        /\ "overlap" \in Faults \/ Settled(m)
        /\ "staleForm" \in Faults \/ ~isStale(doc[m], form)
        /\ doc' = [doc EXCEPT ![m] = after]
        /\ copy' = [copy EXCEPT ![s] = after]
        /\ goto(s, "updated")
        /\ UNCHANGED <<clock, room, portal, meta, json, wait, found, asked, report, mark>>

\* The save that follows in overwriteDbObject, for the hook.
SaveUpdated(s) ==
    /\ pc[s] = "updated"
    /\ saveMetadata(meta[s], copy[s], copy[s])
    /\ copy' = [copy EXCEPT ![s] = Held(@, @)]
    /\ goto(s, "saved")
    /\ UNCHANGED <<clock, room, portal, meta, json, wait, found, asked, report, mark>>

\* updateMetadataStorageState reads the metadata again...
ReadState(s) ==
    /\ pc[s] = "saved"
    /\ goto(s, IF doc[meta[s]].error # Nil THEN "resaving" ELSE "reading")
    /\ UNCHANGED <<clock, doc, room, portal, meta, copy, json, wait, found, asked, report, mark>>

\* ... and, for the error that it found, saves the document it was given, in which
\* nothing changed: only its version is checked.
Resave(s) ==
    /\ pc[s] = "resaving"
    /\ saveMetadata(meta[s], copy[s], copy[s])
    /\ goto(s, "reading")
    /\ UNCHANGED <<clock, room, portal, meta, copy, json, wait, found, asked, report, mark>>

sendMany(s, m) ==
    /\ MayStart(s, m)
    /\ doc[m] # Nil
    /\ goto(s, "reading")
    /\ UNCHANGED <<clock, doc, room, portal, copy, json, wait, found, asked, report, mark>>

EditFails(s) == VersionError(s, "updated") \/ VersionError(s, "resaving")

-----------------------------------------------------------------------------
(* Sending a metadata: isMetadataSendableToPortal, sendMetadataToPortal *)

ReadMetadata(s) ==
    /\ pc[s] = "reading"
    /\ copy' = [copy EXCEPT ![s] = doc[meta[s]]]
    /\ goto(s, "checking")
    /\ UNCHANGED <<clock, doc, room, portal, meta, json, wait, found, asked, report, mark>>

\* The entries that stay in the room, in their order.
isRecent(t) == ~(wait[t].date < clock + Timeout)
recent ==
    LET kept[n \in 0 .. Len(room)] ==
            IF n = 0 THEN <<>>
            ELSE IF isRecent(room[n]) THEN Append(kept[n - 1], room[n]) ELSE kept[n - 1]
    IN  kept[Len(room)]

isAlreadyWaiting(s) ==
    \E t \in Range(recent) : meta[t] = meta[s] /\ json[t].date >= copy[s].date

\* Faulty: one is subtracted from the index.
enter_before(s) ==
    /\ room' = Append(recent, s)
    /\ wait' = [wait EXCEPT ![s] = [index |-> Len(recent), date |-> clock]]
    /\ json' = [json EXCEPT ![s] = [rev |-> copy[s].rev, date |-> copy[s].date]]

\* The metadata enters the waiting room, as it was read.
enter(s) ==
    /\ room' = Append(recent, s)
    /\ wait' = [wait EXCEPT ![s] = [index |-> Len(recent) + 1, date |-> clock]]
    /\ json' = [json EXCEPT ![s] = [rev |-> copy[s].rev, date |-> copy[s].date]]

Enlist(s) ==
    /\ pc[s] = "checking"
    /\ IF isAlreadyWaiting(s)
         THEN room' = recent /\ end(s, "done") /\ UNCHANGED <<wait, json>>
         ELSE enter(s) /\ goto(s, "marking") /\ UNCHANGED <<copy, found>>
    /\ UNCHANGED <<clock, doc, portal, meta, asked, report, mark>>

setMetadataStatusToSent(c) == [c EXCEPT !.published = Nil, !.error = Nil, !.status = "sent"]

Mark(s) ==
    LET sent == setMetadataStatusToSent(copy[s])
    IN  /\ pc[s] = "marking"
        /\ saveMetadata(meta[s], copy[s], sent)
        /\ copy' = [copy EXCEPT ![s] = Held(@, sent)]
        /\ mark' = [mark EXCEPT ![s] = doc'[meta[s]].v]
        /\ goto(s, "marked")
        /\ UNCHANGED <<clock, room, portal, meta, json, wait, found, asked, report>>

\* The error report that follows has no metadata to flag.
MarkFails(s) == VersionError(s, "marking")

\* The entry is read at the index where it was before the save.
TakeEntry(s) ==
    /\ pc[s] = "marked"
    /\ found' = [found EXCEPT ![s] = wait[s].index <= Len(room)]
    /\ goto(s, "asking")
    /\ UNCHANGED <<clock, doc, room, portal, meta, copy, json, wait, asked, report, mark>>

\* The portal answers what it has of the metadata: nothing (or the request failed),
\* an older one, or one that needs no update.
Get(s) ==
    /\ pc[s] = "asking"
    /\ \/ (portal[meta[s]] = Nil \/ "netError" \in Faults) /\ goto(s, "posting")
       \/ /\ portal[meta[s]] # Nil
          /\ goto(s, IF portal[meta[s]].date < json[s].date THEN "putting" ELSE "dropping")
    /\ UNCHANGED <<clock, doc, room, portal, meta, copy, json, wait, found, asked, report, mark>>

\* getPortalToken failed.
NoToken(s) ==
    /\ "netError" \in Faults
    /\ pc[s] = "asking"
    /\ goto(s, "failing")
    /\ UNCHANGED <<clock, doc, room, portal, meta, copy, json, wait, found, asked, report, mark>>

\* Whatever entry is there now is removed.
Drop(s) ==
    /\ pc[s] = "dropping"
    /\ room' = IF wait[s].index <= Len(room) THEN RemoveAt(room, wait[s].index) ELSE room
    /\ end(s, "done")
    /\ UNCHANGED <<clock, doc, portal, meta, json, wait, asked, report, mark>>

\* The identifier of the report is written into the entry: a TypeError when there is
\* none.
Accepted(s) ==
    /\ pc[s] = "accepted"
    /\ IF found[s] THEN end(s, "done")
                   ELSE goto(s, "failing") /\ UNCHANGED <<copy, found>>
    /\ UNCHANGED <<clock, doc, room, portal, meta, json, wait, asked, report, mark>>

-----------------------------------------------------------------------------
(* External: the portal *)

PortalAccepts(s) ==
    /\ pc[s] \in {"posting", "putting"}
    /\ asked' = [asked EXCEPT ![s] = "accepted"]
    /\ \/ goto(s, "accepted")
       \/ "netError" \in Faults /\ goto(s, "failing")
    /\ UNCHANGED <<clock, doc, room, portal, meta, copy, json, wait, found, report, mark>>

PortalRefuses(s) ==
    /\ {"netError", "refusal"} \cap Faults # {}
    /\ pc[s] \in {"posting", "putting"}
    /\ goto(s, "failing")
    /\ UNCHANGED <<clock, doc, room, portal, meta, copy, json, wait, found, asked, report, mark>>

\* What was accepted is integrated, or not, the older contents of a metadata first.
Integrate(s) ==
    /\ asked[s] = "accepted"
    /\ \A t \in SendsOf(meta[s]) : asked[t] = "accepted" => json[s].date <= json[t].date
    /\ \/ /\ asked' = [asked EXCEPT ![s] = "OK"]
          /\ portal' = [portal EXCEPT ![meta[s]] = json[s]]
       \/ /\ "refusal" \in Faults
          /\ asked' = [asked EXCEPT ![s] = "KO"]
          /\ UNCHANGED portal
    /\ UNCHANGED <<clock, doc, room, local, report, mark>>

-----------------------------------------------------------------------------
(* createErrorReport *)

ReadForFlag(s) ==
    /\ pc[s] = "failing"
    /\ copy' = [copy EXCEPT ![s] = doc[meta[s]]]
    /\ goto(s, "flagging")
    /\ UNCHANGED <<clock, doc, room, portal, meta, json, wait, found, asked, report, mark>>

FlagError(s) ==
    /\ pc[s] = "flagging"
    /\ saveMetadata(meta[s], copy[s], [copy[s] EXCEPT !.error = <<s, "local">>])
    /\ end(s, "failed")
    /\ UNCHANGED <<clock, room, portal, meta, json, wait, asked, report, mark>>

FlagFails(s) == VersionError(s, "flagging")

-----------------------------------------------------------------------------
(* Integration reports: addOrEditSingleReport *)

\* The first entry of the metadata leaves the room, whatever the report.
removeMetadataFromWaitingList(m) ==
    LET at == SelectInSeq(room, LAMBDA t : meta[t] = m)
    IN  room' = IF at = 0 THEN room ELSE RemoveAt(room, at)

ReportArrives(s) ==
    /\ asked[s] \in {"OK", "KO"}
    /\ hpc[s] = "none"
    /\ "late" \in Faults \/ Settled(meta[s])
    /\ removeMetadataFromWaitingList(meta[s])
    /\ hpc' = [hpc EXCEPT ![s] = "received"]
    /\ UNCHANGED <<clock, doc, portal, local, asked, seen, mark>>

ReportReads(s) ==
    LET d == doc[meta[s]]
    IN  /\ hpc[s] = "received"
        /\ seen' = [seen EXCEPT ![s] = d]
        /\ hpc' = [hpc EXCEPT ![s] = IF asked[s] = "OK" /\ d.published \notin {Nil, "never"}
                                       THEN "done" ELSE "saving"]
        /\ UNCHANGED <<clock, doc, room, portal, local, asked, mark>>

setPublishedFlag(c, s)     == [c EXCEPT !.published = s]
setFlagIntegrationKO(c, s) == [c EXCEPT !.error = <<s, "portal">>]

ReportSaves(s) ==
    /\ hpc[s] = "saving"
    /\ saveMetadata(meta[s], seen[s],
                    IF asked[s] = "OK" THEN setPublishedFlag(seen[s], s)
                                       ELSE setFlagIntegrationKO(seen[s], s))
    /\ hpc' = [hpc EXCEPT ![s] = "done"]
    /\ UNCHANGED <<clock, room, portal, local, asked, seen, mark>>

\* Faulty: the error is swallowed.
ReportFails_silent(s) ==
    /\ hpc[s] = "saving"
    /\ ~upToDate(doc[meta[s]], seen[s])
    /\ hpc' = [hpc EXCEPT ![s] = "done"]
    /\ UNCHANGED <<clock, doc, room, portal, local, asked, seen, mark>>

\* The portal is answered an error.
ReportFails(s) ==
    /\ hpc[s] = "saving"
    /\ ~upToDate(doc[meta[s]], seen[s])
    /\ hpc' = [hpc EXCEPT ![s] = "failed"]
    /\ UNCHANGED <<clock, doc, room, portal, local, asked, seen, mark>>

ReportRetried(s) ==
    /\ "retry" \in Faults
    /\ hpc[s] = "failed"
    /\ hpc' = [hpc EXCEPT ![s] = "none"]
    /\ UNCHANGED <<clock, doc, room, portal, local, asked, seen, mark>>

Tick ==
    /\ clock < MaxClock
    /\ clock' = clock + 1
    /\ UNCHANGED <<doc, room, portal, local, asked, report, mark>>

-----------------------------------------------------------------------------

\* A metadata may have been created before the process was started, and its send
\* lost with the one before.
Init ==
    /\ clock = 0
    /\ doc \in [Metas -> {Nil, Created(Nil)}]
    /\ room = <<>>
    /\ portal = [m \in Metas |-> Nil]
    /\ meta = [s \in Sends |-> Nil]
    /\ pc = [s \in Sends |-> "idle"]
    /\ copy = [s \in Sends |-> Nil]
    /\ json = [s \in Sends |-> Nil]
    /\ wait = [s \in Sends |-> Nil]
    /\ found = [s \in Sends |-> FALSE]
    /\ asked = [s \in Sends |-> "none"]
    /\ hpc = [s \in Sends |-> "none"]
    /\ seen = [s \in Sends |-> Nil]
    /\ mark = [s \in Sends |-> 0]

Editor(s) ==
    \/ \E m \in Metas : newMetadata(s, m) \/ Open(s, m) \/ sendMany(s, m)
    \/ SubmitForm(s) \/ SaveUpdated(s) \/ ReadState(s) \/ Resave(s) \/ EditFails(s)

Sending(s) ==
    \/ ReadMetadata(s) \/ Enlist(s) \/ Mark(s) \/ MarkFails(s) \/ TakeEntry(s)
    \/ Get(s) \/ NoToken(s) \/ Drop(s) \/ Accepted(s)
    \/ ReadForFlag(s) \/ FlagError(s) \/ FlagFails(s)

Portal(s) == PortalAccepts(s) \/ PortalRefuses(s) \/ Integrate(s)

Reporting(s) ==
    \/ ReportArrives(s) \/ ReportReads(s) \/ ReportSaves(s)
    \/ ReportFails(s) \/ ReportRetried(s)

Next == (\E s \in Sends : Editor(s) \/ Sending(s) \/ Portal(s) \/ Reporting(s)) \/ Tick

Spec == Init /\ [][Next]_vars

-----------------------------------------------------------------------------
(* Properties *)

TypeOK ==
    /\ clock \in 0 .. MaxClock
    /\ doc \in [Metas -> Doc \cup {Nil}]
    /\ room \in Seq(Sends)
    /\ portal \in [Metas -> Json \cup {Nil}]
    /\ meta \in [Sends -> Metas \cup {Nil}]
    /\ pc \in [Sends -> PC]
    /\ copy \in [Sends -> Doc \cup {Nil}] /\ seen \in [Sends -> Doc \cup {Nil}]
    /\ json \in [Sends -> Json \cup {Nil}]
    /\ wait \in [Sends -> Entry \cup {Nil}]
    /\ found \in [Sends -> BOOLEAN]
    /\ asked \in [Sends -> {"none", "accepted", "OK", "KO"}]
    /\ hpc \in [Sends -> HPC]
    /\ mark \in [Sends -> Nat]

\* No send of the metadata was marked since the handler of this report read it.
NoneSince(s) == \A t \in SendsOf(meta[s]) : mark[t] <= seen[s].v

isPublished(d) == d # Nil /\ d.published \notin {Nil, "never"}

\* A metadata bears the date of a publication only where the handler of that report
\* had seen every send since: a report that is being handled never publishes over a
\* send that was marked meanwhile.
PublishedSeesSends ==
    \A m \in Metas :
        isPublished(doc[m]) =>
            LET s == doc[m].published
            IN  meta[s] = m /\ asked[s] = "OK" /\ NoneSince(s)

\* A report that was answered without an error counts until the metadata is sent
\* again: a failed integration shows as refused, a successful one as published,
\* unless an error shows.
HandledReportsCount ==
    \A s \in Sends :
        hpc[s] = "done" /\ NoneSince(s) =>
            LET d == doc[meta[s]]
            IN  IF asked[s] = "KO" THEN d.status = "refused"
                ELSE isPublished(d) /\ d.status \in {"published", "refused"}

\* The status that is stored is the one reckoned from the flags that are stored,
\* although handlers compute it from copies and write only what they changed.
StatusReckoned ==
    \A m \in Metas :
        doc[m] # Nil => doc[m].status = reckonMetadataStatus(doc[m])

\* When nobody works on a metadata and the portal has dealt with what it accepted,
\* it publishes what the node holds if a send of that content succeeded and was not
\* refused: no older content stays, or comes back, through the dates compared.
PortalUpToDate ==
    \A m \in Metas :
        Settled(m) /\ (\A s \in SendsOf(m) : asked[s] # "accepted") =>
            \A s \in SendsOf(m) :
                /\ pc[s] = "done" /\ asked[s] # "KO"
                /\ json[s] # Nil /\ json[s].rev = doc[m].rev
                => portal[m] # Nil /\ portal[m].rev = doc[m].rev
=============================================================================
