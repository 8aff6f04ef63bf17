--------------------------- MODULE PortalSyncProofs ---------------------------
(***************************************************************************)
(* Proofs about PortalSync, for any sends and metadata.                    *)
(***************************************************************************)
EXTENDS PortalSync, TLAPS

(***************************************************************************)
(* The inductive invariant.                                                *)
(***************************************************************************)

\* The types of all but the waiting room and what is put there, see RoomInv.
TypedOK ==
    /\ clock \in 0 .. MaxClock
    /\ doc \in [Metas -> Doc \cup {Nil}]
    /\ portal \in [Metas -> Json \cup {Nil}]
    /\ meta \in [Sends -> Metas \cup {Nil}]
    /\ pc \in [Sends -> PC]
    /\ copy \in [Sends -> Doc \cup {Nil}] /\ seen \in [Sends -> Doc \cup {Nil}]
    /\ json \in [Sends -> Json \cup {Nil}]
    /\ found \in [Sends -> BOOLEAN]
    /\ asked \in [Sends -> {"none", "accepted", "OK", "KO"}]
    /\ hpc \in [Sends -> HPC]
    /\ mark \in [Sends -> Nat]

\* Where a send holds a document, and where the portal was not asked anything yet.
Holding == {"form", "updated", "saved", "resaving", "checking", "marking", "flagging"}
Before  == {"form", "updated", "saved", "resaving", "reading", "checking", "marking",
            "marked", "asking", "posting", "putting", "dropping"}

\* What a send and the handler of its report have at each place.
PlaceOK(s) ==
    /\ pc[s] = "idle" => copy[s] = Nil /\ mark[s] = 0 /\ asked[s] = "none"
    /\ pc[s] # "idle" => meta[s] \in Metas /\ doc[meta[s]] # Nil
    /\ pc[s] \in Holding => copy[s] # Nil
    /\ pc[s] \in Before => asked[s] = "none"
    /\ hpc[s] # "none" => asked[s] \in {"OK", "KO"}
    /\ hpc[s] \in {"saving", "done", "failed"} => seen[s] # Nil
    /\ hpc[s] = "saving" /\ asked[s] = "OK" => ~isPublished(seen[s])

PlacesOK == \A s \in Sends : PlaceOK(s)

\* The document d, or one that it became: an update that the version does not show
\* leaves the publication as it is, and the error and the status where no form is
\* stale.
Advances(d, e) ==
    /\ d.v <= e.v
    /\ d.v = e.v =>
          /\ d.published = e.published
          /\ "staleForm" \notin Faults => d.error = e.error /\ d.status = e.status

\* What is held was read, or saved.
VersionOK(s) ==
    /\ pc[s] # "idle" /\ copy[s] # Nil => Advances(copy[s], doc[meta[s]])
    /\ seen[s] # Nil => pc[s] # "idle" /\ Advances(seen[s], doc[meta[s]])
    /\ pc[s] # "idle" => mark[s] <= doc[meta[s]].v

VersionsOK == \A s \in Sends : VersionOK(s)

\* PublishedSeesSends, for a report whose handler is done.
PublishedOK ==
    \A m \in Metas : isPublished(doc[m]) =>
        \E s \in Sends :
            /\ doc[m].published = s
            /\ meta[s] = m /\ asked[s] = "OK" /\ hpc[s] = "done" /\ NoneSince(s)

\* A report that was handled shows, until the metadata is sent again.
HandledOK ==
    "staleForm" \notin Faults =>
        \A s \in Sends : hpc[s] = "done" /\ NoneSince(s) =>
            /\ asked[s] = "OK" => isPublished(doc[meta[s]])
            /\ asked[s] = "KO" => doc[meta[s]].error # Nil

StatusOK == "staleForm" \notin Faults => StatusReckoned

IInv == TypedOK /\ PlacesOK /\ VersionsOK /\ PublishedOK /\ HandledOK /\ StatusOK

(***************************************************************************)
(* Data.                                                                   *)
(***************************************************************************)

\* Nil is none of what it stands for the absence of.
LEMMA NoNil ==
    /\ Nil \notin Sends /\ Nil \notin Metas /\ Nil \notin Doc /\ Nil \notin Json
    /\ \A s \in Sends : <<s, "portal">> # Nil /\ <<s, "local">> # Nil
    /\ Nil # "never" /\ "never" \notin Sends
BY ConstantsAssumption, NilAssumption

\* The fields of a document.
LEMMA DocFields ==
    ASSUME NEW d \in Doc
    PROVE  /\ d = [rev |-> d.rev, date |-> d.date, v |-> d.v, published |-> d.published,
                   error |-> d.error, status |-> d.status]
           /\ d.rev \in Sends \cup {Nil} /\ d.date \in Nat /\ d.v \in Nat
           /\ d.published \in Sends \cup {Nil, "never"} /\ d.error \in Errors /\ d.status \in Status
BY DEF Doc

\* The document of a new metadata.
LEMMA CreatedIs ==
    ASSUME NEW s \in Sends
    PROVE  /\ Created(s) \in Doc /\ Created(s) # Nil
           /\ Created(s).v = 0 /\ Created(s).published = "never" /\ Created(s).error = Nil
           /\ Created(s).status = "sent"
<1>1. Created(s) \in Doc
  BY DEF Created, Doc, Errors, Status
<1> QED
  BY <1>1, NoNil DEF Created

\* What FlagError saves.
flagged(c, s) == [c EXCEPT !.error = <<s, "local">>]

\* The documents that handlers save.
LEMMA Flagged ==
    ASSUME NEW c \in Doc, NEW s \in Sends
    PROVE  /\ setMetadataStatusToSent(c) \in Doc
           /\ setMetadataStatusToSent(c).published = Nil /\ setMetadataStatusToSent(c).error = Nil
           /\ setMetadataStatusToSent(c).status = "sent"
           /\ setPublishedFlag(c, s) \in Doc
           /\ setPublishedFlag(c, s).published = s /\ setPublishedFlag(c, s).error = c.error
           /\ setFlagIntegrationKO(c, s) \in Doc
           /\ setFlagIntegrationKO(c, s).published = c.published
           /\ setFlagIntegrationKO(c, s).error = <<s, "portal">>
           /\ flagged(c, s) \in Doc
           /\ flagged(c, s).published = c.published
           /\ flagged(c, s).error = <<s, "local">>
<1>1. <<s, "portal">> \in Errors /\ <<s, "local">> \in Errors /\ Nil \in Errors
  BY DEF Errors
<1>2. /\ setMetadataStatusToSent(c) \in Doc
      /\ setMetadataStatusToSent(c).published = Nil /\ setMetadataStatusToSent(c).error = Nil
      /\ setMetadataStatusToSent(c).status = "sent"
  BY <1>1 DEF setMetadataStatusToSent, Doc, Status
<1>3. /\ setPublishedFlag(c, s) \in Doc
      /\ setPublishedFlag(c, s).published = s /\ setPublishedFlag(c, s).error = c.error
  BY DEF setPublishedFlag, Doc
<1>4. /\ setFlagIntegrationKO(c, s) \in Doc
      /\ setFlagIntegrationKO(c, s).published = c.published
      /\ setFlagIntegrationKO(c, s).error = <<s, "portal">>
  BY <1>1 DEF setFlagIntegrationKO, Doc
<1>5. /\ flagged(c, s) \in Doc
      /\ flagged(c, s).published = c.published
      /\ flagged(c, s).error = <<s, "local">>
  BY <1>1 DEF flagged, Doc
<1> QED
  BY <1>2, <1>3, <1>4, <1>5

\* What a save leaves, field by field.
LEMMA SavedIs ==
    ASSUME NEW d \in Doc, NEW c \in Doc, NEW n \in Doc
    PROVE  LET r       == Saved(d, c, n)
               status  == reckonMetadataStatus(n)
               changed == n # c \/ status # c.status
           IN  /\ r \in Doc
               /\ r.v = (IF changed THEN d.v + 1 ELSE d.v)
               /\ r.published = (IF n.published # c.published THEN n.published ELSE d.published)
               /\ r.error = (IF n.error # c.error THEN n.error ELSE d.error)
               /\ r.status = (IF status # c.status THEN status ELSE d.status)
<1> DEFINE status == reckonMetadataStatus(n)
           v == IF n # c \/ status # c.status THEN d.v + 1 ELSE d.v
           date == IF n # c THEN d.date + 1 ELSE d.date
           published == IF n.published # c.published THEN n.published ELSE d.published
           error == IF n.error # c.error THEN n.error ELSE d.error
           shown == IF status # c.status THEN status ELSE d.status
<1>1. status \in Status
  BY DEF reckonMetadataStatus, Status
<1>2. v \in Nat /\ date \in Nat
  BY DocFields
<1>3. published \in Sends \cup {Nil, "never"}
  BY DocFields
<1>4. error \in Errors
  BY DocFields
<1>5. shown \in Status
  BY DocFields, <1>1
<1>6. Saved(d, c, n) = [d EXCEPT !.v = v, !.date = date, !.published = published,
                                   !.error = error, !.status = shown]
  BY DEF Saved
<1> HIDE DEF v, date, published, error, shown, status
<1>7. Saved(d, c, n) \in Doc
  BY <1>2, <1>3, <1>4, <1>5, <1>6 DEF Doc
<1>8. /\ Saved(d, c, n).v = v /\ Saved(d, c, n).published = published
      /\ Saved(d, c, n).error = error /\ Saved(d, c, n).status = shown
  BY <1>6 DEF Doc
<1> QED
  BY <1>7, <1>8 DEF v, published, error, shown, status

LEMMA AdvancesItself == ASSUME NEW d \in Doc PROVE Advances(d, d)
BY DocFields DEF Advances

LEMMA AdvancesFurther ==
    ASSUME NEW c \in Doc, NEW d \in Doc, NEW e \in Doc, Advances(c, d), Advances(d, e)
    PROVE  Advances(c, e)
<1>1. c.v \in Nat /\ d.v \in Nat /\ e.v \in Nat
  BY DocFields
<1> QED
  BY <1>1 DEF Advances

\* A save that no other one forestalled publishes what it was to; the error and the
\* status that it leaves are those that it was to where no form is stale.
LEMMA SaveAdvances ==
    ASSUME NEW d \in Doc, NEW c \in Doc, NEW n \in Doc, Advances(c, d), upToDate(d, c)
    PROVE  LET r == Saved(d, c, n)
           IN  /\ r \in Doc /\ Advances(d, r)
               /\ Held(c, n) \in Doc /\ Advances(Held(c, n), r)
               /\ r.published = n.published
               /\ d.v \in Nat /\ r.v \in {d.v, d.v + 1}
               /\ n # c => r.v = d.v + 1
               /\ "staleForm" \notin Faults =>
                     /\ r.error = n.error
                     /\ r.status = reckonMetadataStatus(n)
                     /\ r.status = reckonMetadataStatus(r)
<1>1. d.v = c.v /\ d.v \in Nat /\ c.published = d.published
  BY DocFields DEF upToDate, Advances
<1>2. ASSUME "staleForm" \notin Faults PROVE c.error = d.error /\ c.status = d.status
  BY <1>1, <1>2 DEF Advances
<1> DEFINE r == Saved(d, c, n)
           h == Saved(c, c, n)
           status == reckonMetadataStatus(n)
<1>3. /\ r \in Doc
      /\ r.v = (IF n # c \/ status # c.status THEN d.v + 1 ELSE d.v)
      /\ r.published = (IF n.published # c.published THEN n.published ELSE d.published)
      /\ r.error = (IF n.error # c.error THEN n.error ELSE d.error)
      /\ r.status = (IF status # c.status THEN status ELSE d.status)
  BY SavedIs
<1>4. /\ h \in Doc
      /\ h.v = (IF n # c \/ status # c.status THEN c.v + 1 ELSE c.v)
      /\ h.published = (IF n.published # c.published THEN n.published ELSE c.published)
      /\ h.error = (IF n.error # c.error THEN n.error ELSE c.error)
      /\ h.status = (IF status # c.status THEN status ELSE c.status)
  BY SavedIs
<1>5. Held(c, n) = h
  BY DEF Held
<1>6. ASSUME "staleForm" \notin Faults
      PROVE  r.error = n.error /\ r.status = status /\ r.status = reckonMetadataStatus(r)
  <2>1. r.error = n.error /\ r.status = status /\ r.published = n.published
    BY <1>1, <1>2, <1>3, <1>6
  <2> QED
    BY <2>1 DEF reckonMetadataStatus
<1> HIDE DEF r, h, status
<1>7. Advances(d, r)
  BY <1>1, <1>3 DEF Advances
<1>8. Advances(h, r)
  BY <1>1, <1>2, <1>3, <1>4 DEF Advances
<1>9. r.published = n.published /\ r.v \in {d.v, d.v + 1} /\ (n # c => r.v = d.v + 1)
  BY <1>1, <1>3
<1> QED
  BY <1>1, <1>3, <1>4, <1>5, <1>6, <1>7, <1>8, <1>9 DEF r, status

\* A form leaves the version and the publication, and, unless it is stale, the error
\* and the status.
LEMMA FormAdvances ==
    ASSUME NEW s \in Sends, NEW d \in Doc, NEW form \in Doc,
           "staleForm" \in Faults \/ ~isStale(d, form)
    PROVE  LET r == Overwritten(s, d, form)
           IN  /\ r \in Doc /\ Advances(d, r)
               /\ r.v = d.v /\ r.published = d.published
               /\ "staleForm" \notin Faults => r.error = d.error /\ r.status = d.status
<1> DEFINE error == IF form.published = "never" THEN d.error ELSE form.error
<1>1. Overwritten(s, d, form) = [d EXCEPT !.rev = s, !.date = d.date + 1, !.error = error,
                                         !.status = form.status]
  BY DEF Overwritten
<1>2. error \in Errors /\ ("staleForm" \notin Faults => error = d.error /\ form.status = d.status)
  BY DocFields DEF isStale
<1>3. d.date + 1 \in Nat
  BY DocFields
<1> HIDE DEF error
<1>4. Overwritten(s, d, form) \in Doc
  BY <1>1, <1>2, <1>3 DEF Doc
<1>5. /\ Overwritten(s, d, form).v = d.v /\ Overwritten(s, d, form).published = d.published
      /\ Overwritten(s, d, form).error = error /\ Overwritten(s, d, form).status = form.status
  BY <1>1 DEF Doc
<1> QED
  BY <1>2, <1>4, <1>5, DocFields DEF Advances

(***************************************************************************)
(* Steps.                                                                  *)
(***************************************************************************)

\* A send moves on, with what it held, what it reads or nothing.
Moves(s) ==
    /\ UNCHANGED <<doc, meta, asked, hpc, seen, mark>>
    /\ pc[s] # "idle" /\ pc'[s] \in PC \ {"idle"} /\ pc' = [pc EXCEPT ![s] = pc'[s]]
    /\ copy'[s] \in {copy[s], Nil, doc[meta[s]]} /\ copy' = [copy EXCEPT ![s] = copy'[s]]
    /\ pc'[s] \in Holding => copy'[s] # Nil
    /\ pc'[s] \in Before => pc[s] \in Before

\* A handler saves the copy c of the metadata that s is about, as n.
Saving(s, c, n) ==
    /\ c \in Doc /\ n \in Doc /\ Advances(c, doc[meta[s]]) /\ upToDate(doc[meta[s]], c)
    /\ doc' = [doc EXCEPT ![meta[s]] = Saved(@, c, n)]
    /\ UNCHANGED <<meta, asked>>

LEMMA MovesOn ==
    ASSUME TypedOK, PlacesOK, NEW s \in Sends,
           ReadState(s) \/ EditFails(s) \/ ReadMetadata(s) \/ Enlist(s) \/ MarkFails(s)
           \/ TakeEntry(s) \/ Get(s) \/ NoToken(s) \/ Drop(s) \/ Accepted(s)
           \/ ReadForFlag(s) \/ FlagFails(s) \/ PortalRefuses(s)
    PROVE  Moves(s)
<1>1. /\ pc[s] # "idle" => meta[s] \in Metas /\ doc[meta[s]] # Nil
      /\ pc[s] \in Holding => copy[s] # Nil
  BY DEF PlacesOK, PlaceOK
<1>2. pc \in [Sends -> PC] /\ copy \in [Sends -> Doc \cup {Nil}]
  BY DEF TypedOK
<1>3. CASE ReadState(s)
  BY <1>1, <1>2, <1>3 DEF Moves, ReadState, goto, report, PC, Holding, Before
<1>4. CASE EditFails(s)
  BY <1>1, <1>2, <1>4 DEF Moves, EditFails, VersionError, goto, end, report, PC, Holding, Before
<1>5. CASE ReadMetadata(s)
  BY <1>1, <1>2, <1>5 DEF Moves, ReadMetadata, goto, report, PC, Before
<1>6. CASE Enlist(s)
  BY <1>1, <1>2, <1>6 DEF Moves, Enlist, goto, end, report, PC, Holding, Before
<1>7. CASE MarkFails(s)
  BY <1>1, <1>2, <1>7 DEF Moves, MarkFails, VersionError, goto, end, report, PC, Holding, Before
<1>8. CASE TakeEntry(s)
  BY <1>1, <1>2, <1>8 DEF Moves, TakeEntry, goto, report, PC, Holding, Before
<1>9. CASE Get(s)
  BY <1>1, <1>2, <1>9 DEF Moves, Get, goto, report, PC, Holding, Before
<1>10. CASE NoToken(s)
  BY <1>1, <1>2, <1>10 DEF Moves, NoToken, goto, report, PC, Holding, Before
<1>11. CASE Drop(s)
  BY <1>1, <1>2, <1>11 DEF Moves, Drop, goto, end, report, PC, Holding, Before
<1>12. CASE Accepted(s)
  BY <1>1, <1>2, <1>12 DEF Moves, Accepted, goto, end, report, PC, Holding, Before
<1>13. CASE ReadForFlag(s)
  BY <1>1, <1>2, <1>13 DEF Moves, ReadForFlag, goto, report, PC, Before
<1>14. CASE FlagFails(s)
  BY <1>1, <1>2, <1>14 DEF Moves, FlagFails, VersionError, goto, end, report, PC, Holding, Before
<1>15. CASE PortalRefuses(s)
  BY <1>1, <1>2, <1>15 DEF Moves, PortalRefuses, goto, report, PC, Holding, Before
<1> QED
  BY <1>3, <1>4, <1>5, <1>6, <1>7, <1>8, <1>9, <1>10, <1>11, <1>12, <1>13, <1>14, <1>15

\* What a save does to the metadata, and to no other one.
LEMMA SavingDoes ==
    ASSUME TypedOK, NEW s \in Sends, meta[s] \in Metas, doc[meta[s]] # Nil,
           NEW c, NEW n, Saving(s, c, n)
    PROVE  LET m == meta[s]
               r == doc'[m]
           IN  /\ r \in Doc /\ r # Nil /\ doc[m] \in Doc /\ Advances(doc[m], r)
               /\ Held(c, n) \in Doc /\ Advances(Held(c, n), r)
               /\ r.published = n.published
               /\ doc[m].v \in Nat /\ r.v \in {doc[m].v, doc[m].v + 1}
               /\ n # c => r.v = doc[m].v + 1
               /\ doc[m].v = c.v /\ doc[m].published = c.published
               /\ "staleForm" \notin Faults =>
                     /\ r.error = n.error
                     /\ c.error = doc[m].error
                     /\ r.status = reckonMetadataStatus(r)
               /\ \A k \in Metas : k # m => doc'[k] = doc[k]
               /\ doc' \in [Metas -> Doc \cup {Nil}]
<1> DEFINE m == meta[s]
           d == doc[m]
           r == Saved(d, c, n)
<1>1. d \in Doc /\ doc \in [Metas -> Doc \cup {Nil}]
  BY DEF TypedOK
<1>2. c \in Doc /\ n \in Doc /\ Advances(c, d) /\ upToDate(d, c)
  BY DEF Saving
<1>3. /\ r \in Doc /\ Advances(d, r)
      /\ Held(c, n) \in Doc /\ Advances(Held(c, n), r)
      /\ r.published = n.published
      /\ d.v \in Nat /\ r.v \in {d.v, d.v + 1}
      /\ n # c => r.v = d.v + 1
      /\ "staleForm" \notin Faults => r.error = n.error /\ r.status = reckonMetadataStatus(r)
  BY <1>1, <1>2, SaveAdvances
<1>4. d.v = c.v /\ d.published = c.published /\ ("staleForm" \notin Faults => c.error = d.error)
  BY <1>2 DEF Advances, upToDate
<1>5. doc' = [doc EXCEPT ![m] = r]
  BY DEF Saving
<1> HIDE DEF r
<1>6. doc'[m] = r /\ (\A k \in Metas : k # m => doc'[k] = doc[k])
         /\ doc' \in [Metas -> Doc \cup {Nil}]
  BY <1>1, <1>3, <1>5
<1> QED
  BY <1>1, <1>3, <1>4, <1>6, NoNil

\* The saves.
LEMMA Savings ==
    ASSUME TypedOK, PlacesOK, VersionsOK, NEW s \in Sends
    PROVE  /\ SaveUpdated(s) => Saving(s, copy[s], copy[s])
           /\ Resave(s) => Saving(s, copy[s], copy[s])
           /\ Mark(s) => Saving(s, copy[s], setMetadataStatusToSent(copy[s]))
           /\ FlagError(s) => Saving(s, copy[s], flagged(copy[s], s))
           /\ ReportSaves(s) /\ asked[s] = "OK" => Saving(s, seen[s], setPublishedFlag(seen[s], s))
           /\ ReportSaves(s) /\ asked[s] # "OK" =>
                 Saving(s, seen[s], setFlagIntegrationKO(seen[s], s))
<1>1. ASSUME pc[s] \in Holding PROVE copy[s] \in Doc /\ Advances(copy[s], doc[meta[s]])
  BY <1>1 DEF TypedOK, PlacesOK, PlaceOK, VersionsOK, VersionOK
<1>2. ASSUME hpc[s] = "saving" PROVE seen[s] \in Doc /\ Advances(seen[s], doc[meta[s]])
  BY <1>2 DEF TypedOK, PlacesOK, PlaceOK, VersionsOK, VersionOK
<1>3. ASSUME SaveUpdated(s) \/ Resave(s) PROVE Saving(s, copy[s], copy[s])
  BY <1>1, <1>3 DEF SaveUpdated, Resave, saveMetadata, Saving, Holding
<1>4. ASSUME Mark(s) PROVE Saving(s, copy[s], setMetadataStatusToSent(copy[s]))
  BY <1>1, <1>4, Flagged DEF Mark, saveMetadata, Saving, Holding
<1>5. ASSUME FlagError(s) PROVE Saving(s, copy[s], flagged(copy[s], s))
  <2>1. flagged(copy[s], s) \in Doc /\ copy[s] \in Doc /\ Advances(copy[s], doc[meta[s]])
    BY <1>1, <1>5, Flagged DEF FlagError, Holding
  <2>2. saveMetadata(meta[s], copy[s], flagged(copy[s], s)) /\ UNCHANGED <<meta, asked>>
    BY <1>5 DEF FlagError, flagged
  <2> QED
    BY <2>1, <2>2 DEF saveMetadata, Saving
<1>6. ASSUME ReportSaves(s), asked[s] = "OK" PROVE Saving(s, seen[s], setPublishedFlag(seen[s], s))
  BY <1>2, <1>6, Flagged DEF ReportSaves, saveMetadata, Saving, local
<1>7. ASSUME ReportSaves(s), asked[s] # "OK"
      PROVE  Saving(s, seen[s], setFlagIntegrationKO(seen[s], s))
  BY <1>2, <1>7, Flagged DEF ReportSaves, saveMetadata, Saving, local
<1> QED
  BY <1>3, <1>4, <1>5, <1>6, <1>7

\* No metadata is deleted, nor does it go back.
Forward ==
    \A m \in Metas : doc[m] # Nil => doc'[m] # Nil /\ Advances(doc[m], doc'[m])

LEMMA ForwardStep ==
    ASSUME TypedOK, PlacesOK, VersionsOK, [Next]_vars
    PROVE  Forward
<1>1. \A m \in Metas : doc[m] # Nil => doc[m] \in Doc /\ Advances(doc[m], doc[m])
  BY AdvancesItself DEF TypedOK
<1>2. ASSUME NEW s \in Sends, NEW m \in Metas, newMetadata(s, m) PROVE Forward
  BY <1>1, <1>2 DEF Forward, newMetadata
<1>3. ASSUME NEW s \in Sends, NEW m \in Metas, Open(s, m) PROVE Forward
  BY <1>1, <1>3 DEF Forward, Open
<1>4. ASSUME NEW s \in Sends, NEW m \in Metas, sendMany(s, m) PROVE Forward
  BY <1>1, <1>4 DEF Forward, sendMany
<1>5. ASSUME NEW s \in Sends, SubmitForm(s) PROVE Forward
  <2>1. meta[s] \in Metas /\ doc[meta[s]] \in Doc /\ copy[s] \in Doc
    BY <1>5 DEF SubmitForm, PlacesOK, PlaceOK, TypedOK, Holding
  <2>2. doc' = [doc EXCEPT ![meta[s]] = Overwritten(s, doc[meta[s]], copy[s])]
    BY <1>5 DEF SubmitForm
  <2>3. Overwritten(s, doc[meta[s]], copy[s]) \in Doc
    BY <1>5, <2>1, FormAdvances DEF SubmitForm
  <2>4. Advances(doc[meta[s]], Overwritten(s, doc[meta[s]], copy[s]))
    BY <1>5, <2>1, FormAdvances DEF SubmitForm
  <2> QED
    BY <1>1, <2>1, <2>2, <2>3, <2>4, NoNil DEF Forward, TypedOK
<1>6. ASSUME NEW s \in Sends, SaveUpdated(s) PROVE Forward
  <2>1. meta[s] \in Metas /\ doc[meta[s]] # Nil
    BY <1>6 DEF SaveUpdated, PlacesOK, PlaceOK
  <2>2. doc[meta[s]] \in Doc /\ doc'[meta[s]] # Nil /\ Advances(doc[meta[s]], doc'[meta[s]])
    BY <1>6, <2>1, Savings, SavingDoes
  <2>3. \A k \in Metas : k # meta[s] => doc'[k] = doc[k]
    BY <1>6, <2>1, Savings, SavingDoes
  <2> QED
    BY <1>1, <2>2, <2>3 DEF Forward
<1>7. ASSUME NEW s \in Sends, Resave(s) PROVE Forward
  <2>1. meta[s] \in Metas /\ doc[meta[s]] # Nil
    BY <1>7 DEF Resave, PlacesOK, PlaceOK
  <2>2. doc[meta[s]] \in Doc /\ doc'[meta[s]] # Nil /\ Advances(doc[meta[s]], doc'[meta[s]])
    BY <1>7, <2>1, Savings, SavingDoes
  <2>3. \A k \in Metas : k # meta[s] => doc'[k] = doc[k]
    BY <1>7, <2>1, Savings, SavingDoes
  <2> QED
    BY <1>1, <2>2, <2>3 DEF Forward
<1>8. ASSUME NEW s \in Sends, Mark(s) PROVE Forward
  <2>1. meta[s] \in Metas /\ doc[meta[s]] # Nil
    BY <1>8 DEF Mark, PlacesOK, PlaceOK
  <2>2. doc[meta[s]] \in Doc /\ doc'[meta[s]] # Nil /\ Advances(doc[meta[s]], doc'[meta[s]])
    BY <1>8, <2>1, Savings, SavingDoes
  <2>3. \A k \in Metas : k # meta[s] => doc'[k] = doc[k]
    BY <1>8, <2>1, Savings, SavingDoes
  <2> QED
    BY <1>1, <2>2, <2>3 DEF Forward
<1>9. ASSUME NEW s \in Sends, FlagError(s) PROVE Forward
  <2>1. meta[s] \in Metas /\ doc[meta[s]] # Nil
    BY <1>9 DEF FlagError, PlacesOK, PlaceOK
  <2>2. doc[meta[s]] \in Doc /\ doc'[meta[s]] # Nil /\ Advances(doc[meta[s]], doc'[meta[s]])
    BY <1>9, <2>1, Savings, SavingDoes
  <2>3. \A k \in Metas : k # meta[s] => doc'[k] = doc[k]
    BY <1>9, <2>1, Savings, SavingDoes
  <2> QED
    BY <1>1, <2>2, <2>3 DEF Forward
<1>10. ASSUME NEW s \in Sends, PortalAccepts(s) PROVE Forward
  BY <1>1, <1>10 DEF Forward, PortalAccepts
<1>11. ASSUME NEW s \in Sends, Integrate(s) PROVE Forward
  BY <1>1, <1>11 DEF Forward, Integrate
<1>12. ASSUME NEW s \in Sends, ReportArrives(s) PROVE Forward
  BY <1>1, <1>12 DEF Forward, ReportArrives
<1>13. ASSUME NEW s \in Sends, ReportReads(s) PROVE Forward
  BY <1>1, <1>13 DEF Forward, ReportReads
<1>14. ASSUME NEW s \in Sends, ReportSaves(s) PROVE Forward
  <2>1. meta[s] \in Metas /\ doc[meta[s]] # Nil
    BY <1>14 DEF ReportSaves, PlacesOK, PlaceOK
  <2>2. doc[meta[s]] \in Doc /\ doc'[meta[s]] # Nil /\ Advances(doc[meta[s]], doc'[meta[s]])
    BY <1>14, <2>1, Savings, SavingDoes
  <2>3. \A k \in Metas : k # meta[s] => doc'[k] = doc[k]
    BY <1>14, <2>1, Savings, SavingDoes
  <2> QED
    BY <1>1, <2>2, <2>3 DEF Forward
<1>15. ASSUME NEW s \in Sends, ReportFails(s) PROVE Forward
  BY <1>1, <1>15 DEF Forward, ReportFails
<1>16. ASSUME NEW s \in Sends, ReportRetried(s) PROVE Forward
  BY <1>1, <1>16 DEF Forward, ReportRetried
<1>17. ASSUME NEW s \in Sends, Moves(s) PROVE Forward
  BY <1>1, <1>17 DEF Forward, Moves
<1>18. ASSUME Tick \/ UNCHANGED vars PROVE Forward
  BY <1>1, <1>18 DEF Forward, Tick, vars
<1> QED
  BY <1>2, <1>3, <1>4, <1>5, <1>6, <1>7, <1>8, <1>9, <1>10, <1>11, <1>12, <1>13, <1>14, <1>15,
     <1>16, <1>17, <1>18,
     MovesOn DEF Next, Editor, Sending, Portal, Reporting

\* What no step but a save needs but its definition.
LEMMA TypedStep ==
    ASSUME TypedOK, PlacesOK, VersionsOK, [Next]_vars
    PROVE  TypedOK'
<1>1. clock \in 0 .. MaxClock /\ MaxClock \in Nat
  BY ConstantsAssumption DEF TypedOK
<1>2. \A s \in Sends : Created(s) \in Doc
  BY CreatedIs
<1> USE DEF TypedOK, goto, end, local, report
<1>3. ASSUME NEW s \in Sends, NEW m \in Metas, newMetadata(s, m) PROVE TypedOK'
  BY <1>2, <1>3 DEF newMetadata, MayStart, PC
<1>4. ASSUME NEW s \in Sends, NEW m \in Metas, Open(s, m) PROVE TypedOK'
  BY <1>2, <1>4 DEF Open, MayStart, PC
<1>5. ASSUME NEW s \in Sends, NEW m \in Metas, sendMany(s, m) PROVE TypedOK'
  BY <1>2, <1>5 DEF sendMany, MayStart, PC
<1>6. ASSUME NEW s \in Sends, SubmitForm(s) PROVE TypedOK'
  <2>1. meta[s] \in Metas /\ doc[meta[s]] \in Doc /\ copy[s] \in Doc
    BY <1>6 DEF SubmitForm, PlacesOK, PlaceOK, Holding
  <2>2. Overwritten(s, doc[meta[s]], copy[s]) \in Doc
    BY <1>6, <2>1, FormAdvances DEF SubmitForm
  <2> QED
    BY <1>6, <2>1, <2>2 DEF SubmitForm, PC
<1>7. ASSUME NEW s \in Sends, SaveUpdated(s) PROVE TypedOK'
  <2>1. meta[s] \in Metas /\ doc[meta[s]] # Nil
    BY <1>7 DEF SaveUpdated, PlacesOK, PlaceOK
  <2>2. doc' \in [Metas -> Doc \cup {Nil}] /\ doc'[meta[s]] \in Doc
    BY <1>7, <2>1, Savings, SavingDoes
  <2>3. Held(copy[s], copy[s]) \in Doc
    BY <1>7, <2>1, Savings, SavingDoes
  <2> QED
    BY <1>7, <2>2, <2>3 DEF SaveUpdated, PC
<1>8. ASSUME NEW s \in Sends, Resave(s) PROVE TypedOK'
  <2>1. meta[s] \in Metas /\ doc[meta[s]] # Nil
    BY <1>8 DEF Resave, PlacesOK, PlaceOK
  <2>2. doc' \in [Metas -> Doc \cup {Nil}] /\ doc'[meta[s]] \in Doc
    BY <1>8, <2>1, Savings, SavingDoes
  <2> QED
    BY <1>8, <2>2 DEF Resave, PC
<1>9. ASSUME NEW s \in Sends, Mark(s) PROVE TypedOK'
  <2>1. meta[s] \in Metas /\ doc[meta[s]] # Nil
    BY <1>9 DEF Mark, PlacesOK, PlaceOK
  <2>2. doc' \in [Metas -> Doc \cup {Nil}] /\ doc'[meta[s]] \in Doc
    BY <1>9, <2>1, Savings, SavingDoes
  <2>3. Held(copy[s], setMetadataStatusToSent(copy[s])) \in Doc /\ doc'[meta[s]].v \in Nat
    BY <1>9, <2>1, <2>2, DocFields, Savings, SavingDoes
  <2> QED
    BY <1>9, <2>2, <2>3 DEF Mark, PC
<1>10. ASSUME NEW s \in Sends, FlagError(s) PROVE TypedOK'
  <2>1. meta[s] \in Metas /\ doc[meta[s]] # Nil
    BY <1>10 DEF FlagError, PlacesOK, PlaceOK
  <2>2. doc' \in [Metas -> Doc \cup {Nil}] /\ doc'[meta[s]] \in Doc
    BY <1>10, <2>1, Savings, SavingDoes
  <2> QED
    BY <1>10, <2>2 DEF FlagError, PC
<1>11. ASSUME NEW s \in Sends, ReportSaves(s) PROVE TypedOK'
  <2>1. meta[s] \in Metas /\ doc[meta[s]] # Nil
    BY <1>11 DEF ReportSaves, PlacesOK, PlaceOK
  <2>2. doc' \in [Metas -> Doc \cup {Nil}] /\ doc'[meta[s]] \in Doc
    BY <1>11, <2>1, Savings, SavingDoes
  <2> QED
    BY <1>11, <2>2 DEF ReportSaves, HPC
<1>12. ASSUME NEW s \in Sends, EditFails(s) \/ MarkFails(s) \/ FlagFails(s) PROVE TypedOK'
  BY <1>12 DEF EditFails, MarkFails, FlagFails, VersionError, PC
<1>13. ASSUME NEW s \in Sends, ReadState(s) PROVE TypedOK'
  BY <1>13 DEF ReadState, PC
<1>14. ASSUME NEW s \in Sends, ReadMetadata(s) PROVE TypedOK'
  <2>1. meta[s] \in Metas
    BY <1>14 DEF ReadMetadata, PlacesOK, PlaceOK
  <2> QED
    BY <1>14, <2>1 DEF ReadMetadata, PC
<1>15. ASSUME NEW s \in Sends, Enlist(s) PROVE TypedOK'
  <2>1. copy[s] \in Doc
    BY <1>15 DEF Enlist, PlacesOK, PlaceOK, Holding
  <2>2. [rev |-> copy[s].rev, date |-> copy[s].date] \in Json
    BY <2>1, DocFields DEF Json
  <2> QED
    BY <1>15, <2>2 DEF Enlist, enter, PC
<1>16. ASSUME NEW s \in Sends, TakeEntry(s) PROVE TypedOK'
  BY <1>16 DEF TakeEntry, PC
<1>17. ASSUME NEW s \in Sends, Get(s) PROVE TypedOK'
  BY <1>17 DEF Get, PC
<1>18. ASSUME NEW s \in Sends, NoToken(s) PROVE TypedOK'
  BY <1>18 DEF NoToken, PC
<1>19. ASSUME NEW s \in Sends, Drop(s) PROVE TypedOK'
  BY <1>19 DEF Drop, PC
<1>20. ASSUME NEW s \in Sends, Accepted(s) PROVE TypedOK'
  BY <1>20 DEF Accepted, PC
<1>21. ASSUME NEW s \in Sends, ReadForFlag(s) PROVE TypedOK'
  <2>1. meta[s] \in Metas
    BY <1>21 DEF ReadForFlag, PlacesOK, PlaceOK
  <2> QED
    BY <1>21, <2>1 DEF ReadForFlag, PC
<1>22. ASSUME NEW s \in Sends, PortalRefuses(s) PROVE TypedOK'
  BY <1>22 DEF PortalRefuses, PC
<1>23. ASSUME NEW s \in Sends, PortalAccepts(s) PROVE TypedOK'
  BY <1>23 DEF PortalAccepts, PC
<1>24. ASSUME NEW s \in Sends, Integrate(s) PROVE TypedOK'
  <2>1. meta[s] \in Metas \/ portal' = [portal EXCEPT ![meta[s]] = json[s]] \/ portal' = portal
    BY <1>24 DEF Integrate
  <2> QED
    BY <1>24, <2>1 DEF Integrate
<1>25. ASSUME NEW s \in Sends, ReportArrives(s) PROVE TypedOK'
  BY <1>25 DEF ReportArrives, HPC
<1>26. ASSUME NEW s \in Sends, ReportReads(s) PROVE TypedOK'
  <2>1. meta[s] \in Metas
    BY <1>26 DEF ReportReads, PlacesOK, PlaceOK
  <2> QED
    BY <1>26, <2>1 DEF ReportReads, HPC
<1>27. ASSUME NEW s \in Sends, ReportFails(s) PROVE TypedOK'
  BY <1>27 DEF ReportFails, HPC
<1>28. ASSUME NEW s \in Sends, ReportRetried(s) PROVE TypedOK'
  BY <1>28 DEF ReportRetried, HPC
<1>29. ASSUME Tick PROVE TypedOK'
  BY <1>1, <1>29 DEF Tick
<1>30. ASSUME UNCHANGED vars PROVE TypedOK'
  BY <1>30 DEF vars
<1> QED
  BY <1>3, <1>4, <1>5, <1>6, <1>7, <1>8, <1>9, <1>10, <1>11, <1>12, <1>13, <1>14, <1>15, <1>16,
     <1>17, <1>18, <1>19, <1>20, <1>21, <1>22, <1>23, <1>24,
     <1>25, <1>26, <1>27, <1>28, <1>29, <1>30
  DEF Next, Editor, Sending, Portal, Reporting

\* What is held is there.
LEMMA PlacesStep ==
    ASSUME TypedOK, PlacesOK, VersionsOK, Forward, [Next]_vars
    PROVE  PlacesOK'
<1>1. \A m \in Metas : doc[m] # Nil => doc'[m] # Nil
  BY DEF Forward
<1>2. ASSUME NEW s \in Sends, NEW m \in Metas, newMetadata(s, m) PROVE PlacesOK'
  <2>1. copy'[s] = Created(s) /\ Created(s) # Nil
    BY <1>2, CreatedIs DEF newMetadata, TypedOK
  <2> QED
    BY <1>1, <1>2, <2>1 DEF newMetadata, MayStart, PlacesOK, PlaceOK, TypedOK, goto, report
<1>3. ASSUME NEW s \in Sends, NEW m \in Metas, Open(s, m) PROVE PlacesOK'
  <2>1. copy'[s] = doc[m] /\ doc[m] # Nil
    BY <1>3 DEF Open, TypedOK
  <2> QED
    BY <1>1, <1>3, <2>1 DEF Open, MayStart, PlacesOK, PlaceOK, TypedOK, goto, report
<1>4. ASSUME NEW s \in Sends, NEW m \in Metas, sendMany(s, m) PROVE PlacesOK'
  BY <1>1, <1>4 DEF sendMany, MayStart, PlacesOK, PlaceOK, TypedOK, Holding, goto, report
<1>5. ASSUME NEW s \in Sends, SubmitForm(s) PROVE PlacesOK'
  <2>1. copy'[s] # Nil
    <3>1. copy'[s] = Overwritten(s, doc[meta[s]], copy[s])
      BY <1>5 DEF SubmitForm, TypedOK
    <3>2. meta[s] \in Metas /\ doc[meta[s]] \in Doc /\ copy[s] \in Doc
      BY <1>5 DEF SubmitForm, PlacesOK, PlaceOK, TypedOK, Holding
    <3> QED
      BY <1>5, <3>1, <3>2, FormAdvances, NoNil DEF SubmitForm
  <2> QED
    BY <1>1, <1>5, <2>1 DEF SubmitForm, PlacesOK, PlaceOK, Before, goto, report
<1>6. ASSUME NEW s \in Sends, SaveUpdated(s) PROVE PlacesOK'
  <2>1. meta[s] \in Metas /\ doc[meta[s]] # Nil
    BY <1>6 DEF SaveUpdated, PlacesOK, PlaceOK
  <2>2. Saving(s, copy[s], copy[s])
    BY <1>6, Savings
  <2>3. Held(copy[s], copy[s]) \in Doc
    BY <2>1, <2>2, SavingDoes
  <2>4. Held(copy[s], copy[s]) # Nil
    BY <2>3, NoNil
  <2> QED
    BY <1>1, <1>6, <2>1, <2>4 DEF SaveUpdated, PlacesOK, PlaceOK, TypedOK, Before, goto, report
<1>7. ASSUME NEW s \in Sends, Resave(s) PROVE PlacesOK'
  <2>1. meta[s] \in Metas /\ doc[meta[s]] # Nil
    BY <1>7 DEF Resave, PlacesOK, PlaceOK
  <2> QED
    BY <1>1, <1>7, <2>1 DEF Resave, PlacesOK, PlaceOK, Before, Holding, goto, report
<1>8. ASSUME NEW s \in Sends, Mark(s) PROVE PlacesOK'
  <2>1. meta[s] \in Metas /\ doc[meta[s]] # Nil
    BY <1>8 DEF Mark, PlacesOK, PlaceOK
  <2>2. Saving(s, copy[s], setMetadataStatusToSent(copy[s]))
    BY <1>8, Savings
  <2>3. Held(copy[s], setMetadataStatusToSent(copy[s])) \in Doc
    BY <2>1, <2>2, SavingDoes
  <2>4. Held(copy[s], setMetadataStatusToSent(copy[s])) # Nil
    BY <2>3, NoNil
  <2> QED
    BY <1>1, <1>8, <2>1, <2>4 DEF Mark, PlacesOK, PlaceOK, TypedOK, Before, goto, report
<1>9. ASSUME NEW s \in Sends, FlagError(s) PROVE PlacesOK'
  <2>1. meta[s] \in Metas /\ doc[meta[s]] # Nil
    BY <1>9 DEF FlagError, PlacesOK, PlaceOK
  <2> QED
    BY <1>1, <1>9, <2>1
       DEF FlagError, PlacesOK, PlaceOK, TypedOK, Before, Holding, goto, end, report
<1>10. ASSUME NEW s \in Sends, PortalAccepts(s) PROVE PlacesOK'
  BY <1>1, <1>10 DEF PortalAccepts, PlacesOK, PlaceOK, TypedOK, Before, Holding, goto, report
<1>11. ASSUME NEW s \in Sends, Integrate(s) PROVE PlacesOK'
  BY <1>1, <1>11 DEF Integrate, PlacesOK, PlaceOK, TypedOK, local, report
<1>12. ASSUME NEW s \in Sends, ReportArrives(s) PROVE PlacesOK'
  BY <1>1, <1>12 DEF ReportArrives, PlacesOK, PlaceOK, local
<1>13. ASSUME NEW s \in Sends, ReportReads(s) PROVE PlacesOK'
  BY <1>1, <1>13 DEF ReportReads, PlacesOK, PlaceOK, TypedOK, local, isPublished
<1>14. ASSUME NEW s \in Sends, ReportSaves(s) PROVE PlacesOK'
  <2>1. meta[s] \in Metas /\ doc[meta[s]] # Nil
    BY <1>14 DEF ReportSaves, PlacesOK, PlaceOK
  <2> QED
    BY <1>1, <1>14, <2>1 DEF ReportSaves, PlacesOK, PlaceOK, local
<1>15. ASSUME NEW s \in Sends, ReportFails(s) PROVE PlacesOK'
  BY <1>1, <1>15 DEF ReportFails, PlacesOK, PlaceOK, local
<1>16. ASSUME NEW s \in Sends, ReportRetried(s) PROVE PlacesOK'
  BY <1>1, <1>16 DEF ReportRetried, PlacesOK, PlaceOK, local
<1>17. ASSUME NEW s \in Sends, Moves(s) PROVE PlacesOK'
  BY <1>1, <1>17 DEF Moves, PlacesOK, PlaceOK, TypedOK
<1>18. ASSUME Tick \/ UNCHANGED vars PROVE PlacesOK'
  BY <1>18 DEF PlacesOK, PlaceOK, Tick, vars, local, report
<1> QED
  BY <1>2, <1>3, <1>4, <1>5, <1>6, <1>7, <1>8, <1>9, <1>10, <1>11, <1>12, <1>13, <1>14, <1>15,
     <1>16, <1>17, <1>18,
     MovesOn DEF Next, Editor, Sending, Portal, Reporting

\* What a step leaves to a send and to the handler of its report, or gives them.
Keeps(t) ==
    /\ meta'[t] = meta[t]
    /\ IF pc[t] = "idle" THEN pc'[t] = "idle" ELSE pc'[t] # "idle"
    /\ \/ copy'[t] \in {copy[t], Nil, doc[meta[t]]}
       \/ pc[t] # "idle" /\ Advances(copy'[t], doc'[meta[t]])
    /\ \/ seen'[t] = seen[t]
       \/ pc[t] # "idle" /\ seen'[t] = doc[meta[t]]
    /\ \/ mark'[t] = mark[t]
       \/ mark'[t] = doc'[meta[t]].v

LEMMA VersionKept ==
    ASSUME TypedOK, TypedOK', PlacesOK, VersionsOK, Forward, NEW t \in Sends, Keeps(t)
    PROVE  VersionOK(t)'
<1>1. CASE pc[t] = "idle"
  BY <1>1 DEF Keeps, VersionsOK, VersionOK
<1>2. CASE pc[t] # "idle"
  <2> DEFINE m == meta[t]
             d == doc[m]
             e == doc'[m]
  <2>1. m \in Metas /\ d # Nil
    BY <1>2 DEF PlacesOK, PlaceOK
  <2>2. d \in Doc /\ e \in Doc /\ Advances(d, e) /\ meta'[t] = m
    BY <2>1 DEF TypedOK, Forward, Keeps
  <2>3. \A c \in Doc : Advances(c, d) => Advances(c, e)
    BY <2>2, AdvancesFurther
  <2>4. copy[t] # Nil => copy[t] \in Doc /\ Advances(copy[t], d)
    BY <1>2 DEF TypedOK, VersionsOK, VersionOK
  <2>5. seen[t] # Nil => seen[t] \in Doc /\ Advances(seen[t], d)
    BY <1>2 DEF TypedOK, VersionsOK, VersionOK
  <2>6. mark[t] <= d.v /\ mark[t] \in Nat /\ d.v \in Nat /\ e.v \in Nat /\ d.v <= e.v
    BY <1>2, <2>2, DocFields DEF TypedOK, VersionsOK, VersionOK, Advances
  <2> HIDE DEF d, e, m
  <2>7. copy'[t] # Nil => Advances(copy'[t], e)
    BY <1>2, <2>2, <2>3, <2>4 DEF Keeps, d, e
  <2>8. seen'[t] # Nil => Advances(seen'[t], e)
    BY <1>2, <2>2, <2>3, <2>5 DEF Keeps, d
  <2>9. mark'[t] <= e.v
    BY <1>2, <2>6 DEF Keeps, e, m
  <2>10. pc'[t] # "idle"
    BY <1>2 DEF Keeps
  <2> QED
    BY <2>2, <2>7, <2>8, <2>9, <2>10 DEF VersionOK, e
<1> QED
  BY <1>1, <1>2

\* What is held stays a document that the database has or had.
LEMMA VersionsStep ==
    ASSUME TypedOK, TypedOK', PlacesOK, VersionsOK, Forward, [Next]_vars
    PROVE  VersionsOK'
<1>1. ASSUME NEW s \in Sends, NEW m \in Metas, newMetadata(s, m) PROVE VersionsOK'
  <2>1. \A t \in Sends : t # s => Keeps(t)
    BY <1>1 DEF newMetadata, MayStart, Keeps, goto, report
  <2>2. meta'[s] = m /\ pc'[s] # "idle" /\ pc[s] = "idle" /\ mark'[s] = 0 /\ seen'[s] = Nil
           /\ doc'[m] # Nil
    BY <1>1, CreatedIs
       DEF newMetadata, MayStart, TypedOK, PlacesOK, PlaceOK, VersionsOK, VersionOK, goto, report
  <2>3. doc'[m] \in Doc /\ 0 <= doc'[m].v
    BY <2>2, DocFields DEF TypedOK
  <2>4. copy'[s] = doc'[m]
    BY <1>1 DEF newMetadata, TypedOK
  <2>5. VersionOK(s)'
    BY <2>2, <2>3, <2>4, AdvancesItself DEF VersionOK
  <2> QED
    BY <2>1, <2>5, VersionKept DEF VersionsOK
<1>2. ASSUME NEW s \in Sends, NEW m \in Metas, Open(s, m) PROVE VersionsOK'
  <2>1. \A t \in Sends : t # s => Keeps(t)
    BY <1>2 DEF Open, MayStart, Keeps, goto, report
  <2>2. meta'[s] = m /\ pc'[s] # "idle" /\ pc[s] = "idle" /\ mark'[s] = 0 /\ seen'[s] = Nil
           /\ doc'[m] # Nil
    BY <1>2 DEF Open, MayStart, TypedOK, PlacesOK, PlaceOK, VersionsOK, VersionOK, goto, report
  <2>3. doc'[m] \in Doc /\ 0 <= doc'[m].v
    BY <2>2, DocFields DEF TypedOK
  <2>4. copy'[s] = doc'[m]
    BY <1>2 DEF Open, TypedOK
  <2>5. VersionOK(s)'
    BY <2>2, <2>3, <2>4, AdvancesItself DEF VersionOK
  <2> QED
    BY <2>1, <2>5, VersionKept DEF VersionsOK
<1>3. ASSUME NEW s \in Sends, NEW m \in Metas, sendMany(s, m) PROVE VersionsOK'
  <2>1. \A t \in Sends : t # s => Keeps(t)
    BY <1>3 DEF sendMany, MayStart, Keeps, goto, report
  <2>2. meta'[s] = m /\ pc'[s] # "idle" /\ pc[s] = "idle" /\ mark'[s] = 0 /\ seen'[s] = Nil
           /\ doc'[m] # Nil
        /\ copy'[s] = copy[s]
    BY <1>3 DEF sendMany, MayStart, TypedOK, PlacesOK, PlaceOK, VersionsOK, VersionOK, goto, report
  <2>3. doc'[m] \in Doc /\ 0 <= doc'[m].v
    BY <2>2, DocFields DEF TypedOK
  <2>4. copy[s] = Nil
    BY <1>3 DEF sendMany, MayStart, PlacesOK, PlaceOK
  <2>5. VersionOK(s)'
    BY <2>2, <2>3, <2>4, AdvancesItself DEF VersionOK
  <2> QED
    BY <2>1, <2>5, VersionKept DEF VersionsOK
<1>4. ASSUME NEW s \in Sends, SubmitForm(s) PROVE VersionsOK'
  <2>1. \A t \in Sends : t # s => Keeps(t)
    BY <1>4 DEF SubmitForm, Keeps, goto, report
  <2>2. meta[s] \in Metas /\ doc[meta[s]] \in Doc /\ doc[meta[s]] # Nil /\ pc[s] = "form"
    BY <1>4 DEF SubmitForm, PlacesOK, PlaceOK, TypedOK
  <2>3. copy'[s] = doc'[meta[s]] /\ doc'[meta[s]] # Nil /\ doc'[meta[s]] \in Doc
    BY <1>4, <2>2 DEF SubmitForm, TypedOK, Forward
  <2>4. Keeps(s)
    BY <1>4, <2>2, <2>3, AdvancesItself DEF SubmitForm, Keeps, goto, report
  <2> QED
    BY <2>1, <2>4, VersionKept DEF VersionsOK
<1>5. ASSUME NEW s \in Sends, SaveUpdated(s) PROVE VersionsOK'
  <2>1. \A t \in Sends : t # s => Keeps(t)
    BY <1>5 DEF SaveUpdated, Keeps, goto, report
  <2>2. meta[s] \in Metas /\ doc[meta[s]] # Nil /\ pc[s] # "idle"
    BY <1>5 DEF SaveUpdated, PlacesOK, PlaceOK
  <2>3. Saving(s, copy[s], copy[s])
    BY <1>5, Savings
  <2>4. Advances(Held(copy[s], copy[s]), doc'[meta[s]])
    BY <2>2, <2>3, SavingDoes
  <2>5. Keeps(s)
    BY <1>5, <2>2, <2>4 DEF SaveUpdated, Keeps, goto, report
  <2> QED
    BY <2>1, <2>5, VersionKept DEF VersionsOK
<1>6. ASSUME NEW s \in Sends, Resave(s) PROVE VersionsOK'
  <2>1. \A t \in Sends : t # s => Keeps(t)
    BY <1>6 DEF Resave, Keeps, goto, report
  <2>2. Keeps(s)
    BY <1>6 DEF Resave, Keeps, goto, report
  <2> QED
    BY <2>1, <2>2, VersionKept DEF VersionsOK
<1>7. ASSUME NEW s \in Sends, Mark(s) PROVE VersionsOK'
  <2>1. \A t \in Sends : t # s => Keeps(t)
    BY <1>7 DEF Mark, Keeps, goto, report
  <2>2. meta[s] \in Metas /\ doc[meta[s]] # Nil /\ pc[s] # "idle"
    BY <1>7 DEF Mark, PlacesOK, PlaceOK
  <2>3. Saving(s, copy[s], setMetadataStatusToSent(copy[s]))
    BY <1>7, Savings
  <2>4. Advances(Held(copy[s], setMetadataStatusToSent(copy[s])), doc'[meta[s]])
    BY <2>2, <2>3, SavingDoes
  <2>5. Keeps(s)
    BY <1>7, <2>2, <2>4 DEF Mark, Keeps, goto, report
  <2> QED
    BY <2>1, <2>5, VersionKept DEF VersionsOK
<1>8. ASSUME NEW s \in Sends, FlagError(s) PROVE VersionsOK'
  <2>1. \A t \in Sends : t # s => Keeps(t)
    BY <1>8 DEF FlagError, Keeps, goto, end, report
  <2>2. Keeps(s)
    BY <1>8 DEF FlagError, Keeps, goto, end, report
  <2> QED
    BY <2>1, <2>2, VersionKept DEF VersionsOK
<1>9. ASSUME NEW s \in Sends, PortalAccepts(s) PROVE VersionsOK'
  <2>1. \A t \in Sends : t # s => Keeps(t)
    BY <1>9 DEF PortalAccepts, Keeps, TypedOK, goto, report
  <2>2. Keeps(s)
    BY <1>9 DEF PortalAccepts, Keeps, TypedOK, goto, report
  <2> QED
    BY <2>1, <2>2, VersionKept DEF VersionsOK
<1>10. ASSUME NEW s \in Sends, Integrate(s) PROVE VersionsOK'
  <2>1. \A t \in Sends : t # s => Keeps(t)
    BY <1>10 DEF Integrate, Keeps, local, report
  <2>2. Keeps(s)
    BY <1>10 DEF Integrate, Keeps, local, report
  <2> QED
    BY <2>1, <2>2, VersionKept DEF VersionsOK
<1>11. ASSUME NEW s \in Sends, ReportArrives(s) PROVE VersionsOK'
  <2>1. \A t \in Sends : t # s => Keeps(t)
    BY <1>11 DEF ReportArrives, Keeps, local
  <2>2. Keeps(s)
    BY <1>11 DEF ReportArrives, Keeps, local
  <2> QED
    BY <2>1, <2>2, VersionKept DEF VersionsOK
<1>12. ASSUME NEW s \in Sends, ReportReads(s) PROVE VersionsOK'
  <2>1. \A t \in Sends : t # s => Keeps(t)
    BY <1>12 DEF ReportReads, Keeps, local
  <2>2. Keeps(s)
    BY <1>12 DEF ReportReads, Keeps, PlacesOK, PlaceOK, local
  <2> QED
    BY <2>1, <2>2, VersionKept DEF VersionsOK
<1>13. ASSUME NEW s \in Sends, ReportSaves(s) PROVE VersionsOK'
  <2>1. \A t \in Sends : t # s => Keeps(t)
    BY <1>13 DEF ReportSaves, Keeps, local
  <2>2. Keeps(s)
    BY <1>13 DEF ReportSaves, Keeps, local
  <2> QED
    BY <2>1, <2>2, VersionKept DEF VersionsOK
<1>14. ASSUME NEW s \in Sends, ReportFails(s) PROVE VersionsOK'
  <2>1. \A t \in Sends : t # s => Keeps(t)
    BY <1>14 DEF ReportFails, Keeps, local
  <2>2. Keeps(s)
    BY <1>14 DEF ReportFails, Keeps, local
  <2> QED
    BY <2>1, <2>2, VersionKept DEF VersionsOK
<1>15. ASSUME NEW s \in Sends, ReportRetried(s) PROVE VersionsOK'
  <2>1. \A t \in Sends : t # s => Keeps(t)
    BY <1>15 DEF ReportRetried, Keeps, local
  <2>2. Keeps(s)
    BY <1>15 DEF ReportRetried, Keeps, local
  <2> QED
    BY <2>1, <2>2, VersionKept DEF VersionsOK
<1>16. ASSUME NEW s \in Sends, Moves(s) PROVE VersionsOK'
  <2>1. \A t \in Sends : Keeps(t)
    BY <1>16 DEF Moves, Keeps, TypedOK
  <2> QED
    BY <2>1, VersionKept DEF VersionsOK
<1>17. ASSUME Tick \/ UNCHANGED vars PROVE VersionsOK'
  <2>1. \A t \in Sends : Keeps(t)
    BY <1>17 DEF Keeps, Tick, vars, local, report
  <2> QED
    BY <2>1, VersionKept DEF VersionsOK
<1> QED
  BY <1>1, <1>2, <1>3, <1>4, <1>5, <1>6, <1>7, <1>8, <1>9, <1>10, <1>11, <1>12, <1>13, <1>14, <1>15,
     <1>16, <1>17,
     MovesOn DEF Next, Editor, Sending, Portal, Reporting

\* A handler that is done stays so, with what it saw.
Stays(p) ==
    hpc[p] = "done" =>
        hpc'[p] = "done" /\ meta'[p] = meta[p] /\ asked'[p] = asked[p] /\ seen'[p] = seen[p]

\* A mark stays that of the same metadata, or of a later version.
Marks(t) ==
    /\ mark[t] \in Nat /\ mark'[t] \in Nat /\ mark[t] <= mark'[t]
    /\ (meta'[t] = meta[t]) \/ (mark[t] = 0 /\ mark'[t] = 0)

\* What is done and what is marked, in a step.
LEMMA MarksStep ==
    ASSUME TypedOK, TypedOK', PlacesOK, VersionsOK, Forward, [Next]_vars
    PROVE  \A t \in Sends : Stays(t) /\ Marks(t)
<1>1. mark \in [Sends -> Nat]
  BY DEF TypedOK
<1>2. ASSUME NEW s \in Sends, NEW m \in Metas, newMetadata(s, m)
      PROVE  \A t \in Sends : Stays(t) /\ Marks(t)
  BY <1>1, <1>2 DEF newMetadata, MayStart, Stays, Marks, PlacesOK, PlaceOK, report
<1>3. ASSUME NEW s \in Sends, NEW m \in Metas, Open(s, m)
      PROVE  \A t \in Sends : Stays(t) /\ Marks(t)
  BY <1>1, <1>3 DEF Open, MayStart, Stays, Marks, PlacesOK, PlaceOK, report
<1>4. ASSUME NEW s \in Sends, NEW m \in Metas, sendMany(s, m)
      PROVE  \A t \in Sends : Stays(t) /\ Marks(t)
  BY <1>1, <1>4 DEF sendMany, MayStart, Stays, Marks, PlacesOK, PlaceOK, report
<1>5. ASSUME NEW s \in Sends, SubmitForm(s) PROVE \A t \in Sends : Stays(t) /\ Marks(t)
  BY <1>1, <1>5 DEF SubmitForm, Stays, Marks, report
<1>6. ASSUME NEW s \in Sends, SaveUpdated(s) PROVE \A t \in Sends : Stays(t) /\ Marks(t)
  BY <1>1, <1>6 DEF SaveUpdated, Stays, Marks, report
<1>7. ASSUME NEW s \in Sends, Resave(s) PROVE \A t \in Sends : Stays(t) /\ Marks(t)
  BY <1>1, <1>7 DEF Resave, Stays, Marks, report
<1>8. ASSUME NEW s \in Sends, Mark(s) PROVE \A t \in Sends : Stays(t) /\ Marks(t)
  <2>1. meta[s] \in Metas /\ doc[meta[s]] # Nil /\ mark[s] <= doc[meta[s]].v
    BY <1>8 DEF Mark, PlacesOK, PlaceOK, VersionsOK, VersionOK
  <2>2. doc[meta[s]].v \in Nat /\ doc'[meta[s]].v \in Nat /\ doc[meta[s]].v <= doc'[meta[s]].v
    BY <2>1, DocFields DEF Forward, Advances, TypedOK
  <2>3. mark' = [mark EXCEPT ![s] = doc'[meta[s]].v] /\ UNCHANGED <<meta, hpc, asked, seen>>
    BY <1>8 DEF Mark, report
  <2> QED
    BY <1>1, <2>1, <2>2, <2>3 DEF Stays, Marks
<1>9. ASSUME NEW s \in Sends, FlagError(s) PROVE \A t \in Sends : Stays(t) /\ Marks(t)
  BY <1>1, <1>9 DEF FlagError, Stays, Marks, report
<1>10. ASSUME NEW s \in Sends, PortalAccepts(s) PROVE \A t \in Sends : Stays(t) /\ Marks(t)
  BY <1>1, <1>10 DEF PortalAccepts, Stays, Marks, PlacesOK, PlaceOK, Before, report
<1>11. ASSUME NEW s \in Sends, Integrate(s) PROVE \A t \in Sends : Stays(t) /\ Marks(t)
  BY <1>1, <1>11 DEF Integrate, Stays, Marks, TypedOK, PlacesOK, PlaceOK, local, report
<1>12. ASSUME NEW s \in Sends, ReportArrives(s) PROVE \A t \in Sends : Stays(t) /\ Marks(t)
  BY <1>1, <1>12 DEF ReportArrives, Stays, Marks, local
<1>13. ASSUME NEW s \in Sends, ReportReads(s) PROVE \A t \in Sends : Stays(t) /\ Marks(t)
  BY <1>1, <1>13 DEF ReportReads, Stays, Marks, local
<1>14. ASSUME NEW s \in Sends, ReportSaves(s) PROVE \A t \in Sends : Stays(t) /\ Marks(t)
  BY <1>1, <1>14 DEF ReportSaves, Stays, Marks, local
<1>15. ASSUME NEW s \in Sends, ReportFails(s) PROVE \A t \in Sends : Stays(t) /\ Marks(t)
  BY <1>1, <1>15 DEF ReportFails, Stays, Marks, local
<1>16. ASSUME NEW s \in Sends, ReportRetried(s) PROVE \A t \in Sends : Stays(t) /\ Marks(t)
  BY <1>1, <1>16 DEF ReportRetried, Stays, Marks, local
<1>17. ASSUME NEW s \in Sends, Moves(s) PROVE \A t \in Sends : Stays(t) /\ Marks(t)
  BY <1>1, <1>17 DEF Moves, Stays, Marks
<1>18. ASSUME Tick \/ UNCHANGED vars PROVE \A t \in Sends : Stays(t) /\ Marks(t)
  BY <1>1, <1>18 DEF Stays, Marks, Tick, vars, local, report
<1> QED
  BY <1>2, <1>3, <1>4, <1>5, <1>6, <1>7, <1>8, <1>9, <1>10, <1>11, <1>12, <1>13, <1>14, <1>15,
     <1>16, <1>17, <1>18,
     MovesOn DEF Next, Editor, Sending, Portal, Reporting

LEMMA SinceBefore ==
    ASSUME TypedOK, PlacesOK, NEW p \in Sends, hpc[p] = "done",
           \A t \in Sends : Stays(t) /\ Marks(t),
           NoneSince(p)'
    PROVE  NoneSince(p)
<1>1. seen[p] \in Doc
  BY DEF PlacesOK, PlaceOK, TypedOK
<1>2. seen[p].v \in Nat
  BY <1>1, DocFields
<1>3. seen'[p].v = seen[p].v /\ meta'[p] = meta[p]
  BY DEF Stays
<1> QED
  BY <1>2, <1>3 DEF NoneSince, SendsOf, Marks

LEMMA SinceAfter ==
    ASSUME TypedOK, PlacesOK, NEW p \in Sends, hpc[p] = "done",
           \A t \in Sends : Stays(t) /\ Marks(t),
           NoneSince(p), \A t \in SendsOf(meta[p]) : mark'[t] = mark[t]
    PROVE  NoneSince(p)'
<1>1. seen[p] \in Doc
  BY DEF PlacesOK, PlaceOK, TypedOK
<1>2. seen[p].v \in Nat
  BY <1>1, DocFields
<1>3. seen'[p].v = seen[p].v /\ meta'[p] = meta[p]
  BY DEF Stays
<1> QED
  BY <1>2, <1>3 DEF NoneSince, SendsOf, Marks

\* A metadata that is published as it was.
Published(m) ==
    isPublished(doc'[m]) =>
        /\ isPublished(doc[m]) /\ doc'[m].published = doc[m].published
        /\ \A t \in SendsOf(m) : mark'[t] = mark[t]

LEMMA PublishedKept ==
    ASSUME TypedOK, PlacesOK, PublishedOK, \A t \in Sends : Stays(t) /\ Marks(t),
           NEW m \in Metas, Published(m), isPublished(doc'[m])
    PROVE  \E s \in Sends :
               /\ doc'[m].published = s
               /\ meta'[s] = m /\ asked'[s] = "OK" /\ hpc'[s] = "done" /\ NoneSince(s)'
<1>1. /\ isPublished(doc[m]) /\ doc'[m].published = doc[m].published
      /\ \A t \in SendsOf(m) : mark'[t] = mark[t]
  BY DEF Published
<1>2. PICK s \in Sends :
          doc[m].published = s /\ meta[s] = m /\ asked[s] = "OK" /\ hpc[s] = "done" /\ NoneSince(s)
  BY <1>1 DEF PublishedOK
<1>3. meta'[s] = m /\ asked'[s] = "OK" /\ hpc'[s] = "done"
  BY <1>2 DEF Stays
<1>4. NoneSince(s)'
  BY <1>1, <1>2, SinceAfter
<1> QED
  BY <1>1, <1>2, <1>3, <1>4

\* A publication saw every send.
LEMMA PublishedStep ==
    ASSUME TypedOK, TypedOK', PlacesOK, VersionsOK, PublishedOK, Forward, [Next]_vars
    PROVE  PublishedOK'
<1>1. \A t \in Sends : Stays(t) /\ Marks(t)
  BY MarksStep
<1>2. ASSUME NEW s \in Sends, NEW m \in Metas, newMetadata(s, m) PROVE PublishedOK'
  <2>1. Created(s).published = "never" /\ doc' = [doc EXCEPT ![m] = Created(s)] /\ mark' = mark
    BY <1>2, CreatedIs DEF newMetadata
  <2>2. \A k \in Metas : Published(k)
    BY <2>1 DEF Published, isPublished
  <2> QED
    BY <1>1, <2>2, PublishedKept DEF PublishedOK
<1>3. ASSUME NEW s \in Sends, NEW m \in Metas, Open(s, m) PROVE PublishedOK'
  <2>1. \A k \in Metas : Published(k)
    BY <1>3 DEF Published, Open
  <2> QED
    BY <1>1, <2>1, PublishedKept DEF PublishedOK
<1>4. ASSUME NEW s \in Sends, NEW m \in Metas, sendMany(s, m) PROVE PublishedOK'
  <2>1. \A k \in Metas : Published(k)
    BY <1>4 DEF Published, sendMany
  <2> QED
    BY <1>1, <2>1, PublishedKept DEF PublishedOK
<1>5. ASSUME NEW s \in Sends, SubmitForm(s) PROVE PublishedOK'
  <2>1. meta[s] \in Metas /\ doc[meta[s]] \in Doc /\ doc[meta[s]] # Nil /\ copy[s] \in Doc
    BY <1>5 DEF SubmitForm, PlacesOK, PlaceOK, TypedOK, Holding
  <2>2. Overwritten(s, doc[meta[s]], copy[s]).published = doc[meta[s]].published
    BY <1>5, <2>1, FormAdvances DEF SubmitForm
  <2>3. doc' = [doc EXCEPT ![meta[s]] = Overwritten(s, doc[meta[s]], copy[s])] /\ mark' = mark
    BY <1>5 DEF SubmitForm
  <2>4. \A k \in Metas : Published(k)
    BY <2>1, <2>2, <2>3 DEF Published, isPublished
  <2> QED
    BY <1>1, <2>4, PublishedKept DEF PublishedOK
<1>6. ASSUME NEW s \in Sends, SaveUpdated(s) PROVE PublishedOK'
  <2>1. meta[s] \in Metas /\ doc[meta[s]] # Nil
    BY <1>6 DEF SaveUpdated, PlacesOK, PlaceOK
  <2>2. Saving(s, copy[s], copy[s]) /\ mark' = mark
    BY <1>6, Savings DEF SaveUpdated
  <2>3. /\ doc'[meta[s]].published = copy[s].published /\ doc[meta[s]].published = copy[s].published
        /\ \A k \in Metas : k # meta[s] => doc'[k] = doc[k]
    BY <2>1, <2>2, SavingDoes
  <2>4. \A k \in Metas : Published(k)
    BY <2>1, <2>2, <2>3 DEF Published, isPublished
  <2> QED
    BY <1>1, <2>4, PublishedKept DEF PublishedOK
<1>7. ASSUME NEW s \in Sends, Resave(s) PROVE PublishedOK'
  <2>1. meta[s] \in Metas /\ doc[meta[s]] # Nil
    BY <1>7 DEF Resave, PlacesOK, PlaceOK
  <2>2. Saving(s, copy[s], copy[s]) /\ mark' = mark
    BY <1>7, Savings DEF Resave
  <2>3. /\ doc'[meta[s]].published = copy[s].published /\ doc[meta[s]].published = copy[s].published
        /\ \A k \in Metas : k # meta[s] => doc'[k] = doc[k]
    BY <2>1, <2>2, SavingDoes
  <2>4. \A k \in Metas : Published(k)
    BY <2>1, <2>2, <2>3 DEF Published, isPublished
  <2> QED
    BY <1>1, <2>4, PublishedKept DEF PublishedOK
<1>8. ASSUME NEW s \in Sends, Mark(s) PROVE PublishedOK'
  <2>1. meta[s] \in Metas /\ doc[meta[s]] # Nil
    BY <1>8 DEF Mark, PlacesOK, PlaceOK
  <2>2. Saving(s, copy[s], setMetadataStatusToSent(copy[s]))
           /\ mark' = [mark EXCEPT ![s] = doc'[meta[s]].v]
    BY <1>8, Savings DEF Mark
  <2>3. /\ doc'[meta[s]].published = setMetadataStatusToSent(copy[s]).published
              /\ doc[meta[s]].published = copy[s].published
        /\ \A k \in Metas : k # meta[s] => doc'[k] = doc[k]
    BY <2>1, <2>2, SavingDoes
  <2>4. setMetadataStatusToSent(copy[s]).published = Nil
    BY <2>2, Flagged DEF Saving
  <2>5. \A k \in Metas : Published(k)
    BY <2>1, <2>2, <2>3, <2>4 DEF Published, isPublished, SendsOf
  <2> QED
    BY <1>1, <2>5, PublishedKept DEF PublishedOK
<1>9. ASSUME NEW s \in Sends, FlagError(s) PROVE PublishedOK'
  <2>1. meta[s] \in Metas /\ doc[meta[s]] # Nil
    BY <1>9 DEF FlagError, PlacesOK, PlaceOK
  <2>2. Saving(s, copy[s], flagged(copy[s], s)) /\ mark' = mark
    BY <1>9, Savings DEF FlagError
  <2>3. /\ doc'[meta[s]].published = flagged(copy[s], s).published
              /\ doc[meta[s]].published = copy[s].published
        /\ \A k \in Metas : k # meta[s] => doc'[k] = doc[k]
    BY <2>1, <2>2, SavingDoes
  <2>4. flagged(copy[s], s).published = copy[s].published
    BY <2>2, Flagged DEF Saving
  <2>5. \A k \in Metas : Published(k)
    BY <2>1, <2>2, <2>3, <2>4 DEF Published, isPublished
  <2> QED
    BY <1>1, <2>5, PublishedKept DEF PublishedOK
<1>10. ASSUME NEW s \in Sends, PortalAccepts(s) PROVE PublishedOK'
  <2>1. \A k \in Metas : Published(k)
    BY <1>10 DEF Published, PortalAccepts
  <2> QED
    BY <1>1, <2>1, PublishedKept DEF PublishedOK
<1>11. ASSUME NEW s \in Sends, Integrate(s) PROVE PublishedOK'
  <2>1. \A k \in Metas : Published(k)
    BY <1>11 DEF Published, Integrate
  <2> QED
    BY <1>1, <2>1, PublishedKept DEF PublishedOK
<1>12. ASSUME NEW s \in Sends, ReportArrives(s) PROVE PublishedOK'
  <2>1. \A k \in Metas : Published(k)
    BY <1>12 DEF Published, ReportArrives
  <2> QED
    BY <1>1, <2>1, PublishedKept DEF PublishedOK
<1>13. ASSUME NEW s \in Sends, ReportReads(s) PROVE PublishedOK'
  <2>1. \A k \in Metas : Published(k)
    BY <1>13 DEF Published, ReportReads
  <2> QED
    BY <1>1, <2>1, PublishedKept DEF PublishedOK
<1>14. ASSUME NEW s \in Sends, ReportSaves(s) PROVE PublishedOK'
  <2>1. meta[s] \in Metas /\ doc[meta[s]] # Nil /\ seen[s] # Nil /\ seen[s] \in Doc
    BY <1>14 DEF ReportSaves, PlacesOK, PlaceOK, TypedOK
  <2>2. CASE asked[s] = "OK"
    <3> DEFINE m == meta[s]
    <3>1. Saving(s, seen[s], setPublishedFlag(seen[s], s))
      BY <1>14, <2>2, Savings
    <3>2. /\ doc'[m].published = setPublishedFlag(seen[s], s).published /\ doc[m].v = seen[s].v
          /\ \A k \in Metas : k # m => doc'[k] = doc[k]
      BY <2>1, <3>1, SavingDoes
    <3>3. doc'[m].published = s /\ doc[m].v = seen[s].v
             /\ (\A k \in Metas : k # m => doc'[k] = doc[k])
      BY <2>1, <3>2, Flagged
    <3>4. \A k \in Metas : k # m => Published(k)
      BY <1>14, <3>3 DEF Published, ReportSaves
    <3>5. meta'[s] = m /\ asked'[s] = "OK" /\ hpc'[s] = "done" /\ seen' = seen /\ meta' = meta
             /\ mark' = mark
      BY <1>14, <2>2 DEF ReportSaves, local, TypedOK
    <3>6. \A t \in SendsOf(m) : mark[t] <= seen[s].v
      BY <2>1, <3>3, DocFields DEF SendsOf, VersionsOK, VersionOK, PlacesOK, PlaceOK
    <3>7. NoneSince(s)'
      BY <3>5, <3>6 DEF NoneSince, SendsOf
    <3> QED
      BY <1>1, <3>3, <3>4, <3>5, <3>7, PublishedKept DEF PublishedOK
  <2>3. CASE asked[s] # "OK"
    <3>1. Saving(s, seen[s], setFlagIntegrationKO(seen[s], s))
      BY <1>14, <2>3, Savings
    <3>2. /\ doc'[meta[s]].published = setFlagIntegrationKO(seen[s], s).published
          /\ doc[meta[s]].published = seen[s].published
          /\ \A k \in Metas : k # meta[s] => doc'[k] = doc[k]
      BY <2>1, <3>1, SavingDoes
    <3>3. doc'[meta[s]].published = doc[meta[s]].published
             /\ (\A k \in Metas : k # meta[s] => doc'[k] = doc[k])
      BY <2>1, <3>2, Flagged
    <3>4. \A k \in Metas : Published(k)
      BY <1>14, <2>1, <3>3 DEF Published, ReportSaves, isPublished
    <3> QED
      BY <1>1, <3>4, PublishedKept DEF PublishedOK
  <2> QED
    BY <2>2, <2>3
<1>15. ASSUME NEW s \in Sends, ReportFails(s) PROVE PublishedOK'
  <2>1. \A k \in Metas : Published(k)
    BY <1>15 DEF Published, ReportFails
  <2> QED
    BY <1>1, <2>1, PublishedKept DEF PublishedOK
<1>16. ASSUME NEW s \in Sends, ReportRetried(s) PROVE PublishedOK'
  <2>1. \A k \in Metas : Published(k)
    BY <1>16 DEF Published, ReportRetried
  <2> QED
    BY <1>1, <2>1, PublishedKept DEF PublishedOK
<1>17. ASSUME NEW s \in Sends, Moves(s) PROVE PublishedOK'
  <2>1. \A k \in Metas : Published(k)
    BY <1>17 DEF Published, Moves
  <2> QED
    BY <1>1, <2>1, PublishedKept DEF PublishedOK
<1>18. ASSUME Tick \/ UNCHANGED vars PROVE PublishedOK'
  <2>1. \A k \in Metas : Published(k)
    BY <1>18 DEF Published, Tick, vars
  <2> QED
    BY <1>1, <2>1, PublishedKept DEF PublishedOK
<1> QED
  BY <1>2, <1>3, <1>4, <1>5, <1>6, <1>7, <1>8, <1>9, <1>10, <1>11, <1>12, <1>13, <1>14, <1>15,
     <1>16, <1>17, <1>18,
     MovesOn DEF Next, Editor, Sending, Portal, Reporting

\* A metadata that shows what it showed.
Shows(m) ==
    /\ isPublished(doc[m]) => isPublished(doc'[m])
    /\ doc[m] # Nil /\ doc[m].error # Nil => doc'[m] # Nil /\ doc'[m].error # Nil

LEMMA HandledKept ==
    ASSUME TypedOK, PlacesOK, HandledOK, "staleForm" \notin Faults,
           \A t \in Sends : Stays(t) /\ Marks(t),
           NEW p \in Sends, hpc[p] = "done", NoneSince(p)', Shows(meta[p])
    PROVE  /\ asked'[p] = "OK" => isPublished(doc'[meta'[p]])
           /\ asked'[p] = "KO" => doc'[meta'[p]].error # Nil
<1>1. NoneSince(p)
  BY SinceBefore
<1>2. /\ asked[p] = "OK" => isPublished(doc[meta[p]])
      /\ asked[p] = "KO" => doc[meta[p]].error # Nil
  BY <1>1 DEF HandledOK
<1>3. meta[p] \in Metas /\ doc[meta[p]] # Nil
  BY DEF PlacesOK, PlaceOK
<1>4. meta'[p] = meta[p] /\ asked'[p] = asked[p]
  BY DEF Stays
<1> QED
  BY <1>2, <1>3, <1>4 DEF Shows

\* A report that was handled counts.
LEMMA HandledStep ==
    ASSUME TypedOK, TypedOK', PlacesOK, VersionsOK, HandledOK, Forward, [Next]_vars
    PROVE  HandledOK'
<1>1. \A t \in Sends : Stays(t) /\ Marks(t)
  BY MarksStep
<1>2. ASSUME NEW s \in Sends, NEW m \in Metas, newMetadata(s, m) PROVE HandledOK'
  <2> SUFFICES ASSUME "staleForm" \notin Faults, NEW p \in Sends, hpc'[p] = "done", NoneSince(p)'
               PROVE  /\ asked'[p] = "OK" => isPublished(doc'[meta'[p]])
                      /\ asked'[p] = "KO" => doc'[meta'[p]].error # Nil
    BY DEF HandledOK
  <2>1. doc[m] = Nil /\ doc' = [doc EXCEPT ![m] = Created(s)]
    BY <1>2 DEF newMetadata
  <2>2. hpc[p] = "done" /\ meta[p] \in Metas /\ doc[meta[p]] # Nil
    BY <1>2 DEF newMetadata, PlacesOK, PlaceOK, report
  <2>3. Shows(meta[p])
    BY <2>1, <2>2 DEF Shows, TypedOK
  <2> QED
    BY <1>1, <2>2, <2>3, HandledKept
<1>3. ASSUME NEW s \in Sends, NEW m \in Metas, Open(s, m) PROVE HandledOK'
  <2> SUFFICES ASSUME "staleForm" \notin Faults, NEW p \in Sends, hpc'[p] = "done", NoneSince(p)'
               PROVE  /\ asked'[p] = "OK" => isPublished(doc'[meta'[p]])
                      /\ asked'[p] = "KO" => doc'[meta'[p]].error # Nil
    BY DEF HandledOK
  <2>1. hpc[p] = "done"
    BY <1>3 DEF Open, report
  <2>2. Shows(meta[p])
    BY <1>3 DEF Shows, Open
  <2> QED
    BY <1>1, <2>1, <2>2, HandledKept
<1>4. ASSUME NEW s \in Sends, NEW m \in Metas, sendMany(s, m) PROVE HandledOK'
  <2> SUFFICES ASSUME "staleForm" \notin Faults, NEW p \in Sends, hpc'[p] = "done", NoneSince(p)'
               PROVE  /\ asked'[p] = "OK" => isPublished(doc'[meta'[p]])
                      /\ asked'[p] = "KO" => doc'[meta'[p]].error # Nil
    BY DEF HandledOK
  <2>1. hpc[p] = "done"
    BY <1>4 DEF sendMany, report
  <2>2. Shows(meta[p])
    BY <1>4 DEF Shows, sendMany
  <2> QED
    BY <1>1, <2>1, <2>2, HandledKept
<1>5. ASSUME NEW s \in Sends, SubmitForm(s) PROVE HandledOK'
  <2> SUFFICES ASSUME "staleForm" \notin Faults, NEW p \in Sends, hpc'[p] = "done", NoneSince(p)'
               PROVE  /\ asked'[p] = "OK" => isPublished(doc'[meta'[p]])
                      /\ asked'[p] = "KO" => doc'[meta'[p]].error # Nil
    BY DEF HandledOK
  <2>1. meta[s] \in Metas /\ doc[meta[s]] \in Doc /\ doc[meta[s]] # Nil /\ copy[s] \in Doc
    BY <1>5 DEF SubmitForm, PlacesOK, PlaceOK, TypedOK, Holding
  <2>2. /\ Overwritten(s, doc[meta[s]], copy[s]) # Nil
        /\ Overwritten(s, doc[meta[s]], copy[s]).published = doc[meta[s]].published
        /\ Overwritten(s, doc[meta[s]], copy[s]).error = doc[meta[s]].error
    BY <1>5, <2>1, FormAdvances, NoNil DEF SubmitForm
  <2>3. doc' = [doc EXCEPT ![meta[s]] = Overwritten(s, doc[meta[s]], copy[s])]
    BY <1>5 DEF SubmitForm
  <2>4. hpc[p] = "done" /\ meta[p] \in Metas
    BY <1>5 DEF SubmitForm, PlacesOK, PlaceOK, report
  <2>5. Shows(meta[p])
    BY <2>1, <2>2, <2>3, <2>4 DEF Shows, isPublished
  <2> QED
    BY <1>1, <2>4, <2>5, HandledKept
<1>6. ASSUME NEW s \in Sends, SaveUpdated(s) PROVE HandledOK'
  <2> SUFFICES ASSUME "staleForm" \notin Faults, NEW p \in Sends, hpc'[p] = "done", NoneSince(p)'
               PROVE  /\ asked'[p] = "OK" => isPublished(doc'[meta'[p]])
                      /\ asked'[p] = "KO" => doc'[meta'[p]].error # Nil
    BY DEF HandledOK
  <2>1. meta[s] \in Metas /\ doc[meta[s]] # Nil
    BY <1>6 DEF SaveUpdated, PlacesOK, PlaceOK
  <2>2. Saving(s, copy[s], copy[s])
    BY <1>6, Savings DEF SaveUpdated
  <2>3. /\ doc'[meta[s]] # Nil
        /\ doc'[meta[s]].published = copy[s].published /\ doc[meta[s]].published = copy[s].published
        /\ doc'[meta[s]].error = copy[s].error /\ doc[meta[s]].error = copy[s].error
        /\ \A k \in Metas : k # meta[s] => doc'[k] = doc[k]
    BY <2>1, <2>2, SavingDoes
  <2>4. hpc[p] = "done" /\ meta[p] \in Metas
    BY <1>6 DEF SaveUpdated, PlacesOK, PlaceOK, report
  <2>5. Shows(meta[p])
    BY <2>1, <2>3, <2>4 DEF Shows, isPublished
  <2> QED
    BY <1>1, <2>4, <2>5, HandledKept
<1>7. ASSUME NEW s \in Sends, Resave(s) PROVE HandledOK'
  <2> SUFFICES ASSUME "staleForm" \notin Faults, NEW p \in Sends, hpc'[p] = "done", NoneSince(p)'
               PROVE  /\ asked'[p] = "OK" => isPublished(doc'[meta'[p]])
                      /\ asked'[p] = "KO" => doc'[meta'[p]].error # Nil
    BY DEF HandledOK
  <2>1. meta[s] \in Metas /\ doc[meta[s]] # Nil
    BY <1>7 DEF Resave, PlacesOK, PlaceOK
  <2>2. Saving(s, copy[s], copy[s])
    BY <1>7, Savings DEF Resave
  <2>3. /\ doc'[meta[s]] # Nil
        /\ doc'[meta[s]].published = copy[s].published /\ doc[meta[s]].published = copy[s].published
        /\ doc'[meta[s]].error = copy[s].error /\ doc[meta[s]].error = copy[s].error
        /\ \A k \in Metas : k # meta[s] => doc'[k] = doc[k]
    BY <2>1, <2>2, SavingDoes
  <2>4. hpc[p] = "done" /\ meta[p] \in Metas
    BY <1>7 DEF Resave, PlacesOK, PlaceOK, report
  <2>5. Shows(meta[p])
    BY <2>1, <2>3, <2>4 DEF Shows, isPublished
  <2> QED
    BY <1>1, <2>4, <2>5, HandledKept
<1>8. ASSUME NEW s \in Sends, Mark(s) PROVE HandledOK'
  <2> SUFFICES ASSUME "staleForm" \notin Faults, NEW p \in Sends, hpc'[p] = "done", NoneSince(p)'
               PROVE  /\ asked'[p] = "OK" => isPublished(doc'[meta'[p]])
                      /\ asked'[p] = "KO" => doc'[meta'[p]].error # Nil
    BY DEF HandledOK
  <2>1. meta[s] \in Metas /\ doc[meta[s]] # Nil
    BY <1>8 DEF Mark, PlacesOK, PlaceOK
  <2>2. Saving(s, copy[s], setMetadataStatusToSent(copy[s]))
    BY <1>8, Savings DEF Mark
  <2>3. /\ doc'[meta[s]] # Nil
        /\ doc'[meta[s]].published = setMetadataStatusToSent(copy[s]).published
              /\ doc[meta[s]].published = copy[s].published
        /\ doc'[meta[s]].error = setMetadataStatusToSent(copy[s]).error
              /\ doc[meta[s]].error = copy[s].error
        /\ \A k \in Metas : k # meta[s] => doc'[k] = doc[k]
    BY <2>1, <2>2, SavingDoes
  <2>4. hpc[p] = "done" /\ meta[p] \in Metas
    BY <1>8 DEF Mark, PlacesOK, PlaceOK, report
  <2>5. CASE meta[p] # meta[s]
    <3>1. Shows(meta[p])
      BY <2>3, <2>5, <2>4 DEF Shows
    <3> QED
      BY <1>1, <2>4, <3>1, HandledKept
  <2>6. CASE meta[p] = meta[s]
    <3>1. setMetadataStatusToSent(copy[s]).published = Nil
             /\ setMetadataStatusToSent(copy[s]).error = Nil
      BY <2>2, Flagged DEF Saving
    <3>2. setMetadataStatusToSent(copy[s]) # copy[s] => doc'[meta[s]].v = doc[meta[s]].v + 1
             /\ doc[meta[s]].v \in Nat
      BY <2>1, <2>2, SavingDoes
    <3>3. mark'[s] = doc'[meta[s]].v /\ meta'[s] = meta[s] /\ seen' = seen
      BY <1>8 DEF Mark, TypedOK, report
    <3>4. doc'[meta[s]].v <= seen[p].v
      BY <1>1, <2>6, <2>4, <3>3 DEF NoneSince, SendsOf, Stays
    <3>5. seen[p] \in Doc /\ doc[meta[s]] \in Doc /\ Advances(seen[p], doc[meta[s]])
      BY <2>1, <2>6, <2>4 DEF TypedOK, PlacesOK, PlaceOK, VersionsOK, VersionOK
    <3>6. seen[p].v <= doc[meta[s]].v /\ seen[p].v \in Nat
      BY <3>5, DocFields DEF Advances
    <3>7. setMetadataStatusToSent(copy[s]) = copy[s]
      BY <3>2, <3>4, <3>6
    <3>8. Shows(meta[p])
      BY <2>3, <2>6, <3>1, <3>7 DEF Shows, isPublished
    <3> QED
      BY <1>1, <2>4, <3>8, HandledKept
  <2> QED
    BY <2>5, <2>6
<1>9. ASSUME NEW s \in Sends, FlagError(s) PROVE HandledOK'
  <2> SUFFICES ASSUME "staleForm" \notin Faults, NEW p \in Sends, hpc'[p] = "done", NoneSince(p)'
               PROVE  /\ asked'[p] = "OK" => isPublished(doc'[meta'[p]])
                      /\ asked'[p] = "KO" => doc'[meta'[p]].error # Nil
    BY DEF HandledOK
  <2>1. meta[s] \in Metas /\ doc[meta[s]] # Nil
    BY <1>9 DEF FlagError, PlacesOK, PlaceOK
  <2>2. Saving(s, copy[s], flagged(copy[s], s))
    BY <1>9, Savings DEF FlagError
  <2>3. /\ doc'[meta[s]] # Nil
        /\ doc'[meta[s]].published = flagged(copy[s], s).published
              /\ doc[meta[s]].published = copy[s].published
        /\ doc'[meta[s]].error = flagged(copy[s], s).error /\ doc[meta[s]].error = copy[s].error
        /\ \A k \in Metas : k # meta[s] => doc'[k] = doc[k]
    BY <2>1, <2>2, SavingDoes
  <2>4. hpc[p] = "done" /\ meta[p] \in Metas
    BY <1>9 DEF FlagError, PlacesOK, PlaceOK, report
  <2>5. flagged(copy[s], s).published = copy[s].published
           /\ flagged(copy[s], s).error = <<s, "local">>
    BY <2>2, Flagged DEF Saving
  <2>6. flagged(copy[s], s).error # Nil
    BY <2>5, NoNil
  <2>7. Shows(meta[p])
    BY <2>1, <2>3, <2>4, <2>5, <2>6 DEF Shows, isPublished
  <2> QED
    BY <1>1, <2>4, <2>7, HandledKept
<1>10. ASSUME NEW s \in Sends, PortalAccepts(s) PROVE HandledOK'
  <2> SUFFICES ASSUME "staleForm" \notin Faults, NEW p \in Sends, hpc'[p] = "done", NoneSince(p)'
               PROVE  /\ asked'[p] = "OK" => isPublished(doc'[meta'[p]])
                      /\ asked'[p] = "KO" => doc'[meta'[p]].error # Nil
    BY DEF HandledOK
  <2>1. hpc[p] = "done"
    BY <1>10 DEF PortalAccepts, report
  <2>2. Shows(meta[p])
    BY <1>10 DEF Shows, PortalAccepts
  <2> QED
    BY <1>1, <2>1, <2>2, HandledKept
<1>11. ASSUME NEW s \in Sends, Integrate(s) PROVE HandledOK'
  <2> SUFFICES ASSUME "staleForm" \notin Faults, NEW p \in Sends, hpc'[p] = "done", NoneSince(p)'
               PROVE  /\ asked'[p] = "OK" => isPublished(doc'[meta'[p]])
                      /\ asked'[p] = "KO" => doc'[meta'[p]].error # Nil
    BY DEF HandledOK
  <2>1. hpc[p] = "done"
    BY <1>11 DEF Integrate, report
  <2>2. Shows(meta[p])
    BY <1>11 DEF Shows, Integrate
  <2> QED
    BY <1>1, <2>1, <2>2, HandledKept
<1>12. ASSUME NEW s \in Sends, ReportArrives(s) PROVE HandledOK'
  <2> SUFFICES ASSUME "staleForm" \notin Faults, NEW p \in Sends, hpc'[p] = "done", NoneSince(p)'
               PROVE  /\ asked'[p] = "OK" => isPublished(doc'[meta'[p]])
                      /\ asked'[p] = "KO" => doc'[meta'[p]].error # Nil
    BY DEF HandledOK
  <2>1. hpc[p] = "done"
    BY <1>12 DEF ReportArrives
  <2>2. Shows(meta[p])
    BY <1>12 DEF Shows, ReportArrives
  <2> QED
    BY <1>1, <2>1, <2>2, HandledKept
<1>13. ASSUME NEW s \in Sends, ReportReads(s) PROVE HandledOK'
  <2> SUFFICES ASSUME "staleForm" \notin Faults, NEW p \in Sends, hpc'[p] = "done", NoneSince(p)'
               PROVE  /\ asked'[p] = "OK" => isPublished(doc'[meta'[p]])
                      /\ asked'[p] = "KO" => doc'[meta'[p]].error # Nil
    BY DEF HandledOK
  <2>1. CASE p # s
    <3>1. hpc[p] = "done" /\ Shows(meta[p])
      BY <1>13, <2>1 DEF ReportReads, Shows
    <3> QED
      BY <1>1, <3>1, HandledKept
  <2>2. CASE p = s
    BY <1>13, <2>2 DEF ReportReads, local, isPublished, PlacesOK, PlaceOK
  <2> QED
    BY <2>1, <2>2
<1>14. ASSUME NEW s \in Sends, ReportSaves(s) PROVE HandledOK'
  <2> SUFFICES ASSUME "staleForm" \notin Faults, NEW p \in Sends, hpc'[p] = "done", NoneSince(p)'
               PROVE  /\ asked'[p] = "OK" => isPublished(doc'[meta'[p]])
                      /\ asked'[p] = "KO" => doc'[meta'[p]].error # Nil
    BY DEF HandledOK
  <2>1. meta[s] \in Metas /\ doc[meta[s]] # Nil /\ seen[s] # Nil /\ seen[s] \in Doc
    BY <1>14 DEF ReportSaves, PlacesOK, PlaceOK, TypedOK
  <2>2. meta' = meta /\ asked' = asked /\ (p # s => hpc[p] = "done")
           /\ (hpc[p] = "done" => meta[p] \in Metas)
    BY <1>14 DEF ReportSaves, local, PlacesOK, PlaceOK
  <2>3. CASE asked[s] = "OK"
    <3>1. Saving(s, seen[s], setPublishedFlag(seen[s], s))
      BY <1>14, <2>3, Savings
    <3>2. /\ doc'[meta[s]] # Nil
          /\ doc'[meta[s]].published = setPublishedFlag(seen[s], s).published
                /\ doc[meta[s]].published = seen[s].published
          /\ doc'[meta[s]].error = setPublishedFlag(seen[s], s).error
                /\ doc[meta[s]].error = seen[s].error
          /\ \A k \in Metas : k # meta[s] => doc'[k] = doc[k]
      BY <2>1, <3>1, SavingDoes
    <3>3. setPublishedFlag(seen[s], s).published \notin {Nil, "never"}
             /\ setPublishedFlag(seen[s], s).error = seen[s].error
      BY <2>1, Flagged, NoNil
    <3>4. isPublished(doc'[meta[s]])
      BY <3>2, <3>3 DEF isPublished
    <3>5. \A k \in Metas : Shows(k)
      BY <2>1, <3>2, <3>3, <3>4 DEF Shows, isPublished
    <3>6. CASE p # s
      BY <1>1, <2>2, <3>6, <3>5, HandledKept
    <3>7. CASE p = s
      BY <2>2, <2>3, <3>4, <3>7
    <3> QED
      BY <3>6, <3>7
  <2>4. CASE asked[s] # "OK"
    <3>1. Saving(s, seen[s], setFlagIntegrationKO(seen[s], s))
      BY <1>14, <2>4, Savings
    <3>2. /\ doc'[meta[s]] # Nil
          /\ doc'[meta[s]].published = setFlagIntegrationKO(seen[s], s).published
                /\ doc[meta[s]].published = seen[s].published
          /\ doc'[meta[s]].error = setFlagIntegrationKO(seen[s], s).error
                /\ doc[meta[s]].error = seen[s].error
          /\ \A k \in Metas : k # meta[s] => doc'[k] = doc[k]
      BY <2>1, <3>1, SavingDoes
    <3>3. setFlagIntegrationKO(seen[s], s).published = seen[s].published
             /\ setFlagIntegrationKO(seen[s], s).error = <<s, "portal">>
      BY <2>1, Flagged
    <3>4. setFlagIntegrationKO(seen[s], s).published = seen[s].published
             /\ setFlagIntegrationKO(seen[s], s).error # Nil
      BY <3>3, NoNil
    <3>5. doc'[meta[s]].error # Nil
      BY <3>2, <3>4
    <3>6. \A k \in Metas : Shows(k)
      BY <2>1, <3>2, <3>4, <3>5 DEF Shows, isPublished
    <3>7. CASE p # s
      BY <1>1, <2>2, <3>7, <3>6, HandledKept
    <3>8. CASE p = s
      BY <2>2, <2>4, <3>5, <3>8
    <3> QED
      BY <3>7, <3>8
  <2> QED
    BY <2>3, <2>4
<1>15. ASSUME NEW s \in Sends, ReportFails(s) PROVE HandledOK'
  <2> SUFFICES ASSUME "staleForm" \notin Faults, NEW p \in Sends, hpc'[p] = "done", NoneSince(p)'
               PROVE  /\ asked'[p] = "OK" => isPublished(doc'[meta'[p]])
                      /\ asked'[p] = "KO" => doc'[meta'[p]].error # Nil
    BY DEF HandledOK
  <2>1. hpc[p] = "done"
    BY <1>15 DEF ReportFails
  <2>2. Shows(meta[p])
    BY <1>15 DEF Shows, ReportFails
  <2> QED
    BY <1>1, <2>1, <2>2, HandledKept
<1>16. ASSUME NEW s \in Sends, ReportRetried(s) PROVE HandledOK'
  <2> SUFFICES ASSUME "staleForm" \notin Faults, NEW p \in Sends, hpc'[p] = "done", NoneSince(p)'
               PROVE  /\ asked'[p] = "OK" => isPublished(doc'[meta'[p]])
                      /\ asked'[p] = "KO" => doc'[meta'[p]].error # Nil
    BY DEF HandledOK
  <2>1. hpc[p] = "done"
    BY <1>16 DEF ReportRetried
  <2>2. Shows(meta[p])
    BY <1>16 DEF Shows, ReportRetried
  <2> QED
    BY <1>1, <2>1, <2>2, HandledKept
<1>17. ASSUME NEW s \in Sends, Moves(s) PROVE HandledOK'
  <2> SUFFICES ASSUME "staleForm" \notin Faults, NEW p \in Sends, hpc'[p] = "done", NoneSince(p)'
               PROVE  /\ asked'[p] = "OK" => isPublished(doc'[meta'[p]])
                      /\ asked'[p] = "KO" => doc'[meta'[p]].error # Nil
    BY DEF HandledOK
  <2>1. hpc[p] = "done"
    BY <1>17 DEF Moves
  <2>2. Shows(meta[p])
    BY <1>17 DEF Shows, Moves
  <2> QED
    BY <1>1, <2>1, <2>2, HandledKept
<1>18. ASSUME Tick \/ UNCHANGED vars PROVE HandledOK'
  <2> SUFFICES ASSUME "staleForm" \notin Faults, NEW p \in Sends, hpc'[p] = "done", NoneSince(p)'
               PROVE  /\ asked'[p] = "OK" => isPublished(doc'[meta'[p]])
                      /\ asked'[p] = "KO" => doc'[meta'[p]].error # Nil
    BY DEF HandledOK
  <2>1. hpc[p] = "done"
    BY <1>18 DEF Tick, vars, report
  <2>2. Shows(meta[p])
    BY <1>18 DEF Shows, Tick, vars
  <2> QED
    BY <1>1, <2>1, <2>2, HandledKept
<1> QED
  BY <1>2, <1>3, <1>4, <1>5, <1>6, <1>7, <1>8, <1>9, <1>10, <1>11, <1>12, <1>13, <1>14, <1>15,
     <1>16, <1>17, <1>18,
     MovesOn DEF Next, Editor, Sending, Portal, Reporting

\* The status of a metadata is the one reckoned.
Reckoned(d) == d # Nil => d.status = reckonMetadataStatus(d)

LEMMA ReckonedKept ==
    ASSUME StatusOK, \A m \in Metas : doc'[m] = doc[m]
              \/ ("staleForm" \notin Faults => Reckoned(doc'[m]))
    PROVE  StatusOK'
BY DEF StatusOK, StatusReckoned, Reckoned

\* The status stored is the one reckoned.
LEMMA StatusStep ==
    ASSUME TypedOK, PlacesOK, VersionsOK, StatusOK, [Next]_vars
    PROVE  StatusOK'
<1>1. ASSUME NEW s \in Sends, NEW m \in Metas, newMetadata(s, m) PROVE StatusOK'
  <2>1. Reckoned(Created(s)) /\ doc' = [doc EXCEPT ![m] = Created(s)]
    BY <1>1, CreatedIs DEF newMetadata, Reckoned, reckonMetadataStatus
  <2>2. \A k \in Metas : doc'[k] = doc[k] \/ ("staleForm" \notin Faults => Reckoned(doc'[k]))
    BY <2>1 DEF TypedOK
  <2> QED
    BY <2>2, ReckonedKept
<1>2. ASSUME NEW s \in Sends, NEW m \in Metas, Open(s, m) PROVE StatusOK'
  <2>1. \A k \in Metas : doc'[k] = doc[k] \/ ("staleForm" \notin Faults => Reckoned(doc'[k]))
    BY <1>2 DEF Open
  <2> QED
    BY <2>1, ReckonedKept
<1>3. ASSUME NEW s \in Sends, NEW m \in Metas, sendMany(s, m) PROVE StatusOK'
  <2>1. \A k \in Metas : doc'[k] = doc[k] \/ ("staleForm" \notin Faults => Reckoned(doc'[k]))
    BY <1>3 DEF sendMany
  <2> QED
    BY <2>1, ReckonedKept
<1>4. ASSUME NEW s \in Sends, SubmitForm(s) PROVE StatusOK'
  <2>1. meta[s] \in Metas /\ doc[meta[s]] \in Doc /\ doc[meta[s]] # Nil /\ copy[s] \in Doc
    BY <1>4 DEF SubmitForm, PlacesOK, PlaceOK, TypedOK, Holding
  <2> DEFINE r == Overwritten(s, doc[meta[s]], copy[s])
  <2>2. "staleForm" \notin Faults =>
            /\ r.published = doc[meta[s]].published
            /\ r.error = doc[meta[s]].error /\ r.status = doc[meta[s]].status
    BY <1>4, <2>1, FormAdvances DEF SubmitForm
  <2>3. doc' = [doc EXCEPT ![meta[s]] = r]
    BY <1>4 DEF SubmitForm
  <2> HIDE DEF r
  <2>4. "staleForm" \notin Faults => Reckoned(r)
    BY <2>1, <2>2 DEF StatusOK, StatusReckoned, Reckoned, reckonMetadataStatus
  <2>5. \A k \in Metas : doc'[k] = doc[k] \/ ("staleForm" \notin Faults => Reckoned(doc'[k]))
    BY <2>1, <2>3, <2>4 DEF TypedOK
  <2> QED
    BY <2>5, ReckonedKept
<1>5. ASSUME NEW s \in Sends, SaveUpdated(s) PROVE StatusOK'
  <2>1. meta[s] \in Metas /\ doc[meta[s]] # Nil
    BY <1>5 DEF SaveUpdated, PlacesOK, PlaceOK
  <2>2. \E c, n : Saving(s, c, n)
    BY <1>5, Savings
  <2>3. /\ "staleForm" \notin Faults => doc'[meta[s]].status = reckonMetadataStatus(doc'[meta[s]])
        /\ \A k \in Metas : k # meta[s] => doc'[k] = doc[k]
    BY <2>1, <2>2, SavingDoes
  <2>4. \A k \in Metas : doc'[k] = doc[k] \/ ("staleForm" \notin Faults => Reckoned(doc'[k]))
    BY <2>3 DEF Reckoned
  <2> QED
    BY <2>4, ReckonedKept
<1>6. ASSUME NEW s \in Sends, Resave(s) PROVE StatusOK'
  <2>1. meta[s] \in Metas /\ doc[meta[s]] # Nil
    BY <1>6 DEF Resave, PlacesOK, PlaceOK
  <2>2. \E c, n : Saving(s, c, n)
    BY <1>6, Savings
  <2>3. /\ "staleForm" \notin Faults => doc'[meta[s]].status = reckonMetadataStatus(doc'[meta[s]])
        /\ \A k \in Metas : k # meta[s] => doc'[k] = doc[k]
    BY <2>1, <2>2, SavingDoes
  <2>4. \A k \in Metas : doc'[k] = doc[k] \/ ("staleForm" \notin Faults => Reckoned(doc'[k]))
    BY <2>3 DEF Reckoned
  <2> QED
    BY <2>4, ReckonedKept
<1>7. ASSUME NEW s \in Sends, Mark(s) PROVE StatusOK'
  <2>1. meta[s] \in Metas /\ doc[meta[s]] # Nil
    BY <1>7 DEF Mark, PlacesOK, PlaceOK
  <2>2. \E c, n : Saving(s, c, n)
    BY <1>7, Savings
  <2>3. /\ "staleForm" \notin Faults => doc'[meta[s]].status = reckonMetadataStatus(doc'[meta[s]])
        /\ \A k \in Metas : k # meta[s] => doc'[k] = doc[k]
    BY <2>1, <2>2, SavingDoes
  <2>4. \A k \in Metas : doc'[k] = doc[k] \/ ("staleForm" \notin Faults => Reckoned(doc'[k]))
    BY <2>3 DEF Reckoned
  <2> QED
    BY <2>4, ReckonedKept
<1>8. ASSUME NEW s \in Sends, FlagError(s) PROVE StatusOK'
  <2>1. meta[s] \in Metas /\ doc[meta[s]] # Nil
    BY <1>8 DEF FlagError, PlacesOK, PlaceOK
  <2>2. \E c, n : Saving(s, c, n)
    BY <1>8, Savings
  <2>3. /\ "staleForm" \notin Faults => doc'[meta[s]].status = reckonMetadataStatus(doc'[meta[s]])
        /\ \A k \in Metas : k # meta[s] => doc'[k] = doc[k]
    BY <2>1, <2>2, SavingDoes
  <2>4. \A k \in Metas : doc'[k] = doc[k] \/ ("staleForm" \notin Faults => Reckoned(doc'[k]))
    BY <2>3 DEF Reckoned
  <2> QED
    BY <2>4, ReckonedKept
<1>9. ASSUME NEW s \in Sends, PortalAccepts(s) PROVE StatusOK'
  <2>1. \A k \in Metas : doc'[k] = doc[k] \/ ("staleForm" \notin Faults => Reckoned(doc'[k]))
    BY <1>9 DEF PortalAccepts
  <2> QED
    BY <2>1, ReckonedKept
<1>10. ASSUME NEW s \in Sends, Integrate(s) PROVE StatusOK'
  <2>1. \A k \in Metas : doc'[k] = doc[k] \/ ("staleForm" \notin Faults => Reckoned(doc'[k]))
    BY <1>10 DEF Integrate
  <2> QED
    BY <2>1, ReckonedKept
<1>11. ASSUME NEW s \in Sends, ReportArrives(s) PROVE StatusOK'
  <2>1. \A k \in Metas : doc'[k] = doc[k] \/ ("staleForm" \notin Faults => Reckoned(doc'[k]))
    BY <1>11 DEF ReportArrives
  <2> QED
    BY <2>1, ReckonedKept
<1>12. ASSUME NEW s \in Sends, ReportReads(s) PROVE StatusOK'
  <2>1. \A k \in Metas : doc'[k] = doc[k] \/ ("staleForm" \notin Faults => Reckoned(doc'[k]))
    BY <1>12 DEF ReportReads
  <2> QED
    BY <2>1, ReckonedKept
<1>13. ASSUME NEW s \in Sends, ReportSaves(s) PROVE StatusOK'
  <2>1. meta[s] \in Metas /\ doc[meta[s]] # Nil
    BY <1>13 DEF ReportSaves, PlacesOK, PlaceOK
  <2>2. \E c, n : Saving(s, c, n)
    BY <1>13, Savings
  <2>3. /\ "staleForm" \notin Faults => doc'[meta[s]].status = reckonMetadataStatus(doc'[meta[s]])
        /\ \A k \in Metas : k # meta[s] => doc'[k] = doc[k]
    BY <2>1, <2>2, SavingDoes
  <2>4. \A k \in Metas : doc'[k] = doc[k] \/ ("staleForm" \notin Faults => Reckoned(doc'[k]))
    BY <2>3 DEF Reckoned
  <2> QED
    BY <2>4, ReckonedKept
<1>14. ASSUME NEW s \in Sends, ReportFails(s) PROVE StatusOK'
  <2>1. \A k \in Metas : doc'[k] = doc[k] \/ ("staleForm" \notin Faults => Reckoned(doc'[k]))
    BY <1>14 DEF ReportFails
  <2> QED
    BY <2>1, ReckonedKept
<1>15. ASSUME NEW s \in Sends, ReportRetried(s) PROVE StatusOK'
  <2>1. \A k \in Metas : doc'[k] = doc[k] \/ ("staleForm" \notin Faults => Reckoned(doc'[k]))
    BY <1>15 DEF ReportRetried
  <2> QED
    BY <2>1, ReckonedKept
<1>16. ASSUME NEW s \in Sends, Moves(s) PROVE StatusOK'
  <2>1. \A k \in Metas : doc'[k] = doc[k] \/ ("staleForm" \notin Faults => Reckoned(doc'[k]))
    BY <1>16 DEF Moves
  <2> QED
    BY <2>1, ReckonedKept
<1>17. ASSUME Tick \/ UNCHANGED vars PROVE StatusOK'
  <2>1. \A k \in Metas : doc'[k] = doc[k] \/ ("staleForm" \notin Faults => Reckoned(doc'[k]))
    BY <1>17 DEF Tick, vars
  <2> QED
    BY <2>1, ReckonedKept
<1> QED
  BY <1>1, <1>2, <1>3, <1>4, <1>5, <1>6, <1>7, <1>8, <1>9, <1>10, <1>11, <1>12, <1>13, <1>14, <1>15,
     <1>16, <1>17,
     MovesOn DEF Next, Editor, Sending, Portal, Reporting

LEMMA InvInit == Init => IInv
<1> SUFFICES ASSUME Init PROVE IInv
  OBVIOUS
<1>1. \A m \in Metas : doc[m] = Nil \/ doc[m] = Created(Nil)
  BY DEF Init
<1>2. /\ Created(Nil) \in Doc /\ Created(Nil).published = "never"
      /\ Created(Nil).status = reckonMetadataStatus(Created(Nil))
  BY DEF Created, Doc, Errors, Status, reckonMetadataStatus
<1>3. TypedOK
  BY <1>2, ConstantsAssumption DEF Init, TypedOK, PC, HPC
<1>4. PlacesOK /\ VersionsOK
  BY DEF Init, PlacesOK, PlaceOK, VersionsOK, VersionOK, Holding
<1>5. \A m \in Metas : ~isPublished(doc[m])
  BY <1>1, <1>2 DEF isPublished
<1>6. PublishedOK /\ HandledOK
  BY <1>5 DEF PublishedOK, HandledOK, Init
<1>7. StatusOK
  BY <1>1, <1>2 DEF StatusOK, StatusReckoned
<1> QED
  BY <1>3, <1>4, <1>6, <1>7 DEF IInv

(***************************************************************************)
(* The theorems.                                                           *)
(***************************************************************************)

\* The inductive invariant holds of every reachable state.
THEOREM Invariance == Spec => []IInv
<1>1. Init => IInv
  BY InvInit
<1>2. IInv /\ [Next]_vars => IInv'
  <2> SUFFICES ASSUME IInv, [Next]_vars PROVE IInv'
    OBVIOUS
  <2>1. TypedOK /\ PlacesOK /\ VersionsOK /\ PublishedOK /\ HandledOK /\ StatusOK
    BY DEF IInv
  <2>2. TypedOK'
    BY <2>1, TypedStep
  <2>3. Forward
    BY <2>1, ForwardStep
  <2>4. PlacesOK' /\ VersionsOK'
    BY <2>1, <2>2, <2>3, PlacesStep, VersionsStep
  <2>5. PublishedOK' /\ HandledOK' /\ StatusOK'
    BY <2>1, <2>2, <2>3, PublishedStep, HandledStep, StatusStep
  <2> QED
    BY <2>2, <2>4, <2>5 DEF IInv
<1> QED
  BY <1>1, <1>2, PTL DEF Spec

\* No handler takes a metadata back: its version never decreases, and a write that the
\* version does not show, that of overwriteDbObject, leaves the date of the publication,
\* and where no form is stale the error and the status, for those who hold the same
\* version of the document.
THEOREM NothingGoesBack == Spec => [][Forward]_vars
<1>1. IInv /\ [Next]_vars => Forward
  BY ForwardStep DEF IInv
<1> QED
  BY <1>1, Invariance, PTL DEF Spec

\* A metadata bears the date of a publication only where the handler of that report had
\* seen every send since (addOrEditSingleReport, mongoose's optimistic concurrency),
\* even where forms are stale.
THEOREM PublishesWhatItSees == Spec => []PublishedSeesSends
<1>1. IInv => PublishedSeesSends
  BY DEF IInv, PublishedOK, PublishedSeesSends
<1> QED
  BY <1>1, Invariance, PTL

\* A report that was answered without an error counts until the metadata is sent again,
\* where no form is stale (addOrEditSingleReport, setMetadataStatusToSent).
THEOREM ReportsCount == ASSUME "staleForm" \notin Faults PROVE Spec => []HandledReportsCount
<1>1. IInv => HandledReportsCount
  <2> SUFFICES ASSUME IInv, NEW s \in Sends, hpc[s] = "done", NoneSince(s)
               PROVE  LET d == doc[meta[s]]
                      IN  IF asked[s] = "KO" THEN d.status = "refused"
                          ELSE isPublished(d) /\ d.status \in {"published", "refused"}
    BY DEF HandledReportsCount
  <2>1. meta[s] \in Metas /\ doc[meta[s]] # Nil /\ asked[s] \in {"OK", "KO"}
    BY DEF IInv, PlacesOK, PlaceOK
  <2>2. /\ asked[s] = "OK" => isPublished(doc[meta[s]])
        /\ asked[s] = "KO" => doc[meta[s]].error # Nil
    BY DEF IInv, HandledOK
  <2>3. doc[meta[s]].status = reckonMetadataStatus(doc[meta[s]])
    BY <2>1 DEF IInv, StatusOK, StatusReckoned
  <2> QED
    BY <2>1, <2>2, <2>3 DEF reckonMetadataStatus, isPublished
<1> QED
  BY <1>1, Invariance, PTL

\* The status stored is the one reckoned from the flags stored, where no form is stale
\* (the hook of Metadata.js, on copies that handlers hold).
THEOREM StatusFollows == ASSUME "staleForm" \notin Faults PROVE Spec => []StatusReckoned
<1>1. IInv => StatusReckoned
  BY DEF IInv, StatusOK
<1> QED
  BY <1>1, Invariance, PTL

(***************************************************************************)
(* What the portal ends with.                                              *)
(***************************************************************************)

\* Before a send enters the waiting room, and while its entry may be asked about.
Early == {"idle", "form", "updated", "saved", "resaving", "reading", "checking"}
Late  == {"marking", "marked", "asking", "posting", "putting", "accepted", "dropping"}

sent(t) == json[t] # Nil
isAbout(s, t) == meta[s] = meta[t]

\* Two sends of a metadata do not run at a time.
AloneInv ==
    \A s, t \in Sends : s # t /\ isAbout(s, t) /\ pc[s] \notin Over => pc[t] \in Over

\* An edit that was not submitted is in no document, stored or sent.
FreshInv ==
    \A s \in Sends : pc[s] \in {"idle", "form"} =>
        /\ \A m \in Metas : doc[m] # Nil => doc[m].rev # s
        /\ \A t \in Sends : sent(t) => json[t].rev # s

\* What is sent, and when it is.
SentInv ==
    /\ \A s \in Sends : pc[s] \in Early => ~sent(s)
    /\ \A s \in Sends : pc[s] \in Late => sent(s)

\* What was sent is no later than what is stored, and from the first that has the
\* content that is stored, all have it.
DatesOK(t) ==
    LET d == doc[meta[t]]
    IN  /\ json[t].date <= d.date
        /\ json[t].date = d.date => json[t].rev = d.rev
        /\ \A u \in Sends :
              /\ sent(u) /\ isAbout(u, t)
              /\ json[t].rev = d.rev /\ json[t].date <= json[u].date
              => json[u].rev = d.rev

DatesInv == \A t \in Sends : sent(t) => DatesOK(t)

\* What is about to be sent is no earlier than what was.
ReadOK(s) ==
    LET d == doc[meta[s]]
    IN  /\ copy[s].rev = d.rev /\ copy[s].date <= d.date
        /\ \A t \in Sends : sent(t) /\ isAbout(s, t) =>
              /\ json[t].date <= copy[s].date
              /\ json[t].date = copy[s].date => json[t].rev = d.rev

ReadInv == \A s \in Sends : pc[s] = "checking" => ReadOK(s)

\* A send that runs is about the last content that was sent.
NewestInv ==
    \A s, t \in Sends :
        pc[s] \notin Over /\ sent(s) /\ sent(t) /\ isAbout(s, t) => json[t].date <= json[s].date

\* The portal has what a send was about, as recent as what it integrated or found no
\* need to ask for; what it is still to integrate is not older.
isServed(s) == portal[meta[s]] # Nil /\ json[s].date <= portal[meta[s]].date

PortalOK(s) ==
    /\ asked[s] = "accepted" =>
          /\ sent(s)
          /\ portal[meta[s]] # Nil => portal[meta[s]].date <= json[s].date
    /\ asked[s] = "OK" \/ pc[s] = "dropping" \/ (pc[s] = "done" /\ sent(s) /\ asked[s] = "none") =>
          sent(s) /\ isServed(s)
    /\ pc[s] = "accepted" => asked[s] # "none"

PortalInv ==
    /\ \A m \in Metas : portal[m] # Nil =>
          \E t \in Sends : meta[t] = m /\ sent(t) /\ portal[m] = json[t]
    /\ \A s \in Sends : PortalOK(s)

LatestInv ==
    AloneInv /\ FreshInv /\ SentInv /\ DatesInv /\ ReadInv /\ NewestInv /\ PortalInv

\* A step that sends nothing, asks nothing and leaves the content of the documents.
DocsKept ==
    \A m \in Metas : doc[m] # Nil =>
        doc'[m] # Nil /\ doc'[m].rev = doc[m].rev /\ doc[m].date <= doc'[m].date

Steady(s) ==
    /\ UNCHANGED <<meta, json, portal, asked>> /\ DocsKept
    /\ \A m \in Metas : doc[m] = Nil => doc'[m] = Nil
    /\ \A t \in Sends : t # s => pc'[t] = pc[t] /\ copy'[t] = copy[t]
    /\ \/ pc'[s] = pc[s] /\ (pc[s] = "checking" => copy'[s] = copy[s])
       \/ /\ pc[s] \notin Over /\ pc'[s] \notin {"idle", "form"}
          /\ pc'[s] \in Early => pc[s] \in Early
          /\ pc'[s] \in Late => pc[s] \in Late
          /\ pc'[s] = "checking" => copy'[s] = doc[meta[s]] /\ doc' = doc
          /\ pc'[s] = "dropping" => isServed(s)
          /\ pc'[s] = "done" => ~sent(s) \/ asked[s] # "none" \/ pc[s] = "dropping"
          /\ pc'[s] # "accepted"

LEMMA JsonFields ==
    ASSUME TypedOK, NEW t \in Sends
    PROVE  json[t] # Nil => json[t].date \in Nat /\ json[t].rev \in Sends \cup {Nil}
BY DEF TypedOK, Json

\* Where a document is, and its date.
LEMMA DocKnown ==
    ASSUME TypedOK, PlacesOK, SentInv, NEW s \in Sends
    PROVE  /\ pc[s] # "idle" => /\ meta[s] \in Metas /\ doc[meta[s]] # Nil
                                /\ doc[meta[s]] \in Doc /\ doc[meta[s]].date \in Nat
           /\ sent(s) => pc[s] # "idle" /\ json[s].date \in Nat
           /\ pc[s] = "checking" => copy[s] \in Doc /\ copy[s].date \in Nat
<1>1. pc[s] # "idle" => meta[s] \in Metas /\ doc[meta[s]] # Nil
  BY DEF PlacesOK, PlaceOK
<1>2. pc[s] # "idle" => doc[meta[s]] \in Doc /\ doc[meta[s]].date \in Nat
  BY <1>1, DocFields DEF TypedOK
<1>3. sent(s) => pc[s] # "idle" /\ json[s].date \in Nat
  BY JsonFields DEF SentInv, Early, sent
<1>4. pc[s] = "checking" => copy[s] \in Doc
  BY DEF TypedOK, PlacesOK, PlaceOK, Holding
<1> QED
  BY <1>1, <1>2, <1>3, <1>4, DocFields

LEMMA SteadyStep ==
    ASSUME TypedOK, TypedOK', PlacesOK, LatestInv, NEW s \in Sends, Steady(s)
    PROVE  LatestInv'
<1> USE DEF LatestInv
<1>1. AloneInv'
  BY DEF AloneInv, Steady, isAbout
<1>2. FreshInv'
  <2>1. ASSUME NEW t \in Sends, pc'[t] \in {"idle", "form"} PROVE pc[t] \in {"idle", "form"}
    BY <2>1 DEF Steady
  <2>2. ASSUME NEW t \in Sends, pc'[t] \in {"idle", "form"}, NEW m \in Metas, doc'[m] # Nil
        PROVE  doc'[m].rev # t
    BY <2>1, <2>2 DEF FreshInv, Steady, DocsKept
  <2> QED
    BY <2>1, <2>2 DEF FreshInv, Steady, sent
<1>3. SentInv'
  BY DEF SentInv, Steady, sent
<1>4. ASSUME NEW t \in Sends, sent(t)
      PROVE  /\ doc[meta[t]] # Nil /\ meta[t] \in Metas /\ doc[meta[t]].date \in Nat
             /\ doc'[meta[t]].rev = doc[meta[t]].rev /\ doc'[meta[t]].date \in Nat
             /\ doc[meta[t]].date <= doc'[meta[t]].date
             /\ json[t].date \in Nat
  <2>1. pc[t] # "idle" /\ json[t].date \in Nat
    BY <1>4, DocKnown
  <2>2. meta[t] \in Metas /\ doc[meta[t]] # Nil /\ doc[meta[t]].date \in Nat
    BY <2>1, DocKnown
  <2>3. doc'[meta[t]] \in Doc
    BY <2>2 DEF TypedOK, Steady, DocsKept
  <2> QED
    BY <2>1, <2>2, <2>3, DocFields DEF Steady, DocsKept
<1>5. DatesInv'
  <2>1. ASSUME NEW t \in Sends, sent(t) PROVE DatesOK(t)'
    <3>1. DatesOK(t)
      BY <2>1 DEF DatesInv
    <3>2. UNCHANGED <<meta, json>>
      BY DEF Steady
    <3> QED
      BY <1>4, <2>1, <3>1, <3>2 DEF DatesOK, sent, isAbout
  <2> QED
    BY <2>1 DEF DatesInv, Steady, sent
<1>6. ReadInv'
  <2>1. ASSUME NEW t \in Sends, pc'[t] = "checking" PROVE ReadOK(t)'
    <3>1. UNCHANGED <<meta, json>>
      BY DEF Steady
    <3>2. CASE pc[t] = "checking" /\ copy'[t] = copy[t]
      <4>1. ReadOK(t)
        BY <3>2 DEF ReadInv
      <4>2. /\ meta[t] \in Metas /\ doc[meta[t]] # Nil /\ doc[meta[t]].date \in Nat
            /\ copy[t].date \in Nat
        BY <3>2, DocKnown
      <4>3. /\ doc'[meta[t]].rev = doc[meta[t]].rev /\ doc'[meta[t]].date \in Nat
            /\ doc[meta[t]].date <= doc'[meta[t]].date
        <5>1. doc'[meta[t]] \in Doc
          BY <4>2 DEF TypedOK, Steady, DocsKept
        <5> QED
          BY <4>2, <5>1, DocFields DEF Steady, DocsKept
      <4>4. copy'[t].rev = doc'[meta[t]].rev /\ copy'[t].date <= doc'[meta[t]].date
        BY <3>2, <4>1, <4>2, <4>3 DEF ReadOK
      <4> QED
        BY <3>1, <3>2, <4>1, <4>3, <4>4 DEF ReadOK, sent, isAbout
    <3>3. CASE t = s /\ copy'[s] = doc[meta[s]] /\ doc' = doc /\ pc[s] \notin Over
      <4>1. doc[meta[s]].date \in Nat
        BY <3>3, DocKnown DEF Over
      <4>2. \A u \in Sends : sent(u) => DatesOK(u)
        BY DEF DatesInv
      <4> QED
        BY <3>1, <3>3, <4>1, <4>2 DEF ReadOK, DatesOK, sent, isAbout
    <3> QED
      BY <2>1, <3>2, <3>3 DEF Steady
  <2> QED
    BY <2>1 DEF ReadInv
<1>7. NewestInv'
  BY DEF NewestInv, Steady, sent, isAbout
<1>8. PortalInv'
  <2>1. ASSUME NEW t \in Sends PROVE PortalOK(t)'
    <3>1. PortalOK(t)
      BY DEF PortalInv
    <3>2. UNCHANGED <<meta, json, portal, asked>>
      BY DEF Steady
    <3>3. CASE pc'[t] = pc[t]
      BY <3>1, <3>2, <3>3 DEF PortalOK, sent, isServed
    <3>4. CASE t = s /\ pc'[s] # pc[s]
      <4>1. /\ pc'[s] = "dropping" => sent(s) /\ isServed(s)
            /\ pc'[s] = "done" /\ sent(s) /\ asked[s] = "none" => isServed(s)
            /\ pc'[s] # "accepted"
        BY <3>1, <3>4 DEF Steady, SentInv, Late, PortalOK
      <4> QED
        BY <3>1, <3>2, <3>4, <4>1 DEF PortalOK, sent, isServed
    <3> QED
      BY <3>3, <3>4 DEF Steady
  <2> QED
    BY <2>1 DEF PortalInv, Steady, sent
<1> QED
  BY <1>1, <1>2, <1>3, <1>5, <1>6, <1>7, <1>8

\* The contents and the dates that a save and a form leave.
LEMMA SavedDate ==
    ASSUME NEW d \in Doc, NEW c, NEW n
    PROVE  Saved(d, c, n).rev = d.rev /\ Saved(d, c, n).date \in {d.date, d.date + 1}
<1> DEFINE status == reckonMetadataStatus(n)
           v == IF n # c \/ status # c.status THEN d.v + 1 ELSE d.v
           date == IF n # c THEN d.date + 1 ELSE d.date
           published == IF n.published # c.published THEN n.published ELSE d.published
           error == IF n.error # c.error THEN n.error ELSE d.error
           shown == IF status # c.status THEN status ELSE d.status
<1>1. Saved(d, c, n) = [d EXCEPT !.v = v, !.date = date, !.published = published,
                                   !.error = error, !.status = shown]
  BY DEF Saved
<1>2. date \in {d.date, d.date + 1}
  OBVIOUS
<1> HIDE DEF v, date, published, error, shown, status
<1> QED
  BY <1>1, <1>2 DEF Doc

LEMMA OverwrittenDate ==
    ASSUME NEW s \in Sends, NEW d \in Doc, NEW form
    PROVE  Overwritten(s, d, form).rev = s /\ Overwritten(s, d, form).date = d.date + 1
<1> DEFINE error == IF form.published = "never" THEN d.error ELSE form.error
<1>1. Overwritten(s, d, form) = [d EXCEPT !.rev = s, !.date = d.date + 1, !.error = error,
                                         !.status = form.status]
  BY DEF Overwritten
<1> HIDE DEF error
<1> QED
  BY <1>1 DEF Doc

\* A save leaves the contents.
LEMMA SavingKeeps ==
    ASSUME TypedOK, NEW s \in Sends, meta[s] \in Metas, doc[meta[s]] # Nil,
           NEW c, NEW n, Saving(s, c, n)
    PROVE  DocsKept /\ \A m \in Metas : doc[m] = Nil => doc'[m] = Nil
<1>1. /\ doc' = [doc EXCEPT ![meta[s]] = Saved(@, c, n)]
      /\ doc[meta[s]] \in Doc
      /\ \A k \in Metas : k # meta[s] => doc'[k] = doc[k]
      /\ doc'[meta[s]] # Nil
  BY SavingDoes DEF Saving, TypedOK
<1>2. doc'[meta[s]] = Saved(doc[meta[s]], c, n)
  BY <1>1 DEF TypedOK
<1>3. /\ doc'[meta[s]].rev = doc[meta[s]].rev
      /\ doc'[meta[s]].date \in {doc[meta[s]].date, doc[meta[s]].date + 1}
      /\ doc[meta[s]].date \in Nat
  BY <1>1, <1>2, SavedDate, DocFields
<1>4. \A m \in Metas : doc[m] # Nil => doc[m].date \in Nat
  BY DocFields DEF TypedOK
<1> QED
  BY <1>1, <1>3, <1>4 DEF DocsKept

LEMMA SameDocs ==
    ASSUME TypedOK, UNCHANGED doc
    PROVE  DocsKept /\ \A m \in Metas : doc[m] = Nil => doc'[m] = Nil
<1>1. \A m \in Metas : doc[m] # Nil => doc[m].date \in Nat
  BY DocFields DEF TypedOK
<1> QED
  BY <1>1 DEF DocsKept

\* Most steps of a send, and those of the handler of its report.
LEMMA SteadySend ==
    ASSUME TypedOK, PlacesOK, VersionsOK, LatestInv, NEW s \in Sends,
           \/ SaveUpdated(s) \/ ReadState(s) \/ Resave(s) \/ EditFails(s)
           \/ ReadMetadata(s) \/ (Enlist(s) /\ UNCHANGED json) \/ Mark(s) \/ MarkFails(s)
           \/ TakeEntry(s) \/ Get(s) \/ NoToken(s) \/ Drop(s) \/ Accepted(s)
           \/ ReadForFlag(s) \/ FlagError(s) \/ FlagFails(s) \/ PortalRefuses(s)
           \/ Reporting(s)
    PROVE  Steady(s)
<1> USE DEF Steady, goto, end, report, Over, Early, Late, TypedOK
<1>1. pc[s] # "idle" => meta[s] \in Metas /\ doc[meta[s]] # Nil
  BY DEF PlacesOK, PlaceOK
<1>2. /\ SaveUpdated(s) \/ Resave(s) \/ Mark(s) \/ FlagError(s) => pc[s] # "idle"
      /\ ReportSaves(s) => pc[s] # "idle"
  BY DEF SaveUpdated, Resave, Mark, FlagError, ReportSaves, PlacesOK, PlaceOK
<1>3. SaveUpdated(s) \/ Resave(s) \/ Mark(s) \/ FlagError(s) \/ ReportSaves(s) =>
         DocsKept /\ \A m \in Metas : doc[m] = Nil => doc'[m] = Nil
  BY <1>1, <1>2, Savings, SavingKeeps
<1>4. UNCHANGED doc => DocsKept /\ \A m \in Metas : doc[m] = Nil => doc'[m] = Nil
  BY SameDocs
<1>5. CASE SaveUpdated(s)
  BY <1>3, <1>5 DEF SaveUpdated
<1>6. CASE Resave(s)
  BY <1>3, <1>6 DEF Resave
<1>7. CASE Mark(s)
  BY <1>3, <1>7 DEF Mark
<1>8. CASE FlagError(s)
  BY <1>3, <1>8 DEF FlagError
<1>9. CASE ReportSaves(s)
  BY <1>3, <1>9 DEF ReportSaves, local
<1>10. CASE ReadState(s)
  BY <1>4, <1>10 DEF ReadState
<1>11. CASE ReadMetadata(s)
  BY <1>4, <1>11 DEF ReadMetadata
<1>12. CASE Drop(s)
  BY <1>4, <1>12 DEF Drop
<1>13. CASE ReadForFlag(s)
  BY <1>4, <1>13 DEF ReadForFlag
<1>14. CASE TakeEntry(s)
  BY <1>4, <1>14 DEF TakeEntry
<1>15. CASE NoToken(s)
  BY <1>4, <1>15 DEF NoToken
<1>16. CASE PortalRefuses(s)
  BY <1>4, <1>16 DEF PortalRefuses
<1>17. CASE EditFails(s)
  BY <1>4, <1>17 DEF EditFails, VersionError
<1>18. CASE MarkFails(s)
  BY <1>4, <1>18 DEF MarkFails, VersionError
<1>19. CASE FlagFails(s)
  BY <1>4, <1>19 DEF FlagFails, VersionError
<1>20. CASE Accepted(s)
  BY <1>4, <1>20 DEF Accepted, LatestInv, PortalInv, PortalOK
<1>21. CASE Enlist(s) /\ UNCHANGED json
  <2>1. ~sent(s)
    BY <1>21 DEF Enlist, LatestInv, SentInv
  <2>2. pc' = [pc EXCEPT ![s] = "done"] /\ UNCHANGED <<doc, portal, meta, asked>>
    <3>1. isAlreadyWaiting(s)
      <4>1. ASSUME enter(s) PROVE json'[s] # Nil
        <5>1. json'[s] = [rev |-> copy[s].rev, date |-> copy[s].date]
          BY <4>1 DEF enter
        <5>2. copy[s] \in Doc
          BY <1>21, DocKnown DEF Enlist, LatestInv
        <5> QED
          BY <5>1, <5>2, DocFields, NoNil DEF Json
      <4> QED
        BY <1>21, <2>1, <4>1 DEF Enlist, sent
    <3> QED
      BY <1>21, <3>1 DEF Enlist
  <2>3. copy' = [copy EXCEPT ![s] = Nil]
    BY <1>21, <2>1, <2>2 DEF Enlist
  <2> QED
    BY <1>4, <1>21, <2>1, <2>2, <2>3 DEF Enlist
<1>22. CASE Get(s)
  <2>1. UNCHANGED <<doc, meta, json, portal, asked, copy>> /\ pc[s] = "asking"
    BY <1>22 DEF Get
  <2>2. \/ pc' = [pc EXCEPT ![s] = "posting"]
        \/ pc' = [pc EXCEPT ![s] = "putting"]
        \/ pc' = [pc EXCEPT ![s] = "dropping"] /\ isServed(s)
    <3>1. sent(s) /\ json[s].date \in Nat /\ meta[s] \in Metas
      BY <2>1, DocKnown DEF LatestInv, SentInv
    <3>2. portal[meta[s]] # Nil => portal[meta[s]].date \in Nat
      BY <3>1 DEF Json
    <3>3. \/ goto(s, "posting")
         \/ /\ portal[meta[s]] # Nil
            /\ goto(s, IF portal[meta[s]].date < json[s].date THEN "putting" ELSE "dropping")
      BY <1>22 DEF Get
    <3>4. portal[meta[s]] # Nil /\ ~(portal[meta[s]].date < json[s].date) => isServed(s)
      BY <3>1, <3>2 DEF isServed
    <3>5. CASE goto(s, "posting")
      BY <3>5
    <3>6. CASE portal[meta[s]].date < json[s].date /\ goto(s, "putting")
      BY <3>6
    <3>7. CASE isServed(s) /\ goto(s, "dropping")
      BY <3>7
    <3> QED
      BY <3>3, <3>4, <3>5, <3>6, <3>7
  <2> QED
    BY <1>4, <2>1, <2>2
<1>23. CASE ReportArrives(s)
  BY <1>4, <1>23 DEF ReportArrives, local
<1>24. CASE ReportReads(s)
  BY <1>4, <1>24 DEF ReportReads, local
<1>25. CASE ReportFails(s)
  BY <1>4, <1>25 DEF ReportFails, local
<1>26. CASE ReportRetried(s)
  BY <1>4, <1>26 DEF ReportRetried, local
<1> QED
  BY <1>5, <1>6, <1>7, <1>8, <1>9, <1>10, <1>11, <1>12, <1>13, <1>14, <1>15, <1>16, <1>17, <1>18,
     <1>19, <1>20, <1>21, <1>22, <1>23, <1>24, <1>25, <1>26
     DEF Reporting

\* What starts or submits a form waits until nobody works on the metadata.
LEMMA AloneStarts ==
    ASSUME "overlap" \notin Faults, NEW s \in Sends, NEW m,
           (pc[s] = "form" /\ meta[s] = m /\ SubmitForm(s)) \/ MayStart(s, m)
    PROVE  \A t \in Sends : meta[t] = m => pc[t] \in Over
BY DEF SubmitForm, MayStart, Settled, SendsOf

LEMMA StartStep ==
    ASSUME "overlap" \notin Faults, TypedOK, PlacesOK, LatestInv, NEW s \in Sends, NEW m \in Metas,
           newMetadata(s, m) \/ Open(s, m) \/ sendMany(s, m)
    PROVE  LatestInv'
<1> USE DEF LatestInv
<1>1. /\ pc[s] = "idle" /\ MayStart(s, m) /\ ~sent(s) /\ asked[s] = "none"
      /\ UNCHANGED <<json, portal, asked>>
      /\ meta' = [meta EXCEPT ![s] = m]
      /\ pc' = [pc EXCEPT ![s] = pc'[s]] /\ pc'[s] \in {"saved", "form", "reading"}
      /\ \A t \in Sends : t # s => copy'[t] = copy[t]
      /\ \/ doc' = doc
         \/ doc[m] = Nil /\ doc' = [doc EXCEPT ![m] = Created(s)] /\ pc'[s] = "saved"
  <2>1. pc[s] = "idle" /\ MayStart(s, m)
    BY DEF newMetadata, Open, sendMany, MayStart
  <2>2. ~sent(s) /\ asked[s] = "none"
    BY <2>1 DEF SentInv, Early, PlacesOK, PlaceOK
  <2> QED
    BY <2>1, <2>2 DEF newMetadata, Open, sendMany, MayStart, goto, TypedOK, report
<1>2. /\ \A t \in Sends : t # s => meta'[t] = meta[t] /\ pc'[t] = pc[t]
      /\ meta'[s] = m
  BY <1>1 DEF TypedOK
<1>3. \A t \in Sends : t # s /\ sent(t) => meta[t] \in Metas /\ doc'[meta[t]] = doc[meta[t]]
  <2>1. \A t \in Sends : sent(t) => meta[t] \in Metas /\ doc[meta[t]] # Nil
    BY DocKnown
  <2> QED
    BY <1>1, <2>1 DEF TypedOK
<1>4. AloneInv'
  <2>1. \A t \in Sends : meta[t] = m => pc[t] \in Over
    BY <1>1, AloneStarts
  <2> QED
    BY <1>1, <1>2, <2>1 DEF AloneInv, isAbout
<1>5. FreshInv'
  <2>1. ASSUME NEW t \in Sends, pc'[t] \in {"idle", "form"}, NEW k \in Metas, doc'[k] # Nil
        PROVE  doc'[k].rev # t
    <3>1. pc[t] \in {"idle", "form"}
      BY <1>1, <1>2, <2>1
    <3>2. CASE doc' = doc
      BY <2>1, <3>1, <3>2 DEF FreshInv
    <3>3. CASE doc' = [doc EXCEPT ![m] = Created(s)] /\ pc'[s] = "saved"
      <4>1. t # s /\ Created(s).rev = s
        BY <2>1, <3>3 DEF Created
      <4> QED
        BY <2>1, <3>1, <3>3, <4>1 DEF FreshInv, TypedOK
    <3> QED
      BY <1>1, <3>2, <3>3
  <2>2. ASSUME NEW t \in Sends, pc'[t] \in {"idle", "form"} PROVE pc[t] \in {"idle", "form"}
    BY <1>1, <1>2, <2>2
  <2> QED
    BY <1>1, <2>1, <2>2 DEF FreshInv, sent
<1>6. SentInv'
  BY <1>1, <1>2 DEF SentInv, sent, Early, Late
<1>7. DatesInv'
  <2>1. ASSUME NEW t \in Sends, sent(t) PROVE DatesOK(t)'
    <3>1. t # s /\ DatesOK(t)
      BY <1>1, <2>1 DEF DatesInv
    <3> QED
      BY <1>1, <1>2, <1>3, <2>1, <3>1 DEF DatesOK, sent, isAbout
  <2> QED
    BY <1>1, <2>1 DEF DatesInv, sent
<1>8. ReadInv'
  <2>1. ASSUME NEW t \in Sends, pc'[t] = "checking" PROVE ReadOK(t)'
    <3>1. t # s /\ pc[t] = "checking" /\ ReadOK(t)
      BY <1>1, <1>2, <2>1 DEF ReadInv
    <3>2. doc'[meta[t]] = doc[meta[t]]
      <4>1. meta[t] \in Metas /\ doc[meta[t]] # Nil
        BY <3>1, DocKnown
      <4> QED
        BY <1>1, <4>1 DEF TypedOK
    <3> QED
      BY <1>1, <1>2, <3>1, <3>2 DEF ReadOK, sent, isAbout
  <2> QED
    BY <2>1 DEF ReadInv
<1>9. NewestInv'
  BY <1>1, <1>2 DEF NewestInv, sent, isAbout
<1>10. PortalInv'
  <2>1. ASSUME NEW t \in Sends PROVE PortalOK(t)'
    <3>1. PortalOK(t)
      BY DEF PortalInv
    <3>2. CASE t # s
      BY <1>1, <1>2, <3>1, <3>2 DEF PortalOK, sent, isServed
    <3>3. CASE t = s
      BY <1>1, <3>3 DEF PortalOK
    <3> QED
      BY <3>2, <3>3
  <2>2. ASSUME NEW k \in Metas, portal'[k] # Nil
        PROVE  \E t \in Sends : meta'[t] = k /\ sent(t)' /\ portal'[k] = json'[t]
    <3>1. PICK t \in Sends : meta[t] = k /\ sent(t) /\ portal[k] = json[t]
      BY <1>1, <2>2 DEF PortalInv
    <3> QED
      BY <1>1, <1>2, <3>1 DEF sent
  <2> QED
    BY <2>1, <2>2 DEF PortalInv
<1> QED
  BY <1>4, <1>5, <1>6, <1>7, <1>8, <1>9, <1>10

LEMMA SubmitStep ==
    ASSUME "overlap" \notin Faults, TypedOK, PlacesOK, LatestInv, NEW s \in Sends, SubmitForm(s)
    PROVE  LatestInv'
<1> DEFINE m == meta[s]
<1> USE DEF LatestInv
<1>1. /\ pc[s] = "form" /\ ~sent(s) /\ asked[s] = "none"
      /\ UNCHANGED <<json, portal, asked, meta>>
      /\ pc' = [pc EXCEPT ![s] = "updated"]
      /\ \A t \in Sends : t # s => copy'[t] = copy[t]
      /\ doc' = [doc EXCEPT ![m] = Overwritten(s, doc[m], copy[s])]
      /\ m \in Metas /\ doc[m] \in Doc
  <2>1. pc[s] = "form"
    BY DEF SubmitForm
  <2>2. ~sent(s) /\ asked[s] = "none" /\ m \in Metas /\ doc[m] # Nil
    BY <2>1 DEF SentInv, Early, PlacesOK, PlaceOK, Before
  <2> QED
    BY <2>1, <2>2 DEF SubmitForm, goto, TypedOK, report
<1>2. /\ doc'[m].rev = s /\ doc'[m].date = doc[m].date + 1 /\ doc[m].date \in Nat
      /\ \A k \in Metas : k # m => doc'[k] = doc[k]
  <2>1. doc'[m] = Overwritten(s, doc[m], copy[s])
    BY <1>1 DEF TypedOK
  <2> QED
    BY <1>1, <2>1, OverwrittenDate, DocFields DEF TypedOK
<1>3. \A t \in Sends : meta[t] = m => pc[t] \in Over
  BY <1>1, AloneStarts
<1>4. \A t \in Sends : t # s => pc'[t] = pc[t]
  BY <1>1 DEF TypedOK
<1>5. pc'[s] = "updated"
  BY <1>1 DEF TypedOK
<1> HIDE DEF m
<1>6. AloneInv'
  BY <1>1, <1>3, <1>4 DEF AloneInv, isAbout, m
<1>7. FreshInv'
  BY <1>1, <1>2, <1>4, <1>5 DEF FreshInv, sent
<1>8. SentInv'
  BY <1>1, <1>4, <1>5 DEF SentInv, sent, Early, Late
<1>9. DatesInv'
  <2>1. ASSUME NEW t \in Sends, sent(t) PROVE DatesOK(t)'
    <3>1. DatesOK(t) /\ meta[t] \in Metas /\ json[t].date \in Nat
      BY <2>1, DocKnown DEF DatesInv
    <3>2. CASE meta[t] # m
      BY <1>1, <1>2, <3>1, <3>2 DEF DatesOK, sent, isAbout
    <3>3. CASE meta[t] = m
      <4>1. json[t].date <= doc[m].date /\ json[t].rev # s
        BY <1>1, <2>1, <3>1, <3>3 DEF DatesOK, FreshInv
      <4> QED
        BY <1>1, <1>2, <3>1, <3>3, <4>1 DEF DatesOK
    <3> QED
      BY <3>2, <3>3
  <2> QED
    BY <1>1, <2>1 DEF DatesInv, sent
<1>10. ReadInv'
  <2>1. ASSUME NEW t \in Sends, pc'[t] = "checking" PROVE ReadOK(t)'
    <3>1. t # s /\ pc[t] = "checking" /\ ReadOK(t)
      BY <1>4, <1>5, <2>1 DEF ReadInv
    <3>2. meta[t] # m /\ meta[t] \in Metas
      BY <1>3, <3>1, DocKnown DEF Over
    <3> QED
      BY <1>1, <1>2, <3>1, <3>2 DEF ReadOK, sent, isAbout
  <2> QED
    BY <2>1 DEF ReadInv
<1>11. NewestInv'
  BY <1>1, <1>4 DEF NewestInv, sent, isAbout
<1>12. PortalInv'
  <2>1. ASSUME NEW t \in Sends PROVE PortalOK(t)'
    <3>1. PortalOK(t)
      BY DEF PortalInv
    <3> QED
      BY <1>1, <1>4, <1>5, <3>1 DEF PortalOK, sent, isServed
  <2> QED
    BY <1>1, <2>1 DEF PortalInv, sent
<1> QED
  BY <1>6, <1>7, <1>8, <1>9, <1>10, <1>11, <1>12

\* A send enters the waiting room with what it read.
LEMMA EnlistStep ==
    ASSUME "overlap" \notin Faults, TypedOK, PlacesOK, LatestInv, NEW s \in Sends, Enlist(s),
           ~UNCHANGED json
    PROVE  LatestInv'
<1> DEFINE m == meta[s]
           d == doc[m]
<1> USE DEF LatestInv
<1>1. /\ pc[s] = "checking" /\ ~sent(s) /\ asked[s] = "none" /\ ReadOK(s)
      /\ UNCHANGED <<doc, portal, asked, meta, copy>>
      /\ pc' = [pc EXCEPT ![s] = "marking"]
      /\ json' = [json EXCEPT ![s] = [rev |-> copy[s].rev, date |-> copy[s].date]]
  <2>1. pc[s] = "checking" /\ enter(s)
    BY DEF Enlist
  <2>2. ~sent(s) /\ asked[s] = "none" /\ ReadOK(s)
    BY <2>1 DEF SentInv, Early, PlacesOK, PlaceOK, Before, ReadInv
  <2> QED
    BY <2>1, <2>2 DEF Enlist, enter, goto, TypedOK
<1>2. /\ m \in Metas /\ d # Nil /\ d \in Doc /\ d.date \in Nat
      /\ copy[s] \in Doc /\ copy[s].date \in Nat
  BY <1>1, DocKnown
<1>3. /\ sent(s)' /\ json'[s].rev = d.rev /\ json'[s].date = copy[s].date
  <2>1. json'[s] = [rev |-> copy[s].rev, date |-> copy[s].date]
    BY <1>1 DEF TypedOK
  <2>2. json'[s] \in Json
    BY <1>2, <2>1, DocFields DEF Json
  <2> QED
    BY <1>1, <2>1, <2>2, NoNil DEF sent, ReadOK
<1>4. \A t \in Sends : t # s => json'[t] = json[t] /\ pc'[t] = pc[t] /\ (sent(t)' <=> sent(t))
  BY <1>1 DEF TypedOK, sent
<1>5. pc'[s] = "marking"
  BY <1>1 DEF TypedOK
<1>6. \A t \in Sends : t # s /\ isAbout(s, t) => pc[t] \in Over
  BY <1>1 DEF AloneInv, Over
<1>7. \A t \in Sends : sent(t) /\ isAbout(s, t) =>
         /\ json[t].date \in Nat /\ json[t].date <= copy[s].date
         /\ json[t].date = copy[s].date => json[t].rev = d.rev
  BY <1>1, DocKnown DEF ReadOK
<1> HIDE DEF d
<1>8. AloneInv'
  BY <1>1, <1>4, <1>5, <1>6 DEF AloneInv, isAbout
<1>9. FreshInv'
  BY <1>1, <1>2, <1>3, <1>4, <1>5 DEF FreshInv, d
<1>10. SentInv'
  BY <1>3, <1>4, <1>5 DEF SentInv, Early, Late
<1>11. DatesInv'
  <2>1. ASSUME NEW t \in Sends, sent(t)' PROVE DatesOK(t)'
    <3>1. CASE t = s
      <4>1. json'[s].date <= d.date
        BY <1>1, <1>3 DEF ReadOK, d
      <4>2. ASSUME NEW u \in Sends, sent(u)', isAbout(u, s), json'[s].date <= json'[u].date
            PROVE  json'[u].rev = d.rev
        <5>1. CASE u = s
          BY <1>3, <5>1
        <5>2. CASE u # s
          <6>1. sent(u) /\ isAbout(s, u) /\ json'[u] = json[u]
            BY <1>4, <4>2, <5>2 DEF isAbout
          <6> QED
            BY <1>2, <1>3, <1>7, <4>2, <6>1
        <5> QED
          BY <5>1, <5>2
      <4> QED
        BY <1>1, <1>3, <3>1, <4>1, <4>2 DEF DatesOK, isAbout, d
    <3>2. CASE t # s
      <4>1. sent(t) /\ json'[t] = json[t] /\ DatesOK(t)
        BY <1>4, <2>1, <3>2 DEF DatesInv
      <4>2. ASSUME NEW u \in Sends, sent(u)', isAbout(u, t), json[t].rev = doc[meta[t]].rev,
                   json[t].date <= json'[u].date
            PROVE  json'[u].rev = doc[meta[t]].rev
        <5>1. CASE u = s
          BY <1>3, <4>2, <5>1 DEF isAbout, d
        <5>2. CASE u # s
          BY <1>4, <4>1, <4>2, <5>2 DEF DatesOK
        <5> QED
          BY <5>1, <5>2
      <4> QED
        BY <1>1, <4>1, <4>2 DEF DatesOK, isAbout
    <3> QED
      BY <3>1, <3>2
  <2> QED
    BY <2>1 DEF DatesInv
<1>12. ReadInv'
  <2>1. ASSUME NEW t \in Sends, pc'[t] = "checking" PROVE ReadOK(t)'
    <3>1. t # s /\ pc[t] = "checking" /\ ReadOK(t)
      BY <1>4, <1>5, <2>1 DEF ReadInv
    <3>2. ~isAbout(s, t) /\ ~isAbout(t, s)
      BY <1>6, <3>1 DEF Over, isAbout
    <3> QED
      BY <1>1, <1>4, <3>1, <3>2 DEF ReadOK, isAbout
  <2> QED
    BY <2>1 DEF ReadInv
<1>13. NewestInv'
  <2>1. ASSUME NEW t \in Sends, NEW u \in Sends, pc'[t] \notin Over, sent(t)', sent(u)',
               isAbout(t, u)
        PROVE  json'[u].date <= json'[t].date
    <3>1. CASE t = s /\ u = s
      BY <1>2, <1>3, <3>1
    <3>2. CASE t = s /\ u # s
      BY <1>3, <1>4, <1>7, <2>1, <3>2
    <3>3. CASE t # s
      <4>1. pc[t] \notin Over /\ u # s
        BY <1>4, <1>6, <2>1, <3>3 DEF isAbout
      <4> QED
        BY <1>4, <2>1, <3>3, <4>1 DEF NewestInv
    <3> QED
      BY <3>1, <3>2, <3>3
  <2> QED
    BY <1>1, <2>1 DEF NewestInv, isAbout
<1>14. PortalInv'
  <2>1. ASSUME NEW t \in Sends PROVE PortalOK(t)'
    <3>1. PortalOK(t)
      BY DEF PortalInv
    <3>2. CASE t = s
      BY <1>1, <1>5, <3>2 DEF PortalOK
    <3>3. CASE t # s
      BY <1>1, <1>4, <3>1, <3>3 DEF PortalOK, isServed
    <3> QED
      BY <3>2, <3>3
  <2>2. ASSUME NEW k \in Metas, portal'[k] # Nil
        PROVE  \E t \in Sends : meta'[t] = k /\ sent(t)' /\ portal'[k] = json'[t]
    <3>1. PICK t \in Sends : meta[t] = k /\ sent(t) /\ portal[k] = json[t]
      BY <1>1, <2>2 DEF PortalInv
    <3> QED
      BY <1>1, <1>4, <3>1
  <2> QED
    BY <2>1, <2>2 DEF PortalInv
<1> QED
  BY <1>8, <1>9, <1>10, <1>11, <1>12, <1>13, <1>14

\* The portal accepts what is the newest, and integrates the older first.
LEMMA PortalStep ==
    ASSUME TypedOK, TypedOK', PlacesOK, LatestInv, NEW s \in Sends, PortalAccepts(s) \/ Integrate(s)
    PROVE  LatestInv'
<1> USE DEF LatestInv
<1>1. /\ UNCHANGED <<doc, meta, copy, json>>
      /\ asked' = [asked EXCEPT ![s] = asked'[s]]
      /\ \A t \in Sends : t # s => pc'[t] = pc[t] /\ asked'[t] = asked[t]
      /\ sent(s) /\ meta[s] \in Metas /\ json[s].date \in Nat
      /\ \/ pc' = pc
         \/ pc[s] \in {"posting", "putting"} /\ pc'[s] \in {"accepted", "failing"}
  <2>1. CASE PortalAccepts(s)
    <3>1. pc[s] \in {"posting", "putting"}
      BY <2>1 DEF PortalAccepts
    <3>2. sent(s) /\ meta[s] \in Metas
      BY <3>1, DocKnown DEF SentInv, Late
    <3> QED
      BY <2>1, <3>1, <3>2, DocKnown DEF PortalAccepts, goto, TypedOK
  <2>2. CASE Integrate(s)
    <3>1. sent(s)
      BY <2>2 DEF Integrate, PortalInv, PortalOK
    <3>2. meta[s] \in Metas
      BY <3>1, DocKnown
    <3> QED
      BY <2>2, <3>1, <3>2, DocKnown DEF Integrate, local, TypedOK
  <2> QED
    BY <2>1, <2>2
<1>2. AloneInv' /\ FreshInv' /\ SentInv' /\ ReadInv' /\ NewestInv'
  <2>1. AloneInv'
    BY <1>1 DEF AloneInv, Over, isAbout
  <2>2. FreshInv'
    BY <1>1 DEF FreshInv, sent
  <2>3. SentInv'
    BY <1>1 DEF SentInv, sent, Early, Late
  <2>4. ReadInv'
    BY <1>1 DEF ReadInv, ReadOK, sent, isAbout
  <2>5. NewestInv'
    BY <1>1 DEF NewestInv, sent, isAbout, Over
  <2> QED
    BY <2>1, <2>2, <2>3, <2>4, <2>5
<1>3. DatesInv'
  BY <1>1 DEF DatesInv, DatesOK, sent, isAbout
<1>4. \A m \in Metas : portal[m] # Nil => portal[m].date \in Nat
  BY DEF TypedOK, Json
<1>5. \A t \in Sends : sent(t) => json[t].date \in Nat /\ meta[t] \in Metas
  BY DocKnown
<1>6. CASE PortalAccepts(s)
  <2>1. pc[s] \notin Over /\ asked'[s] = "accepted" /\ UNCHANGED portal
        /\ pc'[s] \in {"accepted", "failing"}
    BY <1>6 DEF PortalAccepts, goto, Over, TypedOK
  <2>2. portal[meta[s]] # Nil => portal[meta[s]].date <= json[s].date
    <3>1. ASSUME portal[meta[s]] # Nil PROVE portal[meta[s]].date <= json[s].date
      <4>1. PICK t \in Sends : meta[t] = meta[s] /\ sent(t) /\ portal[meta[s]] = json[t]
        BY <1>1, <3>1 DEF PortalInv
      <4> QED
        BY <1>1, <2>1, <4>1 DEF NewestInv, isAbout
    <3> QED
      BY <3>1
  <2>3. ASSUME NEW t \in Sends PROVE PortalOK(t)'
    <3>1. PortalOK(t)
      BY DEF PortalInv
    <3>2. CASE t = s
      BY <1>1, <2>1, <2>2, <3>2 DEF PortalOK, sent
    <3>3. CASE t # s
      BY <1>1, <2>1, <3>1, <3>3 DEF PortalOK, sent, isServed
    <3> QED
      BY <3>2, <3>3
  <2> QED
    BY <1>1, <1>2, <1>3, <2>1, <2>3 DEF PortalInv, sent
<1>7. CASE Integrate(s) /\ UNCHANGED portal
  <2>1. pc' = pc /\ asked[s] = "accepted" /\ asked'[s] \in {"OK", "KO"}
    BY <1>7 DEF Integrate, local, TypedOK
  <2>2. asked'[s] = "OK" => isServed(s)
    BY <1>1, <1>7 DEF Integrate, isServed, TypedOK, sent
  <2>3. ASSUME NEW t \in Sends PROVE PortalOK(t)'
    <3>1. PortalOK(t)
      BY DEF PortalInv
    <3>2. CASE t = s
      BY <1>1, <1>7, <2>1, <2>2, <3>1, <3>2 DEF PortalOK, sent, isServed
    <3>3. CASE t # s
      BY <1>1, <1>7, <2>1, <3>1, <3>3 DEF PortalOK, sent, isServed
    <3> QED
      BY <3>2, <3>3
  <2> QED
    BY <1>1, <1>2, <1>3, <1>7, <2>3 DEF PortalInv, sent
<1>8. CASE Integrate(s) /\ ~UNCHANGED portal
  <2>1. /\ pc' = pc /\ asked[s] = "accepted" /\ asked'[s] = "OK"
        /\ portal' = [portal EXCEPT ![meta[s]] = json[s]]
        /\ \A t \in Sends : isAbout(t, s) /\ asked[t] = "accepted" => json[s].date <= json[t].date
    BY <1>8 DEF Integrate, local, SendsOf, isAbout, TypedOK
  <2>2. portal[meta[s]] # Nil => portal[meta[s]].date <= json[s].date
    BY <2>1 DEF PortalInv, PortalOK
  <2>3. portal'[meta[s]] = json[s] /\ \A k \in Metas : k # meta[s] => portal'[k] = portal[k]
    BY <1>1, <2>1 DEF TypedOK
  <2>4. ASSUME NEW t \in Sends PROVE PortalOK(t)'
    <3>1. PortalOK(t)
      BY DEF PortalInv
    <3>2. CASE sent(t) /\ ~isAbout(t, s)
      <4>1. portal'[meta[t]] = portal[meta[t]] /\ t # s
        BY <1>5, <2>3, <3>2 DEF isAbout
      <4> QED
        BY <1>1, <2>1, <3>1, <4>1 DEF PortalOK, sent, isServed
    <3>3. CASE sent(t) /\ isAbout(t, s)
      <4>1. portal'[meta[t]] = json[s] /\ json[s] # Nil
        BY <1>1, <2>3, <3>3 DEF isAbout, sent
      <4>2. isServed(t) => isServed(t)'
        BY <1>1, <1>4, <1>5, <2>2, <3>3, <4>1 DEF isServed, isAbout
      <4>3. CASE t = s
        BY <1>1, <2>1, <4>1, <4>3 DEF PortalOK, sent, isServed
      <4>4. CASE t # s
        BY <1>1, <2>1, <3>1, <3>3, <4>1, <4>2, <4>4 DEF PortalOK, sent
      <4> QED
        BY <4>3, <4>4
    <3>4. CASE ~sent(t)
      BY <1>1, <2>1, <3>1, <3>4 DEF PortalOK, sent
    <3> QED
      BY <3>2, <3>3, <3>4
  <2>5. ASSUME NEW k \in Metas, portal'[k] # Nil
        PROVE  \E t \in Sends : meta'[t] = k /\ sent(t)' /\ portal'[k] = json'[t]
    <3>1. CASE k = meta[s]
      BY <1>1, <2>3, <3>1 DEF sent
    <3>2. CASE k # meta[s]
      <4>1. PICK t \in Sends : meta[t] = k /\ sent(t) /\ portal[k] = json[t]
        BY <2>3, <2>5, <3>2 DEF PortalInv
      <4> QED
        BY <1>1, <2>3, <3>2, <4>1 DEF sent
    <3> QED
      BY <3>1, <3>2
  <2> QED
    BY <1>2, <1>3, <2>4, <2>5 DEF PortalInv
<1> QED
  BY <1>6, <1>7, <1>8

LEMMA LatestInit == Init => LatestInv
<1> SUFFICES ASSUME Init PROVE LatestInv
  OBVIOUS
<1>1. \A s \in Sends : pc[s] = "idle" /\ json[s] = Nil /\ asked[s] = "none"
  BY DEF Init
<1>2. \A m \in Metas : portal[m] = Nil /\ (doc[m] # Nil => doc[m].rev = Nil)
  BY DEF Init, Created
<1>3. FreshInv
  BY <1>1, <1>2, NoNil DEF FreshInv, sent
<1>4. AloneInv /\ SentInv /\ DatesInv /\ ReadInv /\ NewestInv
  BY <1>1 DEF AloneInv, SentInv, DatesInv, ReadInv, NewestInv, sent, Over, Late
<1>5. PortalInv
  BY <1>1, <1>2 DEF PortalInv, PortalOK
<1> QED
  BY <1>3, <1>4, <1>5 DEF LatestInv

LEMMA LatestStep ==
    ASSUME "overlap" \notin Faults, IInv, IInv', LatestInv, [Next]_vars
    PROVE  LatestInv'
<1> USE DEF IInv
<1>1. CASE UNCHANGED vars \/ Tick
  <2>1. UNCHANGED <<doc, meta, pc, copy, json, portal, asked>>
    BY <1>1 DEF vars, local, Tick
  <2>2. AloneInv' /\ FreshInv' /\ SentInv' /\ NewestInv'
    BY <2>1 DEF LatestInv, AloneInv, FreshInv, SentInv, NewestInv, sent, isAbout
  <2>3. DatesInv' /\ ReadInv'
    BY <2>1 DEF LatestInv, DatesInv, DatesOK, ReadInv, ReadOK, sent, isAbout
  <2>4. PortalInv'
    BY <2>1 DEF LatestInv, PortalInv, PortalOK, isServed, sent
  <2> QED
    BY <2>2, <2>3, <2>4 DEF LatestInv
<1>2. ASSUME NEW s \in Sends, Editor(s) \/ Sending(s) \/ Portal(s) \/ Reporting(s)
      PROVE  LatestInv'
  <2>1. CASE \E m \in Metas : newMetadata(s, m) \/ Open(s, m) \/ sendMany(s, m)
    BY <2>1, StartStep
  <2>2. CASE SubmitForm(s)
    BY <2>2, SubmitStep
  <2>3. CASE Enlist(s) /\ ~UNCHANGED json
    BY <2>3, EnlistStep
  <2>4. CASE PortalAccepts(s) \/ Integrate(s)
    BY <2>4, PortalStep
  <2>5. CASE \/ SaveUpdated(s) \/ ReadState(s) \/ Resave(s) \/ EditFails(s)
             \/ ReadMetadata(s) \/ (Enlist(s) /\ UNCHANGED json) \/ Mark(s) \/ MarkFails(s)
             \/ TakeEntry(s) \/ Get(s) \/ NoToken(s) \/ Drop(s) \/ Accepted(s)
             \/ ReadForFlag(s) \/ FlagError(s) \/ FlagFails(s) \/ PortalRefuses(s)
             \/ Reporting(s)
    BY <2>5, SteadySend, SteadyStep
  <2> QED
    BY <1>2, <2>1, <2>2, <2>3, <2>4, <2>5 DEF Editor, Sending, Portal
<1> QED
  BY <1>1, <1>2 DEF Next

\* Where a metadata is not edited nor sent again while a send of it is under way, the
\* portal ends with the content that the node holds, if a send of it succeeded and was not
\* refused, although answers are lost, reports are late and forms are stale: the
\* dates that sendMetadataToPortal compares never let an older content pass.
THEOREM PortalEndsUpToDate ==
    ASSUME "overlap" \notin Faults PROVE Spec => []PortalUpToDate
<1>1. ASSUME IInv, LatestInv, NEW m \in Metas, NEW s \in SendsOf(m),
             \A t \in SendsOf(m) : asked[t] # "accepted",
             pc[s] = "done", asked[s] # "KO", json[s] # Nil, json[s].rev = doc[m].rev
      PROVE  portal[m] # Nil /\ portal[m].rev = doc[m].rev
  <2>1. s \in Sends /\ meta[s] = m /\ sent(s) /\ asked[s] \in {"none", "OK"}
    BY <1>1 DEF SendsOf, sent, IInv, TypedOK
  <2>2. portal[m] # Nil /\ json[s].date <= portal[m].date
    BY <1>1, <2>1 DEF LatestInv, PortalInv, PortalOK, isServed
  <2>3. PICK t \in Sends : meta[t] = m /\ sent(t) /\ portal[m] = json[t]
    BY <1>1, <2>2 DEF LatestInv, PortalInv
  <2> QED
    BY <1>1, <2>1, <2>2, <2>3 DEF LatestInv, DatesInv, DatesOK, isAbout
<1>2. IInv /\ LatestInv => PortalUpToDate
  BY <1>1 DEF PortalUpToDate
<1>3. IInv /\ IInv' /\ LatestInv /\ [Next]_vars => LatestInv'
  BY LatestStep
<1> QED
  BY <1>2, <1>3, LatestInit, Invariance, PTL DEF Spec

(***************************************************************************)
(* The waiting room.                                                       *)
(***************************************************************************)

\* The room has one entry at most: the test of their age keeps none, however young.
RoomInv ==
    /\ wait \in [Sends -> Entry \cup {Nil}]
    /\ room = <<>> \/ \E t \in Sends : room = <<t>> /\ wait[t] # Nil /\ wait[t].date <= clock
    /\ \A s \in Sends : pc[s] \in Late => wait[s] # Nil

\* Nothing is kept of it.
LEMMA NothingKept ==
    ASSUME TypedOK, RoomInv
    PROVE  recent = <<>>
<1>1. \A n \in 1 .. Len(room) : ~isRecent(room[n])
  <2> SUFFICES ASSUME NEW t \in Sends, room = <<t>>, wait[t] # Nil, wait[t].date <= clock
               PROVE  ~isRecent(t) /\ Len(room) = 1 /\ room[1] = t
    BY DEF RoomInv
  <2>1. wait[t].date \in Nat /\ clock \in Nat /\ Timeout \in Nat /\ Timeout # 0
    BY ConstantsAssumption DEF RoomInv, Entry, TypedOK
  <2> QED
    BY <2>1 DEF isRecent
<1>2. Len(room) \in 0 .. 1
  BY DEF RoomInv
<1> DEFINE body(f, n) == IF n = 0 THEN <<>>
                         ELSE IF isRecent(room[n]) THEN Append(f[n - 1], room[n]) ELSE f[n - 1]
           none == [n \in 0 .. Len(room) |-> <<>>]
           kept == CHOOSE f : f = [n \in 0 .. Len(room) |-> body(f, n)]
<1>3. none = [n \in 0 .. Len(room) |-> body(none, n)]
  <2>1. \A n \in 0 .. Len(room) : body(none, n) = <<>>
    BY <1>1, <1>2
  <2> QED
    BY <2>1
<1>4. kept = [n \in 0 .. Len(room) |-> body(kept, n)]
  <2> HIDE DEF none, body
  <2> QED
    BY <1>3
<1>5. kept[0] = <<>> /\ (Len(room) = 1 => kept[1] = kept[0])
  <2>1. \A n \in 0 .. Len(room) : kept[n] = body(kept, n)
    <3> HIDE DEF kept, body
    <3> QED
      BY <1>4
  <2> HIDE DEF kept
  <2> QED
    BY <1>1, <1>2, <2>1
<1>6. recent = kept[Len(room)]
  BY DEF recent
<1>7. Len(room) = 0 \/ Len(room) = 1
  BY <1>2
<1> HIDE DEF kept
<1> QED
  BY <1>5, <1>6, <1>7

\* A step that enlists no send adds nothing to the room.
LEMMA RoomStep ==
    ASSUME TypedOK, PlacesOK, RoomInv, [Next]_vars
    PROVE  RoomInv'
<1> USE DEF goto, end, local, report
<1>1. clock \in Nat
  BY ConstantsAssumption DEF TypedOK
<1>2. ASSUME NEW s \in Sends, Enlist(s) PROVE RoomInv'
  <2>1. recent = <<>>
    BY NothingKept
  <2>2. CASE isAlreadyWaiting(s)
    BY <1>2, <2>1, <2>2 DEF Enlist, RoomInv, TypedOK, Late
  <2>3. CASE ~isAlreadyWaiting(s)
    <3>1. [index |-> 1, date |-> clock] \in Entry /\ [index |-> 1, date |-> clock] # Nil
      BY <1>1, NilAssumption DEF Entry
    <3>2. /\ room' = <<s>> /\ clock' = clock /\ pc' = [pc EXCEPT ![s] = "marking"]
          /\ wait' = [wait EXCEPT ![s] = [index |-> 1, date |-> clock]]
      BY <1>2, <2>1, <2>3 DEF Enlist, enter
    <3> QED
      BY <1>1, <3>1, <3>2 DEF RoomInv, TypedOK
  <2> QED
    BY <2>2, <2>3
<1>3. ASSUME NEW s \in Sends, Drop(s) PROVE RoomInv'
  <2>1. wait' = wait /\ clock' = clock /\ pc' = [pc EXCEPT ![s] = "done"]
    BY <1>3 DEF Drop
  <2>2. room' = room \/ room' = <<>>
    <3>1. wait[s].index \in Nat \ {0}
      BY <1>3 DEF Drop, RoomInv, Entry, Late
    <3>2. room = <<>> \/ \E t \in Sends : room = <<t>>
      BY DEF RoomInv
    <3>3. CASE room = <<>>
      BY <1>3, <3>1, <3>3 DEF Drop
    <3>4. ASSUME NEW t \in Sends, room = <<t>> PROVE room' = room \/ room' = <<>>
      <4>1. RemoveAt(<<t>>, 1) = <<>> /\ Len(<<t>>) = 1
        BY DEF RemoveAt
      <4>2. CASE wait[s].index = 1
        BY <1>3, <3>4, <4>1, <4>2 DEF Drop
      <4>3. CASE wait[s].index > 1
        BY <1>3, <3>1, <3>4, <4>1, <4>3 DEF Drop
      <4> QED
        BY <3>1, <4>2, <4>3
    <3> QED
      BY <3>2, <3>3, <3>4
  <2> QED
    BY <2>1, <2>2 DEF RoomInv, TypedOK, Late
<1>4. ASSUME NEW s \in Sends, ReportArrives(s) PROVE RoomInv'
  <2>1. wait' = wait /\ clock' = clock /\ pc' = pc
    BY <1>4 DEF ReportArrives, local
  <2>2. room' = room \/ room' = <<>>
    <3> DEFINE about == {i \in 1 .. Len(room) : meta[room[i]] = meta[s]}
               at    == SelectInSeq(room, LAMBDA t : meta[t] = meta[s])
    <3>1. room' = room \/ (at # 0 /\ room' = RemoveAt(room, at))
      BY <1>4 DEF ReportArrives, removeMetadataFromWaitingList
    <3>2. CASE room = <<>>
      <4>1. about = {}
        BY <3>2
      <4> QED
        BY <3>1, <4>1 DEF SelectInSeq
    <3>3. ASSUME NEW t \in Sends, room = <<t>> PROVE room' = room \/ room' = <<>>
      <4>1. RemoveAt(<<t>>, 1) = <<>>
        BY DEF RemoveAt
      <4>2. about = {} \/ about = {1}
        BY <3>3
      <4>3. at = 0 \/ at = 1
        BY <4>2 DEF SelectInSeq, Min
      <4> QED
        BY <3>1, <3>3, <4>1, <4>3
    <3> QED
      BY <3>2, <3>3 DEF RoomInv
  <2> QED
    BY <2>1, <2>2 DEF RoomInv
<1>5. ASSUME Tick PROVE RoomInv'
  <2>1. \A t \in Sends : wait[t] # Nil => wait[t].date \in Nat
    BY DEF RoomInv, Entry
  <2> QED
    BY <1>1, <1>5, <2>1 DEF Tick, RoomInv
<1>6. ASSUME NEW s \in Sends, UNCHANGED <<clock, room, wait>>,
             pc' = [pc EXCEPT ![s] = pc'[s]], pc'[s] \in Late => pc[s] \in Late
      PROVE  RoomInv'
  BY <1>6 DEF RoomInv, TypedOK
<1>7. ASSUME NEW s \in Sends, Editor(s) PROVE RoomInv'
  <2>1. /\ UNCHANGED <<clock, room, wait>> /\ pc'[s] \notin Late
        /\ pc' = [pc EXCEPT ![s] = pc'[s]]
    BY <1>7 DEF Editor, newMetadata, Open, sendMany, SubmitForm, SaveUpdated, ReadState, Resave,
                EditFails, VersionError, TypedOK, Late
  <2> QED
    BY <1>6, <2>1
<1>8. ASSUME NEW s \in Sends, Sending(s), ~Enlist(s), ~Drop(s)
      PROVE  RoomInv'
  <2>1. /\ UNCHANGED <<clock, room, wait>>
        /\ pc'[s] \in Late => pc[s] \in Late
        /\ pc' = [pc EXCEPT ![s] = pc'[s]]
    BY <1>8 DEF Sending, ReadMetadata, Mark, MarkFails, TakeEntry, Get, NoToken, Accepted,
                ReadForFlag, FlagError, FlagFails, VersionError, TypedOK, Late
  <2> QED
    BY <1>6, <2>1
<1>9. ASSUME NEW s \in Sends, Portal(s) PROVE RoomInv'
  <2>1. /\ UNCHANGED <<clock, room, wait>>
        /\ pc'[s] \in Late => pc[s] \in Late
        /\ pc' = [pc EXCEPT ![s] = pc'[s]]
    BY <1>9 DEF Portal, PortalAccepts, PortalRefuses, Integrate, TypedOK, Late
  <2> QED
    BY <1>6, <2>1
<1>10. ASSUME NEW s \in Sends, Reporting(s), ~ReportArrives(s) PROVE RoomInv'
  BY <1>10 DEF Reporting, ReportReads, ReportSaves, ReportFails, ReportRetried, RoomInv
<1>11. ASSUME UNCHANGED vars PROVE RoomInv'
  BY <1>11 DEF vars, RoomInv
<1> QED
  BY <1>2, <1>3, <1>4, <1>5, <1>7, <1>8, <1>9, <1>10, <1>11 DEF Next

LEMMA RoomInvariance == Spec => [](TypedOK /\ RoomInv)
<1>1. Init => RoomInv
  BY DEF Init, RoomInv, Late
<1>2. IInv /\ RoomInv /\ [Next]_vars => RoomInv'
  BY RoomStep DEF IInv
<1>3. IInv => TypedOK
  BY DEF IInv
<1> QED
  BY <1>1, <1>2, <1>3, Invariance, PTL DEF Spec

\* The types of the whole state, the waiting room included: no entry is put at no index,
\* none is removed where there is none (isMetadataSendableToPortal, sendMetadataToPortal,
\* addOrEditSingleReport).
THEOREM TypeCorrect == Spec => []TypeOK
<1>1. <<>> \in Seq(Sends) /\ \A t \in Sends : <<t>> \in Seq(Sends)
  OBVIOUS
<1>2. TypedOK /\ RoomInv => TypeOK
  BY <1>1 DEF TypedOK, RoomInv, TypeOK
<1> QED
  BY <1>2, RoomInvariance, PTL

\* No send ever finds that its metadata waits for a report: whatever the delay, the purge
\* of the waiting room (isMetadataSendableToPortal) leaves nothing of it.
THEOREM NobodyWaits == Spec => [](recent = <<>>)
<1>1. TypedOK /\ RoomInv => recent = <<>>
  BY NothingKept
<1> QED
  BY <1>1, RoomInvariance, PTL
=============================================================================
