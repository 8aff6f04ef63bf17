# Verification of the RUDI producer node

The repository is a *producer node* of RUDI, the data sharing platform of Rennes
Métropole: a data producer describes data sets (*metadata*), stores their files
(*media*) and has them referenced on the RUDI *portal*.  This directory holds TLA+
modules that model the node, TLC configurations that check them on small
instances, and proofs that TLAPS checks for every instance.

- [Inventory](#inventory): the parts of the system, what can go wrong in each
- [Modules](#modules): what is written, and how it composes
- [MediaStore](#mediastore), [StagingPromise](#stagingpromise),
  [MediaConnectors](#mediaconnectors), [PortalSync](#portalsync),
  [MetadataStorage](#metadatastorage), [ObjectReferences](#objectreferences),
  [ManagerInit](#managerinit), [UserAccounts](#useraccounts): the models, their
  correspondence with the code, their runs
- [Proofs](#proofs), [What only TLC checks](#what-only-tlc-checks),
  [Disagreements with the documentation](#disagreements-with-the-documentation),
  [What is not modelled](#what-is-not-modelled)

To run: `tlc -config MediaStore_staging.cfg MCMediaStore`,
`tlc -config PortalSync_flags.cfg MCPortalSync` (likewise for the other `.cfg` files;
the prefix of a configuration names the module), and `tlapm MediaStoreProofs.tla`
(likewise for the other `...Proofs` modules).

## Inventory

The node is made of Node.js services, most of them behind the manager; each is
single-threaded, so its concurrency is that of callbacks: a handler runs alone until
it awaits a write, a request or a timer, and any other handler may run there.

| Component | State it keeps | Operations | Talks to |
|---|---|---|---|
| **rudi-media, zones and file database** (`basiczone.js`, `basicdb.js`, `index.js`) | per zone: `db` (entries listed), `staging_db`, `staging_trash`, the files, `_file.csv`; over the zones: `BasicFileDB.db` (entries served) | post, commit, delete, list, get a media; load the CSV at start | its clients over HTTP, the disk |
| rudi-media, access control (`acl.js`, `access.js`) | users, groups, rights of each zone (configuration) | evaluates a right for a user | used by every operation of a zone |
| **rudi-media, connectors** (`basicdb.js`) | one entry per temporary download address, its timer | open, read, check a media, expire, close | zones; the download clients |
| **rudi-media, MongoDB log** (`db.js`, `schema.js`) | the medias and the operations on them, in MongoDB | log an entry recorded at the start, which is listed once that is done; log the operations on medias and connectors | MongoDB |
| **rudi-api, exchanges with the portal** (`portalController.js`, `reportController.js`) | waiting room (in memory); flags, status and version of each metadata; reports (MongoDB) | send a metadata, write an error report, handle an integration report, delete from the portal | the portal (HTTP, both ways), MongoDB |
| **rudi-api, metadata, media and storage status** (`metadataController.js`, `Metadata.js`, `Media.js`) | metadata and media (MongoDB) | create, overwrite, delete a metadata; commit a media | portal exchanges; the console |
| **rudi-api, organizations, contacts, references** (`genericController.js`, `db/dbQueries.js`) | objects that refer to each other (MongoDB) | create, edit, delete, list orphans | MongoDB |
| rudi-api, portal token | cached token and its expiry | get, renew, check | the portal |
| rudi-api, thesaurus, SKOS, licences, queries | lists of codes, in memory | validate, convert, parse | every controller |
| **rudi-manager, start** (`initDatabase.js`) | the SQLite tables of roles, users and their roles | create the tables, or bring older ones up to date | SQLite |
| **rudi-manager, users and roles** (`usersControllers.js`, `database.js`, `authControllerPassport.js`) | rows of these tables | create, edit, delete a user; register; log in | the front, rudi-jwt |
| **rudi-manager, proxies** and front | none | forwards requests; commits a media on two services | rudi-api, rudi-media |
| **rudi-console, forms** | what a browser page holds: a loaded metadata, the files to upload | submit the metadata, upload its new files, ask for their commits | rudi-manager, rudi-media |
| rudi-logger, syslog transport (`syslog.js`) | socket, queue of waiting messages, retry timer | log, connect, retry, close | a syslog server |
| rudi-logger, local files | log files and their rotation | append | the disk |
| rudi-jwt | none (keys) | sign, verify | every service |

How a data set gets published ties most of them together: the console submits the
metadata to rudi-api, through rudi-manager; its new media are missing there.  Once that is
answered the console uploads the new files to rudi-media, all at a time; each is
staged and gets a staging identifier.  When an upload ends, the console asks rudi-manager to
commit it, which calls rudi-media, then rudi-api if rudi-media accepted.  rudi-api sets the
media available, computes the storage status of the metadata again and, once no media is
missing, sends the metadata to the portal; the portal integrates it some time later
and posts a report, which sets the flags of the metadata.

What is hard in each part, and what would make it correct:

- **Zones.**  A media lives in four places (`zone.db`, `BasicFileDB.db`, `_file.csv`, the
  file on the disk) that different callbacks update.  Saves of the CSV overlap, fail,
  or are cut by a crash; a commit races with the timer of its staging identifier and
  with other posts of the media.  *A staged post is invisible until it is committed, is
  committed once, and never after it was given up; what is served is listed; the CSV
  file gives back what is listed; what was committed is whole; every request gets an
  answer; nothing staged stays forever.*
- Access control: deny and allow entries of users, groups and others combine.  *The
  decision is the one the configuration file defines.*
- **Connectors**: they keep the path their media had when they were opened, a timer removes
  them while a download reads, and medias are written in place, appended to, replaced and
  deleted meanwhile; the save of the CSV file may fail between the zone and the database.  At the
  start, entries are listed one by one as MongoDB answers, while requests are served.  *A connector
  gives the content its media had or a later one, whole unless it is written in place, and fails only
  if the media was deleted; it ends up removed; a hash is that of the file; what is listed is what
  the zone has.*
- **Portal exchanges.**  Versions of the document protect some writes and not others
  (`findOneAndUpdate`); the waiting room is read at an index taken before an await;
  reports come late, twice, or while the metadata is sent again.  *A metadata is
  published or refused as the last report that applies said; the portal ends with the
  last content that was sent.*
- **Metadata and media**: commits of several media at a time, a report or an edit
  meanwhile, a form that is stale.  *When the last media is available the metadata is sent;
  nothing is sent without its files.*
- **References**: objects are created, for themselves or on the way to a metadata, and
  deleted, after checks that are awaited.  *Only a race leaves a metadata that refers to what
  is gone; a success means that the content is stored; what the schema refuses is not
  stored, or is answered an error.*
- **Start of the manager**: tables of three versions are brought up to date by a dozen requests
  in no transaction, the process may stop between any two, and users register meanwhile, under
  any name.  *Every account keeps its identifier and a role; the super user has its role; the start
  ends.*
- **Users and roles**: each handler is a chain of SQL requests that those of others cut; roles
  are added all at once, then removed all at once.  *A user has the roles that were asked
  for, and none outlives its user; an edit alone never leaves a user bare; only what another
  request took meanwhile, the name of a user or the roles of who logs in, ends the process.*
- Syslog: `syslog.js:94` compares the names of the transports with the number that
  `rudilogger.ts` passes: the transport is always UDP, which keeps no state.  What the file
  holds for TCP, TLS and Unix sockets (a queue, a retry timer) is not reached.

`PROJECT.json` lists these as `hazards`, each at the line where it bites, with the
property that would catch it, or why none does yet.

## Modules

| Module | Checked through | Proved in | Models |
|---|---|---|---|
| `MediaStore` | `MCMediaStore` | `MediaStoreProofs`, `MediaTablesProofs` | a zone, its staging area, the file database, the CSV file |
| `StagingPromise` | | | what staging promises; implemented by `MediaStore`, used by `MetadataStorage` |
| `MediaConnectors` | `MCMediaConnectors` | `MediaConnectorsProofs` | connectors, checks, what changes a media while it is read, the recording of the CSV entries |
| `PortalSync` | `MCPortalSync` | `PortalSyncProofs` | a metadata, its sends and its reports |
| `MetadataStorage` | `MCMetadataStorage` | `MetadataStorageProofs` | a metadata and its files across four services |
| `ObjectReferences` | `MCObjectReferences` | `ObjectReferencesProofs` | organizations, contacts and the metadata that refer to them |
| `ManagerInit` | `MCManagerInit` | `ManagerInitProofs` | the start of the manager |
| `UserAccounts` | `MCUserAccounts` | `UserAccountsProofs` | users, roles, registration and login |

`MetadataStorage` composes the console, the manager and rudi-api with `StagingPromise` in the
place of rudi-media, which `MediaStore` is proved to implement.  `MediaConnectors` keeps of
`MediaStore` what readers see of it: writes in place, commits, deletions, failed saves; `UserAccounts` starts from what
`ManagerInit` ends with (theorem `UsersHandedOver`).

## MediaStore

One zone and the database above it.  Node's concurrency is modelled by cutting each
handler where it waits: `writeFile` of a content, `writeFile` of the CSV, a timer.

| State | Code |
|---|---|
| `zoneDb`, `staging`, `trash` | `BasicZone.db`, `.staging_db`, `.staging_trash` |
| `fileDb` | `BasicFileDB.db` |
| `final`, `staged` | the paths `<uuid>_<filename>` and `.staged_<uuid>_<filename>`: the file each names, itself named by the post that created it |
| `data`, `fd` | the content of the files: the set of posts whose content they hold whole (several after an append or a mix of two writes, none when cut); the file that the write of a post is open on |
| `csv` | `_file.csv`: its lines, and whether one is cut |
| `op`, `pc`, `snap`, `reply` | a request: what it asks, where it waits, the CSV content it computed, the statuses it was answered |
| `server`, `crashes` | whether the process is loading the CSV, up or down |

| Action | Code |
|---|---|
| `Post` | `postFile`, `addEntry`, `newBasicEntryFromMetadata` up to `writeFile` |
| `WriteOpens` | this `writeFile` opens the file at its path, creates it if it is missing and, but for an append, truncates it |
| `WriteDone`, `WriteFails` | the content went to the file that was opened, **whatever path it has by now**: a commit may have renamed it; then the callback: on an error it answers, *and goes on*; then `stageEntry` (which answers and arms the timers) or `recordEntry` (`saveZoneCSV`) |
| `ConfirmTimeout`, `TrashTimeout` | the two nested timers of `stageEntry` |
| `CommitAccepted`, `CommitRefused` | `commitEntry`: the entry leaves the staging area and is registered **under its staging identifier**, its file is renamed with the writes that are open on it, the CSV is saved |
| `DeleteAccepted`, `DeleteRefused` | `deleteMedia`, `mdelete`, `deleteEntry` |
| `saveZoneCSV` | computes the content now; an empty content calls no callback: `"hung"` |
| `SaveOpens`, `SaveDone`, `SaveFails` | `writeFile` of the CSV truncates, then writes, then runs `addDone`, `commitDone` or `deleteDone` of `BasicFileDB` |
| `Crash`, `WriteAfterEnd`, `Restart`, `LoadCsv`, `LoadCsvFails` | the life of the process: stopped from outside, ended by an error that nothing catches (a second answer on an ended response, a line of the CSV that does not parse), started, `loadCSV` |

Abstractions, each on the side of more behaviours unless it says otherwise:

- One zone, and no MongoDB log (`this.log` null): the branch with the log, which calls the same
  code in a callback, is in `MediaConnectors`.  Media of type INDIRECT are left out
  (`basiczone.js:315` throws).
- A media keeps its file name; an entry, its content and its staging identifier are
  named by the request that posted them.
- Rights are reduced to `Modes`: a user who may write directly, one who may only stage,
  and the `Append` method.  Denied requests change nothing and are left out.
- Timers have no duration: they run at any time after they are armed.
- A file is truncated when it is opened and gets its content when the write ends, an `append`
  added to what is there by then; two writes of one file may leave one, the other or both; a
  write that fails and a stop leave any part.  A CSV overwritten
  by another save keeps any end of the longer text (`Overwritten`).
- A CSV with two lines of one media gives back any of them (the code: the last in an
  order that the model does not keep).
- A request is used once, so behaviours end: the runs say `CHECK_DEADLOCK FALSE`.

`Faults` chooses what the environment does; a run that leaves one out says so here.

| Run | Instance | Checks |
|---|---|---|
| `media_staging` | 3 requests, 1 media, direct and staged, every fault, 1 crash | `TypeOK`, `StagedHidden`, `CommittedOnce`, `StagingKept` (refinement of `StagingPromise`) |
| `media_served` | 3 requests, 2 media, every mode; overlapping saves, write errors, early requests, 1 crash; not `overlapMedia`, not `csvError` | `ServedIsListed`, `ServedIsWhole` |
| `media_csv` | 4 requests, 2 media, direct and staged; two clients on one media, a crash; saves one at a time | `SettledCsv` |
| `media_live` | 3 requests, 1 media, append and staged, overlaps, CSV errors; no crash, no disk error | `PostsAnswered`, `StagingEnds`, `StagedFilesReclaimed` |
| `media_last_delete` | the smallest that shows the finding | `CsvUpToDate`, violated |

Why these bounds: what can break staging is a post, its commit and a third request (a
second commit, a second post of the media, a delete) in any order with the timers and
one crash: three requests on one media.  What the zone, the database and the CSV
disagree on needs another media beside, since a zone that becomes empty is not saved;
four requests let a media be posted again and deleted while the other keeps the zone from
being empty.  An append differs from a direct post in what it leaves of the file only, and both go
through the same callbacks: a run has one of the two where it is about something else than
files, to keep it small, and both where it is about them (`media_served`).  The proofs are for all.

Why faults are left out where they are:

- `ServedIsListed` and `ServedIsWhole` do not hold when two clients work on one media at
  once (`overlapMedia`): one writes to the staged file that the other commits, and goes on writing
  to it under the name of the committed media, which is then served cut or mixed.  That
  is outside what the code promises, and the run assumes clients that take turns *per media*,
  across any overlap between media.  A CSV error (`csvError`) leaves the
  zone changed and the database not: nothing is rolled back, and a deleted media is
  then served without being listed.
- `SettledCsv` does not hold when saves overlap (`overlapZone`): the last to end wins,
  whatever it computed.  It is checked for saves one at a time, with everything that
  happens *between* them: timers, commits of posts staged long before, crashes during a
  save, reloads.
- `PostsAnswered` excludes deletes (the last one of a zone never is), disk errors (answered
  twice, which ends the process) and crashes (nobody answers).

Fairness: weak fairness of the callbacks of each request, of the timers and of
`LoadCsv`: Node runs what the operating system completed and the timers it armed, one
after the other, each in finite time.  None on clients or on `Restart`.

Seen while modelling, beside the finding: a request whose content cannot be written is
answered twice and its entry recorded all the same; a committed media is registered
under its staging identifier in the zone, so it cannot be deleted before a restart and
a second post of it leaves two lines in the CSV; a staged file left by a crash
is never removed, unless the media is staged again.

## StagingPromise

What a client may expect of staging, in four states: `new`, `staged`, then `committed`
(once) or `expired` (for good).  `MediaStore` implements it with the mapping `phase`,
which reads the staging area, the commits that were accepted and the answers that
were given.  Checked in `media_staging` (`StagingKept`), proved in `MediaStoreProofs`.

## MediaConnectors

How a media is read, and what the database lists.  `BasicFileDB.get` opens a connector to a
media, `find` reads through it, a timer removes it; `check` computes the hash of a file
again.  Meanwhile a media is written in place (flag `w`), appended to (flag `a`), replaced by the
commit of a staged post, or deleted.

| State | Code |
|---|---|
| `entry`, `md5` | the `BasicFileEntry`s and their hashes, named by the post that made them: media, name, and how it came (`kind`: written, appended, committed, a line of the CSV file, a line whose file is lost) |
| `zoneDb`, `db` | `BasicZone.db`, under the uuid or the staging identifier; `BasicFileDB.db` |
| `file`, `data` | the paths `<uuid>_<filename>`, the file each names, and its content: the posts that are whole in it, in the order they came; none where it is cut |
| `load`, `post`, `drop` | where the recording of an entry of the CSV file (`recordEntry`), its post or commit, and its deletion are |
| `storageId`, `timer` | `BasicFileDB.storageId`, the timers that `get` armed |
| `get`, `answer` | a request that reads: the connector and the path, or the entry, it goes on with; the file it has open and the contents it may find there (`seen`); what it was answered |
| `age`, `due`, `raced`, `journal` | history: the order of contents, the posts listed when a connector was opened, the medias listed by a request while a line of theirs was being recorded, the last operation logged of a connector |

| Action | Code |
|---|---|
| `LoadLogs` | `recordEntry`: MongoDB answered, or failed, which counts as a success; the entry is listed whatever is listed by then |
| `Post`, `PostWritten` | `newBasicEntryFromMetadata`: `writeFile` opens the file, which truncates it but for an append, then writes it; those who read it meanwhile may find it before, cut or after; the hash is that of what the client sent, **of the last part only for an append** |
| `Commit` | `commitEntry`: `renameSync` puts another file at the path; who has the former open goes on with it; the entry goes in the zone under its staging identifier |
| `PostSaved`, `PostFails`, `Delete`, `DeleteSaved`, `DeleteFails` | the zone changes at once, the database when the CSV file is saved; **a save that fails undoes nothing**; a zone that becomes empty is not saved and the deletion is never answered |
| `Open`, `Direct`, `Find`, `TimerFires` | `get`, `direct`, `find`, `deleleteFileId` |
| `ReadOpens`, `ReadFails`, `Served` | `readFile` of `getFile`: it opens the file at the path kept, fails where there is none, or answers one of the contents that the file had while it was open |
| `Check`, `Checked` | `check`, `getRealMd5`, which writes the hash into the entry it was given |
| `Interrupt`, `Close` | `SignalCleaner`, `BasicFileDB.close` |

`Init`: any lines of the CSV file, several of a media too (one that was committed, then posted),
of which the zone has one and whose recordings end in any order; any of their files may be lost.

- `ServedCurrent`: a connector keeps the path of then; the media may be replaced, under another
  name too, deleted, posted again.  What it gives is never older than what it was opened for, and
  is whole unless a post without staging wrote that file: such a write truncates it under those
  who read, a commit never does.
- `FailsIfDeleted`: replacing a media, in place or by a commit, leaves what was opened readable.
- `Md5Right`: a check that was answered while the media was replaced does not spoil the hash of
  the new entry.  Left out: the hash of an append until a check corrects it, what the CSV file
  says, an entry that a failed save left listed (`isUnsaved`).
- `ListedIsZone`: once the operations on a media are over, the database lists what the zone lists last.
  Left out: operations whose save failed or was never made (`isUnsaved`), medias listed by a request
  while a line of theirs was being recorded (`raced`), several lines of a media (`isDoubled`).
- `ConnectorsClose`: under weak fairness of the timers that are armed, which Node fires.  An
  interruption ends them all, without a log.

What is left out is what the code gets wrong, or does not promise: TLC finds each property violated
when one of these conjuncts is removed.

`connectors_access`: 2 posts, 1 connector, 1 read, 2 medias, 2 names, every fault (0.88 million
states).  Two posts are the entry found in the CSV file and its replacement, two lines of a media, a file and
what is appended to it, or two medias of
which one keeps the zone from being empty; connectors do not interact but through what they
read, nor do reads.  Clients that change a media take turns: their overlaps are the matter of
`MediaStore`; nothing waits for those who read.  A staged post is seen here when it is committed.

Seen while modelling: at an interruption the removal of the connectors throws
(`basicdb.js:508` calls `toJSON` on a context that is not given), so that the zones are not closed,
although `basicdb.js:179` says "flush all pending events"; `find` on a media that is no longer
listed throws a `TypeError`, answered as an error; the entry of a media that was appended to bears the
hash and the size of the last part (`basicfile.js:56-60`) until it is checked.

## PortalSync

A send is what makes a metadata be sent: its creation, the submission of a form, or
the request to send many.  A handler is cut at every await.

| State | Code |
|---|---|
| `doc` | the metadata in MongoDB: its content (named by the edit that wrote it), `updated` date, `__v`, the publication date, the error of integration and the status |
| `room`, `wait` | `metadatasWaitingForPortalFeedback`, and the index and date of each entry |
| `pc`, `meta`, `copy`, `json`, `found` | a handler of `newMetadata`, `overwriteMetadata` or `sendManyMetadataToPortal`, then of `sendMetadataToPortal` and `createErrorReport`: where it is, the mongoose document and the JSON it holds |
| `hpc`, `seen` | the handler of the report of this send, and the document it holds |
| `asked`, `portal` | external: what the portal made of the send, what it publishes |
| `mark` | history: the version that `setMetadataStatusToSent` saved |

| Action | Code |
|---|---|
| `newMetadata`; `Open`, `SubmitForm`, `SaveUpdated`; `ReadState`, `Resave`; `sendMany` | the editors: `overwriteDbObject` is a `findOneAndUpdate` (no version) followed by a `save`; `updateMetadataStorageState` reads again and may save |
| `ReadMetadata`, `Enlist` | `isMetadataSendableToPortal`, the purge of the waiting room and the new entry |
| `Mark`, `MarkFails` | `setMetadataStatusToSent` and its save |
| `TakeEntry`, `Get`, `NoToken`, `Drop`, `Accepted` | the rest of `sendMetadataToPortal`: the entry read at its index, the token, the GET, the choice of POST, PUT or neither |
| `ReadForFlag`, `FlagError`, `FlagFails` | `createErrorReport` |
| `ReportArrives`, `ReportReads`, `ReportSaves`, `ReportFails`, `ReportRetried` | `addOrEditSingleReport` |
| `PortalAccepts`, `PortalRefuses`, `Integrate` | external: the portal, as the code uses it |

The heart of the model is the save of a mongoose document (`Saved`, `upToDate`): the schema
sets `optimisticConcurrency`, so a save checks the version it read and raises it when it
writes something; a hook computes the status from the copy; only the fields that differ
from the copy are written; a save that changes nothing checks the version and leaves
it.  `findOneAndUpdate` neither checks nor raises it.

Abstractions: the metadata is online with all its media available and no collection tag;
none is deleted; dates of two updates differ; entries of the waiting room are named by
their send, and the identifier of the report in an entry, which only logs use, is reduced
to whether there is an entry to write it into; the token may fail and is otherwise left out;
the portal integrates older contents first, reports `OK` or `KO`, and may send again a
report that was answered an error.  A metadata may have been created before the process was
started.

| Run | Instance | Checks |
|---|---|---|
| `portal_flags` | 2 sends, 1 metadata; overlapping, network errors, refusals, late and repeated reports; clock up to 1; not `staleForm` | `TypeOK`, `PublishedSeesSends`, `HandledReportsCount`, `StatusReckoned` |
| `portal_content` | 3 sends, 1 metadata; stale forms, refusals, late reports; not `overlap`, `netError`, `retry` | `PortalUpToDate` |

Why these bounds: every hazard of the flags is about one send, or the handler of its
report, racing with one other; two sends give each of them a report, an error report and
a version conflict, and reach 1.3 million states.  The order of contents needs an older, a
current and a newer one: three sends.  The waiting room is emptied by each send (see
[Disagreements](#disagreements-with-the-documentation)), so a clock of 1 is enough for the rest.

Why faults are left out where they are: a form submitted after a report was handled writes
the flags and the status it had loaded, and `StatusReckoned` and
`HandledReportsCount` do not hold then: nothing tells the editor.  Two sends that overlap
may both pass the comparison of dates, and the older content be put last: `PortalUpToDate` does
not hold with `overlap`.  Without it dates alone never leave an older content: not after a refusal, a
late report, a stale form or a send for nothing.  `netError` and `retry` are left out of the run for its size
only: the proof covers them.

There is no fairness: reports may never come, and the node does nothing about it.

Seen while modelling: marking a metadata that already is `sent` changes no
field, so its version stays and a second send under way does not conflict; a report saved
between the reading and the marking makes the send fail before the error report knows which
metadata to flag, so that the metadata is neither sent nor flagged; the room is always
emptied, which makes the search for the same metadata in it dead code; an overwrite whose
second save fails is answered an error though its content is stored; a report of an older
send counts for the newer one when it is handled after the mark; `Metadata.js:479` says that
the publication date is that of the first time, while each send resets it
(`Metadata.js:803`).

## MetadataStorage

How one metadata and its files become available, across the console, rudi-manager, rudi-api
and rudi-media.  An *edit* is a form that is filled or loaded, then submitted; a *file* is
also the handler of its commit.  Handlers are cut at every await, reads that populate
a document included (the metadata, then its media).

| State | Code |
|---|---|
| `doc`, `media` | the metadata (files, storage status, flags, `__v`, status) and `file_storage_status` of its media, in MongoDB |
| `phase` | external: the staging area of rudi-media, as `StagingPromise` says |
| `added`, `copy`, `view` | of an edit: its new files, the metadata and the statuses of media that its form holds |
| `pc`, `copy`, `list`, `full`, `view` | of a handler: where it is, `dbMetadata`, the metadata that `updateMetadataStorageState` read again, `areAllMediaAvailable`, the media that `commitMedia` read |
| `owed`, `sent` | external: reports that may still come; history: what was marked as sent |

| Action | Code |
|---|---|
| `Fill`, `Open`, `Submit`, `Upload` | the form of the console: `prefill`, `getEditModeAndFillData`, `publish`, `sendFile` |
| `WriteMedia` | `mediaListRudiToDbFormat`: the media are written in parallel, **with the status that the form gives back** |
| `InsertMetadata`; `OverwriteMetadata`, `SaveOverwritten` | `newMetadata`; `overwriteDbObject`: a `findOneAndUpdate` without version, then a `save` |
| `CommitOnMedia` | `concludeSendingListener`, then `commitMedia` of rudi-manager; with the fault `lost`, rudi-api is never called |
| `ReadMedia`, `ReadMetadata`, `SetAvailable` | `commitMedia` of rudi-api |
| `ReadAgain`, `CountMedia`, `StoreState`, `ClearError` | `updateMetadataStorageState` |
| `ReadToSend`, `CheckSendable`, `MarkSent` | `isMetadataSendableToPortal`, up to the save |
| `VersionError` | a save that another one forestalled |
| `Expire`, `Report` | external: rudi-media gives up a file; a report is saved on the metadata (detailed in `PortalSync`) |

Abstractions: one metadata, since handlers share nothing between two; media that are not
files are never missing and are left out, so are metadata with a collection tag (never sent)
and deletions; a file has an identifier of its own (the console draws one for each file);
the waiting room and the sends themselves are in `PortalSync`: here a send ends with the
mark.  A commit is asked for once.  An edit that fails or is not submitted ends.

| Run | Instance | Checks |
|---|---|---|
| `metadata_sent` | 3 edits, 2 files; stale forms, late reports, expiry, lost commits; not `overlap` | `TypeOK`, `SentIsServed`, `LastCommitSends` |

- `SentIsServed`: what is marked as sent has all its files committed on rudi-media.  Two services
  and a form that gives statuses back could break it; it is also proved, edits that
  overlap anything included.
- `LastCommitSends`: two commits that overlap each save their own media, then read again and
  count; when everything is over and no file is missing, at least one of them found it, and
  the metadata was sent unless a save of *each* of those was forestalled.  It would fail if
  the count used what was read before.
  The documentation says it without this exception: see
  [Disagreements](#disagreements-with-the-documentation).

Why these bounds: two commits at a time are what a count can miss; a third edit is needed
for a file to be kept by one form, made stale by another and sent again (1.2 million states).
Two edits and three files were checked as well (0.9 million states).

Why `overlap` is left out of `metadata_sent`: with three edits of which one is submitted while
a file is committed, `findOneAndUpdate` may write the `pending` of its form over an `online`
that a commit has read, without raising the version: this commit then finds nothing to
change, and the metadata stays `pending` with all its files available.  It is listed as a
hazard; `LastCommitSends` is about edits that wait for the uploads of the previous one.

## ObjectReferences

A metadata refers to its producer, its contacts, and the provider and contacts of its own
description, by the `_id` of their documents.  What a request names and is missing is created on the way; what
a metadata refers to must not be deleted.

| State | Code |
|---|---|
| `doc` | the documents: `_id`, whose content it is, whether the schema accepts it, what it refers to |
| `request`, `step`, `found`, `answer` | a handler: what was asked, where it is, the `_id` it found, what it answered |
| `tasks`, `refs` | the promises of the field it treats, the references that are ready |
| `overlap`, `seen`, `deletions`, `stored` | history: which requests were handled at the same time, what was there when each came, who deleted what, whose content was stored |

| Action | Code |
|---|---|
| `Exists` | `addSingleObject`, `upsertSingleObject` |
| `New`, `Save` | `newOrganization`, `newContact`, `newMetadata`, and their `save` |
| `FindObject`, `CreateObject` | `organizationRudiToDbFormat`, `contactListRudiToDbFormat`: the objects of a field all at once, the fields one after the other |
| `Overwrite`, `SaveAgain` | `overwriteDbObject`: `findOneAndUpdate`, which validates nothing and creates what is missing, then a `save` that validates |
| `Ensured`, `DbId`, `Referenced`, `Delete` | `deleteSingleObject`, `isReferencedInMetadata`, `deleteDbObject` |
| `Deletion` | `deleteObjectList`, `deleteManyObjects`, which check no reference |

Abstractions: a document that the schema refuses is named by `bad` (one per request); the medias of a metadata,
its sends, and the uniqueness of the e-mails of contacts are left out; a list of deletions is one of one
object.

- `DanglesByRace`: the check of the references can be passed only by a deletion handled at the
  same time as the request that stored the metadata, or by one of a list.
- `AloneAsExpected`: a request that no other overlaps gets the answer that the documents call for; a
  missing contact named in two fields is created once.
- `SuccessStored`: a success that no other request overlaps means that its content is stored;
  otherwise an object created meanwhile may be given as it is.
- `InvalidIsReplaced`: what the schema refuses is stored only by a PUT that replaces a document,
  and is then answered an error.

`references_race`: 2 requests of any kinds, 1 organization, 2 contacts, 1 metadata with three
bodies (an object in two fields, two in a field, one in the last field only): 0.76 million states,
one request against another at each await; what three requests may do is covered by the proofs.  Requests are used once:
behaviours end.

Seen while modelling: a metadata that is refused leaves behind the objects created for it, and its
promises go on after the answer; the search of orphans calls itself without end
(`genericController.js:662`); the error path of `overwriteDbObject` throws a `TypeError` on errors that have no
`errors` (`dbQueries.js:1038`).

## ManagerInit

`dbInitialize` runs when rudi-manager starts, while the server already listens.  Its SQL requests
are in no transaction: each is a step, and `Stop` may come between any two.

| State | Code |
|---|---|
| `roles`, `hidden`, `userRoles`, `tables` | the tables, `Missing` (or `Nil` among `tables`) where one does not exist; those of users under each name they may bear (`x`, `users`, `Users` and the two in between) |
| `pc`, `old` | where `dbInitialize` is, the parameter of `dbNormalizeUserTableName` |
| `accounts`, `registered`, `stops` | history: the users that were ever there, the names under which somebody registered, the places where it was stopped that no later start repairs |

The actions bear the names of the steps of `dbInitialize`: `initRoles`, `insertRole` (`dbCreateRoles` queues
its insertions), `addHide`, `setHide`, `renameRoles`, `renameEditors`, `renameUserRoles`, `renameUserEditors`,
`initUserRoles`, `renameUsers`, `renameTemp`, `initUsers`, `findDummy`, `insertDummy`, `dropDummy`,
`findSU`, `insertSU`, `grantSU`; and `Register` (`postRegister`, meanwhile), `Stop`, `Start`.

- The identifier of the super user is that of the configuration, which `ini` gives as a string
  (`config.js:30`): `'0'`, the default, is true for `dbCreateSuperUser`, `dbRegisterUser` and
  `dbCreateUserCheckExists`, so that it is inserted with the identifier 0, not the next one (`SuId`).
- `postRegister` accepts any name: somebody may register as the super user, before it is inserted, or as
  the dummy, on which `dbCreateUserCheckExists` refuses the dummy at each start, which fails.  An
  insertion whose identifier or name is taken ends the start in `"failed"`.

- `AccountsKept`, `RightsKept`: whatever version the database was of, wherever the process was stopped and
  however often, the accounts are there with their identifiers and a role of the new names, and nobody
  who registers got a role, neither through an identifier used again nor by the name of the super user.
  `Lasting` leaves out one account: that of somebody who registered as the dummy and was given its
  identifier, which a start then deletes.
- `SuperUserCan`: the super user has its role, unless the process was stopped between the two insertions, or
  somebody registered under its name, whom every start takes for it.
- `StartEnds`: under weak fairness of `dbInitialize` and `Start` (SQLite answers, and a process that stopped is
  started again by its supervisor), a start ends unless it is stopped for ever; it fails only where the
  identifier or the name of the dummy, or those of the super user, are somebody else's (`Refusable`).

Each names the stops it leaves out.  These are what the code does not recover from: between the two
renames of the table of users (no later start looks for the temporary name); between the
creations of `Roles` and `User_Roles` (`dbRenameUserRoles` does not handle the error and never settles);
between the insertion of the super user and that of its role; between the addition of the column
`hide` and its filling.  No text of the repository promises otherwise.

`manager_start`: 2 old accounts, 3 who register, one of them as the super user and one as the dummy, a start
value of 4, so that those who register can reach it, the identifier 0 for the super user, as in the default
configuration; any number of stops.

## UserAccounts

The handlers of the accounts, cut at each SQL request: `createUser`, `editUser`, `deleteUserWithId`,
`postRegister`, `postLogin`, and `dbUpdateUserRoles`, which adds roles all at once, then removes others all at once.

| State | Code |
|---|---|
| `users`, `seq`, `userRoles` | the tables `Users` (its name UNIQUE, its identifier AUTOINCREMENT) and `User_Roles` (foreign keys, ON DELETE CASCADE) |
| `req`, `pc`, `uid` | a handler: what was asked, where it is, the identifier it goes on with |
| `orig`, `adds`, `dels` | `origRoles` as read, the additions and removals that are queued |
| `losses`, `before` | history: whether a user lost its name, or a role, while the request ran; the requests that had ended before |

`throws` ends the process where nothing handles an exception in a callback (`dbCreateUserCheckExists` and
`dbCreateUser` read the row of a user that is gone) or a rejection: `postLogin` reads the roles a second
time, for the token; where there are none any more, because the user is gone or its roles were removed, it calls
`.json()` then `.send()`, which throws, and handles that by `this.logout()` without parameters
(`authControllerPassport.js:54-60` and `76`), whose rejection nothing handles.
The requests under way are then lost, and the process started again.

- `RowsRefer`: no role outlives its user nor goes to another, since an identifier serves once.
- `RolesAgreed`: when the requests that set the roles of a user have ended, the user has the roles that
  the last successful ones agree on, and none that nobody asked for.
- `NeverBare`: an edit alone never leaves a user without roles meanwhile, even cut short: additions come
  before removals.
- `EmailsDistinct`: two users share an e-mail only by a registration, or by two requests at a time.
- `EndsByRace`: a request ends the process only where a user loses its name while it runs, or, for a login, a
  role: one after the other, requests never do.

`accounts_roles`: 2 requests of any kinds, 3 names, 2 e-mails, 2 roles and an unknown one: 1.4 million
states up to symmetry.  Every hazard here is a race of two handlers; those of more are covered where
the properties are proved.  Requests are used once: behaviours end.

## Proofs

`MediaStoreProofs` extends `MediaStore`; `tlapm` proves all of it, for any requests, media,
modes and faults and any bound on crashes.  Its assumptions are the two of `MediaStore`:
`ConstantsAssumption` (`Nil` is neither a request nor a media, requests are not media, the bound is a
number) and `NilAssumption` (`Nil` is no operation); TLC evaluates both in every run.

| Theorem | Shows |
|---|---|
| `Invariance` | `Spec => []IInv` |
| `TypeCorrect` | `TypeOK` |
| `StagedAreHidden` | `StagedHidden` |
| `CommitsAreUnique` | `CommittedOnce` |
| `StagingRefines` | `StagingKept`: `MediaStore` implements `StagingPromise` |

None of the safety properties is inductive alone.  `IInv` is a conjunction of four parts:

- `TypeOK`;
- `ReqInv`, which ties a request to its place: a request that is not received has left no trace,
  a staging identifier in `staging` or `trash` is that of a staged post that was answered,
  a commit that saved something names a staged post;
- `OnceInv`: two accepted commits of a post are one, and a post that was committed is no more in
  `staging` or `trash` (this is why a second commit is refused);
- `VisInv`: an entry in `zoneDb`, `fileDb`, the CSV or a save under way is a direct post
  or has an accepted commit.  It covers `snap` of the saves under way since these become
  the CSV, and the CSV since it becomes `zoneDb` and `fileDb` after a crash.

`StagedHidden` follows from `VisInv` and `OnceInv`: a visible staged post has a commit, one in the
staging area has none.  Each action has a step of its own, with the parts it disturbs below it;
the proof of refinement shows that each action is a move of `StagingPromise` or leaves
`phase` alone, `Stop` being `ExpireAll`.

`MediaTablesProofs` extends `MediaStoreProofs` with what the tables, the files and the CSV file
say of each other.  Each theorem leaves out only the faults that break its property (see
[MediaStore](#mediastore)): the others, crashes among them, may all happen.  TLC finds each property violated
when one of those faults is added to its run; `ServedIsListed` with `overlapMedia` takes four requests, a media
posted, then posted again and deleted at once, and another that keeps the zone from being empty.

| Theorem | Shows | Without the faults |
|---|---|---|
| `ServedAreListed` | `ServedIsListed` | `overlapMedia`, `csvError` |
| `ServedAreWhole` | `ServedIsWhole` | `overlapMedia`; `media_served` leaves `csvError` out too |
| `CsvIsSettled` | `SettledCsv` | `overlapZone`, `early`, `csvError`; `media_csv` leaves `diskError` out too |

To `IInv` they add:

- `FileInv`, for files: a path names a file that a post of its media created, no two paths name the same,
  and the write of a post is open on a file of its media (`fd`), whatever path that file has.
- `KeyInv`, for all three: the tables hold an entry under its own media, the zone one under a
  staging identifier when it is the post of that identifier.
- `ListInv`: a media that is served is listed or a deletion of it has not ended, and a save under
  way that will serve its media finds it listed.  A step takes a media out of the zone only by a deletion or a
  stop (`ListedStep`), and without `overlapMedia` no deletion starts meanwhile.
- `WholeInv`: one post at a time works on the staged file of a media (`Holding`: its content is being
  written, or it waits for its commit); a write that is open on that file finds it empty, and a staged post
  that was answered has it with its whole content, hence a commit moves the whole content
  of its post and no write is open on what it moves; until a direct post or a deletion of the media, it
  keeps a whole content.
- `CsvInv`: one request at a time is between its arrival and the end of its save, the save
  holds the entries that the zone still has, and at rest the CSV file is settled.  A
  deletion that empties the zone never saves (`media_last_delete`): the property, and the
  invariant, say nothing of an empty zone.

`FilesChangeByCommit` is an action property, `[][FileByCommit]_vars`, whatever the faults: the path of a media
that is only posted through staging names another file by a commit of it alone, until a delete of the media is
received, and that file keeps its content, unless another staged post of the media has it open (`fd`): two
posts shared the staged file, and a commit of one moved it while the other was writing.

The module also proves what happens in the end, from the weak fairness that `FairSpec` states and a
hypothesis on `ENABLED` (see [What only TLC checks](#what-only-tlc-checks)):

| Theorem | Shows | Without the faults | Hypothesis |
|---|---|---|---|
| `StagingIsLeft` | `StagingEnds` | none is left out | `TimersMayFire` |
| `WritesAreAnswered` | `PostsAnswered` | `crash`, `diskError`, `early` | `CallbacksMayRun` |
| `StagedFilesGo` | `StagedFilesReclaimed` | `crash`, `diskError`, `early` | `CallbacksMayRun`, `TimersMayFire` |

- `StagingIsLeft`: a post in `staging` or `trash` stays there until a commit, its timer or a stop, and enters
  `staging` only when its write ends: two timers at most, each by the rule for weak fairness.
- `WritesAreAnswered`: no fault of those stops the process (`CalmNext`, `CalmInv`), so that each callback takes
  its request from `writing` to `filling`, then to `saving`, to `opened` and to its answer, or to its answer at
  once, and no other step takes it back (`Advances`, `CalmStep`).
- `StagedFilesGo`: a staged file is that of a post that is being written to it, whose callback ends that, or that
  is in `staging` (`OwnedInv`), which it leaves with its file (`OwnedStep`).

`MetadataStorageProofs` extends `MetadataStorage`, for any edits, files and faults (`overlap`
included but in the last theorem), from `ConstantsAssumption` (edits are not files, and `Nil` is neither, nor a
status) and `NilAssumption` (`Nil` is no document).

| Theorem | Shows |
|---|---|
| `TypeCorrect` | `TypeOK` |
| `SentServed` | `SentIsServed` |
| `LastCommitIsSent` | `LastCommitSends`, assuming `"overlap" \notin Faults` |

`TypeOK` alone is not inductive: `HeldOK` says that a handler that runs has read what it goes on
with (a commit under way is of a file that rudi-media committed, which was uploaded after the
metadata was answered, so the metadata exists).  `ServedInv` follows the word `available` from
where it comes: a commit writes it in `media`, forms copy it and write it back, the test before
the mark reads it.  Each of these says that the file is committed, and rudi-media never
takes a commit back: this is the only thing that is used of it.

`LastCommitIsSent` adds `LastInv`, for any number of commits at a time.  `AloneInv` and `EditInv` say what the
absence of `overlap` gives: while an edit is handled nothing else runs and no file is on its way; what
the handlers counted are the media of the stored document, and once all are available they stay so.
The rest holds unless an edit failed (`Sound`: the property says nothing then).  `OnlineInv`: a metadata
stored as `online` misses no file, and a commit that misses one does not take it off line.  `FoundInv`, the
heart of it: when no file is missing, a handler found that, or a commit that has set its file
available is still to count.  `SendInv`: nothing stops a handler that found it but a save that is
forestalled.  With `overlap` the property fails, as said under [MetadataStorage](#metadatastorage).

`ObjectReferencesProofs` extends `ObjectReferences`, for any requests, organizations, contacts, metadata and
bodies.  Its assumptions are `ConstantsAssumption` (the identifiers of the three kinds differ, bodies are bodies)
and `NilAssumption` (`Nil` is no identifier of the database, no document and no answer).

| Theorem | Shows |
|---|---|
| `Invariance` | `Spec => []IInv` |
| `TypeCorrect` | `TypeOK` |
| `NeverDanglesOtherwise` | `DanglesByRace` |
| `InvalidOnlyReplaced` | `InvalidIsReplaced` |
| `SuccessIsStored` | `SuccessStored` |
| `AloneGetsItsAnswer` | `AloneAsExpected` |

`IInv` adds to the types: `StepsOK`, which handler may be where; `OverlapOK`, that two requests under way
are known to overlap; `StoredOK` and `ValidOK`, what a stored document says of the request that stored it;
`NewOK`, that the `_id` a request may still give was never given, so that a document that is deleted
does not come back; `RefsOK`, that each reference held by a handler or a metadata is there or excused;
`DeleteOK`, the heart of it: once a deletion passed its check, a metadata that refers to its
document was stored by a request that overlaps it.  Lemmas say what any step of a handler does to the
documents (`HandleFrame`, `HandleEffect`), so that the parts are each preserved by few cases.

`AloneGetsItsAnswer` adds `AloneInv`, about a request that no other overlaps: the database is as it found it but for
what it has done itself, and an object that its schema refuses is still to be looked up or created
(`badIsAhead`) until the answer is an error.  The objects of a field are looked up and created all at
once: a creation under way is of an object that is still missing, so that none gets in the
way of another, and a contact named in two fields is created once.

`UserAccountsProofs` extends `UserAccounts`, for any requests, names, e-mails and roles.  Its assumptions are
`ConstantsAssumption` and `NilAssumption` (`Nil` is no identifier, name, e-mail or request).

| Theorem | Shows |
|---|---|
| `Invariance` | `Spec => []IInv` |
| `TypeCorrect` | `TypeOK` |
| `RolesReferToUsers` | `RowsRefer` |
| `EndsOnlyByRace` | `EndsByRace` |
| `EditsKeepARole` | `NeverBare` |
| `EmailsApart` | `EmailsDistinct` |
| `RolesAreAgreed` | `RolesAgreed` |

`IInv` adds to the types: `PlacesOK`, where a handler of each kind may be, what it found before it came
there and what it has queued; `BeforeOK`, that a request that ended before another does nothing more;
`RowsOK`, `RowsRefer` and that no row or handler has an identifier beyond `seq`, so that an insertion takes a
fresh one; `NamesOK`, that a handler finds the name it goes on with unless a user lost it while it ran, and a
login the roles that it found unless they, or the name, were lost;
`KeptOK`, that an edit alone has removed nothing until it added what it should; `EmailsOK`, that two users
share an e-mail, or one is about to take that of another, only where this is excused.

`RolesAreAgreed` adds `AgreeInv`, for any number of requests at a time: for each user and role, what a handler
gave is still so, or was taken by a handler that had ended before none of those that gave it (`RoleOK`), and
conversely.  When all is over the last of those that set the roles, in the order of `before`, then
decide.  That there is a last one, although the requests may be infinitely many, comes from
`OrderOK`: those received are finitely many, and `before` is an order; among them, one with a set
`before` of the greatest cardinality is a last one.

`ManagerInitProofs` extends `ManagerInit`, for any accounts of the database that is found, any users who
register, any start value and any number of stops.  Its assumptions are `ConstantsAssumption` (the super user, the
dummy and the accounts that are found have different names, those who register are none of these accounts, users
are finitely many, `USER_ID_START_VALUE` is positive; those who register may bear the names of the super user and
of the dummy) and `NilAssumption` (`Nil` is no table, role or row).

| Theorem | Shows |
|---|---|
| `Invariance` | `Spec => []IInv` |
| `TypeCorrect` | `TypeOK` |
| `NoAccountLost` | `AccountsKept` |
| `RolesSurvive` | `RightsKept` |
| `SuperUserReady` | `SuperUserCan` |
| `UsersHandedOver` | `HandedOver`: what `UserAccounts` starts from |
| `StartsEnd` | `StartEnds`, under the fairness of `FairSpec` and the hypothesis `StartGoesOn` |

`IInv` adds to the types: `PlaceOK`, which tables exist and which old roles are gone by the place that
`dbInitialize` has come to; `RowsOK`, that the rows are those of accounts, the dummy apart, with no
identifier beyond `seq` and no key of another, and who may bear the name of the dummy; `HomeOK`, the heart of it:
unless a stop left them under a temporary name, all accounts that last are in one table, the only one there is,
and a role is that of one of them who did not register, so that an identifier never brings the role of
another; `RightsOK`, that each old account has a role, the old
or the new; `SuperOK`, that who bears the name of the super user has its role, is about to get it, or
registered.

`UsersHandedOver` follows from `RowsOK` and `HomeOK`: identifiers and names are unique in each table, the dummy
included, since an insertion is refused where one of them is taken; the dummy is gone once it was dropped, unless
somebody bears its name.  When the start has ended, one table of
users is left, its rows are the accounts, and each role is that of one of them: this is what `RowsRefer`
of `UserAccounts` says of its initial state, without its bound on the users.

`StartsEnd` ranks the places of `dbInitialize` (`stage`, from 0 to 24, with one rank for each role that it has
yet to create): where the process is up and no table was lost (`Fine`), each of its requests raises the rank and
no other step lowers it (`StageStep`).
`LostOK` says that a start gets stuck only where a table was lost, and fails only where it is `Refusable`, which are
the exceptions that `StartEnds` names.  The fairness of `Start` is not needed: a process that stays stopped is one of
them.

`MediaConnectorsProofs` extends `MediaConnectors`, for any posts, connectors, reads, medias and names, under any
faults.  Its assumptions are `ConstantsAssumption` (`Nil` is none of these, posts are no medias and finitely many) and
`NilAssumption` (`Nil` is no entry, connector, read or answer).

| Theorem | Shows |
|---|---|
| `Invariance` | `Spec => []IInv` |
| `TypeCorrect` | `TypeOK` |
| `ServesWhatIsDue` | `ServedCurrent` |
| `FailsOnlyIfDeleted` | `FailsIfDeleted` |
| `HashesRight` | `Md5Right` |
| `ListsTheZone` | `ListedIsZone` |
| `EveryConnectorCloses` | `ConnectorsClose`, under the fairness of `FairSpec` and the hypothesis `TimersMayFire` |

`IInv` adds to the types:

- `EntriesOK`, for each entry where its recording, its post and its deletion may be: while it is written its
  file is there, while it is saved the zone has it and the file its content; `ZoneOK`, under which keys the zone
  and the database have entries, and that these were written, or listed.
- `BusyOK`: requests that change a media take turns, and a post under way is the newest of its media.
- `FilesOK`, the heart of what is read: a file that has a name holds contents of entries of that name, is
  cut only where a post in place may have written it, and is no older than any entry of that name; it is
  missing only where the media was deleted or had lost it.
- `ListedOK`, the heart of what is listed: what the database and the zone have at each stage of an operation,
  failed saves included, unless requests were served too early.
- `ConnsOK`: the path that a connector or a read keeps is that of an entry that was listed, no older than what is
  due; each content that a read under way may find (`seen`) is one of that path, as recent.
- `AnswersOK`, the same of what was answered; `HashesOK`: while no post of a media is under way, the listed entry has
  the hash of its file, and a check of it has that file open, and nothing else to find in it.

Actions are of two sorts, those that change a media (`Writer`) and those that read (`Reader`), so that each part is
preserved by few cases.  What a writer does to a file and to those who read it is said once (`Opened`, `Recorded`,
`Renamed`).  Two step relations, `Grows` (an entry, a connector and a read stay what they are, ages, deletions and
answers are never undone) and `Kept` (a media that was listed is, or was deleted), carry the parts over the
steps that do not concern them.

`EveryConnectorCloses` needs `TimersOK` only: a connector that is there has its timer, and so has one that was
opened and whose removal was not logged, until the process ends.  Nothing but its own action disarms a
timer.

`PortalSyncProofs` extends `PortalSync`, for any sends, metadata, clock and faults.  Its assumptions are
`ConstantsAssumption` and `NilAssumption` (`Nil` is no document, JSON, entry or error, and no send is named
`never`).

| Theorem | Shows |
|---|---|
| `Invariance` | `Spec => []IInv` |
| `PublishesWhatItSees` | `PublishedSeesSends`, with stale forms too, which the run leaves out |
| `ReportsCount` | `HandledReportsCount`, assuming `"staleForm" \notin Faults` |
| `StatusFollows` | `StatusReckoned`, assuming `"staleForm" \notin Faults` |
| `NothingGoesBack` | `[][Forward]_vars`: no handler takes a metadata back to an earlier version |
| `TypeCorrect` | `TypeOK` |
| `NobodyWaits` | `recent = <<>>`: the purge leaves nothing of the waiting room |
| `PortalEndsUpToDate` | `PortalUpToDate`, assuming `"overlap" \notin Faults`; with network errors, repeated reports and a clock, which the run leaves out |

`IInv` is made of: `TypedOK`, the types of all but the waiting room, which the flags do not depend on;
`PlacesOK`, what a send and a handler have at each place; `VersionsOK`, that each document held
`Advances` to the one stored: where their versions are equal, so are their publications and, unless
forms are stale, their errors and statuses, which is why the save that `upToDate` allows writes what
it means to; `PublishedOK`, `HandledOK` and `StatusOK`, the properties themselves, the first with what
makes it inductive.  Thirteen actions only move a send on (`Moves`) and five save (`Saving`), so that each
part is preserved by few cases.  The heart is the mark: it raises the version, so that a report read
before it fails or no longer counts, unless it changes nothing, and then nothing was shown.

`PortalEndsUpToDate` adds `LatestInv`, about dates.  `DatesInv` is its heart: a JSON that was sent is no later than
the document that is stored, and from the first that has the stored content on, all have it.  `ReadInv`
says the same of what a send has just read and of what was sent before, which needs that two sends of a
metadata take turns (`AloneInv`); `NewestInv`, that the send under way has the latest date; `FreshInv`, that an
edit that was not submitted is in no document.  Then `PortalInv`: the portal has what some
send gave it, no older than what any send saw integrated or found no need to ask for, and
what it is still to integrate is not older than what it has.

`TypeCorrect` and `NobodyWaits` add `RoomInv` to `TypedOK`: the room is empty or has one entry, put there no later
than now, and a send that may look its entry up has an index.  The test of the age, with the delay on the
wrong side, holds of every such entry, so that `recent`, a recursive function on the indexes of the
room, is empty (`NothingKept`: the function that is empty everywhere satisfies the recursion, hence
`CHOOSE` gives a function that does, and on a room of one entry there is no other).  This is why
`isAlreadyWaiting` is never true.

## What only TLC checks

Every property that a passing run checks has a theorem.  What is left to TLC:

- What `ENABLED` says.  The provers know nothing of it, so that the five theorems of liveness take
  as a hypothesis that the fair action may be taken where the code has armed it, and nothing
  else: `TimersMayFire` (a staged post, or a connector of a process that is up, has a timer that may
  fire), `CallbacksMayRun` (a request that waits for its callback may get it) and `StartGoesOn` (a start that
  is not over may send its next request).  These are invariants of the models: each of the actions is
  a guard on the place and assignments, in every case that can follow.  Evaluated by TLC as invariants
  on the instances of `connectors_access`, `media_live`, `media_staging` and `manager_start` they hold in
  every state (no run repeats it: TLC checks the liveness itself, without them, in `media_live`,
  `connectors_access` and `manager_start`).
- Induction over data: the only recursive computation is `recent`, and what is proved of it
  (`NothingKept`) is about a room of one entry at most.
- That a property can fail: the runs with one of the faults that a theorem leaves out, and the mutants.

## Disagreements with the documentation

One is a run:

| Run | The code | The text |
|---|---|---|
| `media_last_delete` | `saveZoneCSV` writes nothing when the zone becomes empty, and calls no callback: the delete is not answered, and the media is back after a restart | `rudi-media/Readme.md:167`: the CSV file is "created and updated in all storage zones [...] to setup the media database when it restarts" |

The others are kept here, seen in the code while it was modelled; the models do as the code does:

| The code | The text |
|---|---|
| a line of the CSV that does not parse throws out of a callback and ends the process, at every start (`basiczone.js:387`) | `basiczone.js:366`: "Errors are ignored if a line within the CSV is incorrect" |
| the age test has the delay on the wrong side: each send purges every entry of the waiting room, and a metadata that waits for its report is never found there (`portalController.js:531`, theorem `NobodyWaits`) | `portalController.js:525`: "metadatas waiting for an integration report for too long to get purged from the list" |
| the entry is read at an index taken before a save (`portalController.js:589`); a report removed it, so that a send the portal accepted ends as an error and `refused` | `portalController.js:634`: "An error occurred while sending the metadata to the Portal" |
| a report saved between the reading and the saving of the metadata by the last commit makes this commit fail, after its media was set available: the metadata stays `pending` and is not sent (`metadataController.js:731`) | `rudi-api/README.md:189`: "If all the media were set as available, the metadata is sent to the portal and its status set to `pending`" |
| the hash of a media that was appended to is that of the last part (`basicfile.js:60`), until a check corrects it | `basicfile.js:30`: "The md5sum of the file content" |
| an interruption throws while it removes the connectors and closes nothing more (`basicdb.js:508`) | `basicdb.js:179`: "Close the file database, and flush all pending events" |

## What is not modelled

- Left out for want of state: local log files and the front of the manager (input and output),
  rudi-jwt, the evaluation of the rights of a zone, the parsing of queries (conversion of data), the INSPIRE
  or DCAT formatting of metadata, passwords and the content of tokens.
- Thesauri, SKOS and licences: lists kept in memory beside the base.  The licences are read once, so that
  the list is stale after an initialisation of the licences, and two initialisations at a time
  interfere; a thesaurus whose reading fails is written anew with its first values.
- The syslog transport: its UDP path sends each message at once; its other paths are not reached.
- The token of the portal: a cache renewed when it is refused; `PortalSync` keeps that it may be
  missing.
- In modelled components: media of type INDIRECT, several zones, deletions of metadata from the portal,
  media that are not files, metadata with a collection tag, the uniqueness of the e-mails of contacts.
- Most of the source is forms, layout, routes, messages and declarations of schemas, which keep
  no state that a property could be about.
- Everything that is on the portal's side but what `PortalSync` needs of it.
