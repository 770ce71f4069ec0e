# A verification of the nxt-lvl-api backend

The repository is an Express / Prisma / PostgreSQL backend in TypeScript that
serves several programs (Community Chronicle, TimeFlow, Mission Hub, Eventure,
Financial Hub) from one API process, plus one background worker that runs inside
the same process. This directory holds TLA+ modules translated from
its source, TLC configurations that check them on small instances, and proofs
that TLAPS checks for every value of their constants.

There is almost no locking in the code: a handler is a chain of awaited
database calls, PostgreSQL makes each call atomic, and anything may run between
two of them. Most of what can go wrong is therefore a question of which calls
of which handlers interleave, which is what the modules are about.

## The system

| Component | State it keeps | Operations | Hard behaviour | Correct when |
|---|---|---|---|---|
| Document processing queue (`processingQueue.ts`, `index.ts`) | `ProcessingJob`, `Document`, storage objects, the worker's local variables | poll, claim, extract, save, complete, fail, dead-letter, back off | crashes between calls, several processes, deletion under a running job, retries | a job has at most `maxAttempts` attempts; no document is forgotten; results belong to the current file |
| Chronicle document API (`programs/community-chronicle/routes`) | the same tables | upload, batch upload, entity upload, manual entry, retry, retry with type, attach file, bulk reprocess, patch, review, delete | handlers of several awaits racing each other and the worker | the row agrees with storage; a document in flight has a job |
| TimeFlow (`programs/timeflow/routes`) | invoices, clients, projects, time entries, time-off requests, expenses, bills, documents, workspaces, invites | CRUD, numbering, approval, acceptance, ownership transfer, relink | check-then-act between users of a workspace | numbers are unique, leave follows approval, records stay together, one owner |
| Mission Hub (`programs/mission-hub/routes`, `missionHubInvite.service.ts`) | people, projects, events and calendar, contacts and lists, time entries, submissions, imports, expenses, documents, invites | submit, review, pay, import, upload, link, invite, accept | review racing edit and resubmission, chains of writes that stop | what is paid is what was approved; rows, files and links agree |
| Eventure (`programs/eventure`) | events, participants, slots, attendees, registrations, payments and ledger, sponsors, import batches, invites | imports with preview, confirm and rollback, slot filling, payments, check-in, invites | transactions at read committed, partial imports | slots and counts agree, paid means a payment was confirmed, a rollback removes what the import made and no more |
| Authentication, organizations, provisioning (`authRoutes.ts`, `core`) | users, memberships, programs, subscriptions, access rows, storage settings | sign-up, passwords, provisioning, program catalogue, admin edits | read-then-create, hashing between check and write | a served organization can be used; whoever was given a password must change it |
| Financial Hub (`programs/financial-hub`, `taxIdEncryption`, `auditLogging`) | setup, documents and their files, intake records, state, tax identities, audit log | setup, upload, delete, review, upsert, reveal | file and row in two calls, duplicate detection by hash | files follow rows, one payee per tax id |
| Storage (`core/storage`) | objects in R2 or on disk | put, get, delete, migrate | replaced and deleted while read | an object outlives the row that names it |
| Document intelligence, health, email, metrics, seeds | none that outlives a call | classification, page grouping, probes | external service | pure functions |

Components talk through the database only. The one exception is the worker,
which shares the process, and so its restarts, with the handlers.

## Modules

### ProcessingQueue — `processingQueue.ts` and the document handlers

Every awaited database or storage call is one action. `worker[i].pc` is the
place in `processSingleJob` between two of them, and the fields next to it
are the local variables that live across: the job id, the file path read when
the job was selected, and the attempt count, error-log length and forced type
read by the re-fetch. `req[c]` is a handler in flight in the same way. Each API
process runs one worker, because `workerRunning` is a variable of the process.

| Code | Action |
|---|---|
| `tick` / `processSingleJob`: `findFirst`, the claim, `findUniqueOrThrow` | `Select`, `Claim`, `Refetch` |
| the intake update, the R2 download, extraction with its time limit | `Intake`, `Download`, `Extract` |
| the final update, the completion | `Save`, `Complete` |
| `handleJobFailure` | `FailJob`, `FailDoc`, then `BackoffElapses` |
| uploads, entity uploads, manual entries | `Upload`, `UploadEmployeeRecord`, `EntityUpload`, `LinkDocument`, `CreateManual` |
| `enqueueProcessing` | `Enqueue` |
| retry, retry-with-type, attach-file, bulk reprocess | `StartRetry`, `RejectRerun`, `StartAttach`, `UnlinkOld`, `StoreNew`, `StartReprocess`, `RequeueRows` |
| delete | `StartDelete`, `DeleteJobs`, `DeleteRow`, `DeleteBlob` |
| review, patch | `Review`, `Patch` |
| process exit, a failing database call | `Restart`, `AbortRequest`, `WorkerThrows` |

Two error paths of the code are kept apart: an exception before the `try` block
reaches the catch of `tick`, which only logs, so the job stays `processing`
for good; one inside it goes to `handleJobFailure`. Text, tags, titles, the OCR
status and the history are left out; the merge of a blob upload with the
row that names it, of the read and update of a review, and of a batch upload
into one `Upload` per file are the other abstractions. What classification
computes is a nondeterministic choice among its outcomes. PATCH is
reduced to the two fields the queue reads; that it may also replace the
extraction record is not modelled.

**JobLifecycle** is what the job table promises: a job is submitted, attempted
while attempts remain, succeeds, or fails into the queue or, after the last
attempt, for good; a failure adds one error-log entry; any job may be discarded.

### InvoiceNumbering — TimeFlow invoices

An invoice id doubles as its number and is a primary key shared by all
workspaces. `POST /invoices` inserts; on a unique violation it scans the series
for the highest number, and inserts one above it, at most five times. An id is
a series, a number and the width of its digits, so `INV-009`, `INV-10` and an
id without trailing digits can all meet. The insert, the scan and the two
calls of DELETE are separate actions. `rivals` is a history variable: how many
invoices others created in a request's series since it started.
PUT changes neither id nor owner and POST without an id lets the database
choose one; both are left out. Numbers above 2^53, where `Number()` rounds, are
outside the model.

### TimesheetSubmissions — Mission Hub time entries and their review

`entry` and `sheet` are the two tables; a handler is between two of its calls.
`POST /timesheet-submissions` is `StartCreate`, `CreateSheet`, `MarkEntries`;
`/submit` is `StartResubmit`, `Resubmit`, `ResubmitEntries`;
`handleSubmissionAction`, which serves all eight review routes, is
`StartAction`, `Act`, `ActEntries`; `PUT` and `DELETE /time-entries/:id` are
`StartChange` with `EditEntry` or `RemoveEntry`; `POST /time-entries` is `PostEntry`.
`POST /timesheet-imports` writes the same tables (`StartImport`, `ImportSheet`,
`ImportEntry`): an employee's hours become a submission with the status the file's
approval maps to and, attached to it, an entry. The package they come in is
TimesheetImports. The status a handler checked is the one it read in its Start action,
the rows it writes are the ones of the later actions, which is the point. Hours are
reduced to a revision an edit increments and totals to the set of entries that were
added up. The approval log, notes and timestamps are left out: nothing decides on them.

History: `ready`, the submissions that were approved here or imported as approved;
`claimed`, the entries to which a client's POST or PUT gave a status or a submission,
as both store what they are sent; `calm`, whether requests have run one at a time.

### EventureInvites — Eventure personnel and their links

`person`, `invite`, `account` and `member` are the tables, restricted to one
organization. Adding a person is `StartAdd`, `AddPerson`, then
`issueEventureInvite` as `Issue`, `Mail`, `IssuePerson`, `IssueMail`; adding a
known one is `Reinvite`. A resend is `StartResend`, `Remail`, `StoreToken`,
`ResendPerson`; revocation and removal are a check and a transaction
(`StartRevoke`, then `Revoke` or `Remove`); a visitor's acceptance is `StartAccept`
(the validation), `ExpireInvite` or `FindUser` and `AcceptInvite`. The
acceptance transaction is split in two because PostgreSQL runs it at read
committed: a user that appears in between makes the unique email abort it. A
deadlock between an acceptance, which locks the person and then the invite, and a
revocation, which locks the other way round, ends one of them: `AbortRequest`.

Names, roles, notes and passwords are left out, and with them `PATCH
/personnel/:id`. Two consecutive reads of the same row in one handler are
merged. A removed row keeps its id with the status `removed`, so that ids are
not used again. `links`, `last` and `used` are history variables.

### WorkspaceMembers — TimeFlow workspaces

`space`, `role` and `invite` are the tables `Organization`, `Membership` and
`TimeflowWorkspaceInvite`; `role[w][u]` is `"none"` where there is no membership. A
user stands for an email, and `account` holds those with a `User` row.

| Code | Action |
|---|---|
| `POST /organizations`, setup | `CreateSpace`, `AddOwner` |
| transfer-ownership | `StartTransfer`, `FindTarget`, `Transfer` |
| archive, `DELETE /organizations/:id` | `StartClose`, `CountSpaces`, `CountOthers`, `CountData`, `DeleteMembers`, `Archive` |
| team invites: create, resend, revoke | `StartInvite`, `ExpireOld`, `CreateInvite`; `StartResend`, `Resend`; `StartRevoke`, `Revoke` |
| accept-invite | `StartAccept`, `ExpireInvite`, `FindAccount`, `SignUp`, `FindMember`, `Join`, `MarkAccepted` |
| register, the clock, a failing call | `Register`, `TimePasses`, `AbortRequest` |

A transfer is one action: its transaction updates two membership rows by id and the
workspace, and the row locks it takes keep other writers of those rows out. It fails
as a whole when DELETE has removed a row it read, which `kept` records: rows are
found by id, so a membership created again later does not count. Names, slugs,
profiles, the kind of a workspace, the data in it (a choice in `CountData`) and
tokens are left out, as is the default flag. `emptied` is a history variable.
Joining by an `OrgInvitation` is left out because nothing creates one; the core
admin API can also edit memberships and is not modelled.

### Mission Hub: six more modules, composed with TimesheetSubmissions in MissionHub

| Module | Models | Calls kept apart |
|---|---|---|
| MissionHubExpenses | `POST`, `PUT`, approval and deletion of expenses | the read of a row and the update that may write its approval back |
| TimesheetImports | import of a package of hours, its lifecycle table, the review before finance | intake, one submission per employee, the two final updates |
| MissionHubRecords | programs, projects, grants, sponsors, campaigns, tasks, events, calendar entries, reports | the look-up of a linked row and the write; an event and its calendar entry |
| ContactLists | contacts and lists, whose tables are created on first use | the deletion of a contact and its removal from lists |
| MissionHubDocuments | uploads, links, exports, closing, storage endpoints | the object, the row, the link, the cleanup; a default endpoint and the clearing of the others |
| MissionHubInvites | people, invite tokens, acceptance, sign-in, resets | the five writes of an acceptance; a resend's token and mail |

`POST /expenses` stores whatever approval status it is sent, approved ones too: an
expense remembers the status it was posted with, and what is claimed excepts the ones
posted as approved. `POST` and `PUT /documents` store any storage key: only
a document in `held` has the file of its own upload.

MissionHub declares the variables of the seven as its own and takes each module with
`INSTANCE`: a step of the whole is a step of one of them. Theorems are about
MissionHub; `MCMissionHub` extends it, gives it a small instance and adds the
scenarios. Timeflow and Platform are built the same way.

### TimeFlow: three more modules, composed with InvoiceNumbering in Timeflow

| Module | Models | Calls kept apart |
|---|---|---|
| TimeOffRequests | filing, approval with its leave entry, denial, cancellation, deletion | the look-up of a client, the entry, the mark |
| TimeflowRecords | clients, projects, entries, invoices, bills, expenses and documents of an owner in an organization; the fallback of `resolveEffectiveDataUserId`; the relink | scope, look-up of the linked rows and write; the counts of the relink and its transaction |
| WorkspaceProfiles | accounts, setup, workspaces with their slug, kind and profile, invitations by code, default workspace | the read of the workspace's row, the count of members, the upsert |

A document's key may name a file or none (`file`): `POST /documents` does not look.
`calm` in these three is a history variable: it is true as long as no two requests
have been under way at the same time (in TimeOffRequests, nor one stopped half-way).
Some of what the routes promise holds for as long as it is true, and the properties
say so themselves: a run does not have to be confined to one handler, and a
theorem can state it.

### Platform: five modules, composed in Platform

| Module | Models | Calls kept apart |
|---|---|---|
| OrgProvisioning | creation of an organization, its subscriptions, partition, contact and grants; sign-up; bootstrap; edits by a platform admin; the gates that read these rows | every look-up and every write of the provisioning loop |
| OrgAccounts | registration, first, chosen, temporary and reset passwords, owners, roles | the read of an account, the hash, the write |
| ProgramCatalog | programs and the sections of the app settings | the row a PUT checks against and its update |
| FinanceHub | setup, documents and files in the backend the resolver picks, intake review, saved state | file and row |
| TaxIdentities | encrypted ids with duplicate check, reveals with their limit, the audit log | check, write, flag, log |

The routes of TaxIdentities ask for a role that no code assigns; the module models
them for a caller who has it.

### Eventure: five more modules, composed in Eventure

| Module | Models | Calls kept apart |
|---|---|---|
| EventureWorkspace | participants, payments, the ledger, attendee slots, registrations linked to them; confirmation, creation, removal, merge, slot edits | reads before a transaction and the transaction; a confirmation, its slots and its registrations |
| AttendeeDirectory | attendee rows found by mail address, phone or name with company; desk, quick-add, import, check-in, seats, bulk fill | the match and the write of the merged fields |
| AttendeeImports | preview, confirm row by row, rollback of attendee lists | each row; the batch verdict |
| PaymentImports | preview and confirm of payment files | the ledger entry, the participant's confirmation, the row's mark |
| SponsorImports | preview, confirm, retry, archive and hard delete of sponsor lists; the desk's saves and archivings of the same rows | company, contact, event sponsor and mark of a row; analysis and rollback |

An import's file is one of a few sequences of rows, a row says whom it names and
what of it can be matched; parsing and mapping of columns are not modelled. Rows of
the ledger are reduced to whether they cover what is due. A client's choice
about a row (approve, skip, assign, create) and its edits are members of small sets.

Each module has a `calm` variable, and histories of what clients, failures and
rollbacks do to rows behind an import's back:

- AttendeeDirectory: `edited`, the mail addresses an edit wrote. A bulk fill may send
  what a row lacks as an empty string, which clears the field and not its key.
- AttendeeImports: `past`, whether a registration was deleted or its kind changed, the
  batches a client gave a registration to (desk and PATCH store any batch), the batches
  of which a confirm ended half-way.
- PaymentImports: `halted`, the batches of which a confirm ended half-way. A throw in the
  row's `try` fails the row, before its payment or after it; one after `importedRows`
  was counted makes it count as both. One outside the `try`, or a stop, ends the confirm and leaves
  the batch awaiting another. The rows of a preview are one `Promise.all`, stored as one step.
- SponsorImports: a batch has a mode, and only one that assigns an event writes event
  sponsors; a decision may put another company and person in a row's place; the desk may
  name a row's batch, and rename a company or a contact it finds by id. A rename gives
  the row the new name's place and a new id. A company is renamed only while no other
  request is in flight: after one that overlaps, nothing is claimed either way (`cleared`, and
  `spCalm` is false). `revived` are the batches whose rows the desk brought back.

## What the runs show

Every run names its bounds in its cfg or, for the composed modules, in the `INSTANCE`
definitions of its MC module. `Handlers` (or `Clients`) are slots for
requests in flight; two slots give every order of two requests, and the tables
keep what earlier requests left, so a slot is used many times in one behaviour.

| Run | Instance | Shows |
|---|---|---|
| `queue_documents` | one document on the local disk, two handlers, three files, two jobs, two attempts, fairness, no faults | no document is forgotten (`NoForgottenDocument`), no result of a replaced file stays (`FreshText`), a row's file exists (`FileReachable`), what is queued or started is processed, failed or deleted in the end (`DocumentsSettle`) |
| `queue_forgotten` | two documents in R2, a bulk reprocess and a deletion | documents shown as queued that nothing moves on (a violation, below) |
| `queue_faults` | one document, two jobs, three attempts, crashes and failing calls | `AttemptBudget`, and that the queue implements JobLifecycle |
| `queue_pickup` | two processes, one document, one job | both processes run the job (a violation, below) |
| `invites` | two people of one email, two invites, four tokens; two scenarios | an accepted person or invite has a member account, an accepted invite was accepted with its token; without overlap, statuses agree, the newest link works, links are used once (`InvitesAgreeAlone`), accepted and revoked invites stay so (`InvitesStayAlone`) |
| `workspaces` | three users, two workspaces, two invites; two scenarios | the owner a workspace names is an owner (`OwnerOfRecord`), an accepted invite made a member (`AcceptedAreMembers`); without overlap, `RequestsAlone`: one owner, one open invite per email, a deletion takes one's own membership and leaves another, revoked invites stay so |
| `mission_hub` | thirteen scenarios over seven modules | an approved expense was signed or posted so; what is processed or paid was approved (`PaidWasApproved`); without overlap, entries follow their submission, locks hold, no entry is taken twice, payment follows processing; packages are imported once and reviewed before they are sent, links stay with their owner, files of uploads exist, accepted people have accounts |
| `timeflow` | eight scenarios over four modules | an approved request lists its leave, bills and projects stay with what they are for through a relink, documents are shown with them, a profile does not change the kind of a workspace; an invoice is refused only after enough rivals (`DropNeedsRivals`), a scan finds a number above all others (`RenumberedAbove`) |
| `platform` | ten scenarios over five modules | an organization that was answered as created can be used, a temporary password must be changed, files follow rows, tax identities are unique, first passwords and settings survive |
| `eventure` | twenty scenarios over five modules | paid means a payment was confirmed; slots, counts and flags add up; search keys follow fields; imports say what they did; nothing that somebody put in place is taken away |
| `eventure_unseated` | one request at a time, two attendee lists | paid attendees are left without a slot (a violation, below) |

The runs `mission_hub`, `timeflow`, `platform` and `eventure` hold several components
that share no row: a behaviour moves the one its `scenario` names, so the states are
the sum and not the product of theirs (1.3, 3.7, 1.3 and 2.3 million).
Each of their properties is a conjunction of properties the modules state. Those that
hold in every behaviour are stated in the composition, where the theorems are; those that
ask for one request at a time too where a `calm` variable tells, else in the MC module,
told apart by scenario. `TypeOK` of
these modules is in `Types`; in the others it is a conjunct of the inductive invariant
that is proved.

The scenarios whose names end in `alone` have one handler, which runs to its end
(`merge`, `sync`, `seats` and `close` do too, `stops` and `space, alone` with a
handler that may stop); in the others two handlers interleave
and, where the module has faults and outside `endpoint`, may stop anywhere. The properties whose names end in
`Alone`, `CarefulHandlersAgree`, `FirstPasswordsAndSettingsKept`, and the conjuncts that
ask for such a scenario or for `calm`,
answer one question, does the code do what its messages say when requests do not
overlap; the unconditional ones answer the other, what is left of it when they
do. Nearly every property of the first kind is lost under overlap, by one shape of
behaviour: a status is read, then the row is written by id.

| Kept alone | Lost when |
|---|---|
| `EntriesFollow` | two reviews of a submission interleave their two updates |
| `NoLockedEdit` | an entry is submitted between the lock check of PUT or DELETE and its update |
| `TakesFreeEntries` | two submissions find the same drafts |
| `PaysProcessed` | a submission is reopened, or paid already, between the check and the update |
| `PersonFollowsInvite`, `LatestLinkWorks` | two sends, or a send and an acceptance, interleave |
| `LinksWorkOnce` | two acceptances validate before either commits |
| `NoDuplicateActive` | two requests to add an email both find nobody |
| `RevokedStayUnused` | an invite is revoked between its validation and the transaction |
| `AcceptedForGood` | an invite is accepted between the check of a removal, resend or revocation and its update |
| `OneOwner` | two transfers by one owner both read him as the owner |
| `OnePending` | two invites of one email both expire the older ones before either is created |
| `DeletesOwnOnly` (WorkspaceMembers) | somebody joins between the count of the others and `deleteMany` |
| `KeepsAnother` | two deletions by one user each count the other workspace |
| `KeepsRevoked` | an invite is revoked while it is being accepted |
| `LeaveBookedOnce` | two approvals both read the request as pending |
| `LinkedTogether` (the organization), `DocumentsReadable` | a relink moves a client between its look-up and the insert of what is for it |
| `ProfileKeepsKind` (without a meta row) | somebody joins between the count of members and the upsert |
| `CalendarFollows`, `ListsNameShown` | a deletion comes between a read and the write that follows it |
| `OneFirstUser`, `InitialOnce` | two registrations both count no user; a password is set while another is hashed |
| `SettingsKept` | two saves both merge into the settings they read |
| `IdentitiesConsistent` | two payees are given one tax id between check and write |
| `SlotsMatchCount`, `LinkedOnce`, `FlagFollowsLedger` | two requests reconcile, link or pay for one participant |
| `RecordedOnce`, `VerdictMatchesRows`, `RowsNameTickets` | a batch is confirmed twice at once, or while it is rolled back |

The scenarios bound what is not their subject: outside `collect` one entry is
touched at a time, in `review` the worker submits or imports, nothing is edited or
deleted and nothing reopened, in
`collect` nothing is edited and the only review action asks for changes, and in
`overlap` of `invites` there is one person with three tokens. In `workspaces`, one
request at a time, two users have two workspaces and invite employees only (an
owner may invite an owner, which is the other way to have two); in its `overlap`
three users share one workspace, invites are for owners and none is overdue, and
nothing is archived without being deleted. What they leave out is covered by
the proofs of `HubInv`, `InviteInv` and `MemberInv`, which need no scenario.
The composed runs have two of each kind of row where two of them can meet, and one
where only requests do: two payees for a duplicate id, two companies for a merge,
two files for an import over another, one participant for its slots.

`CHECK_DEADLOCK FALSE` everywhere, because all these systems may stop: no client
has to send anything, the quotas of jobs, requests, submissions and tokens are
used up, and an idle worker only polls.

Bounds beside the sets: `MaxJobs` jobs ever created, `MaxPosts` requests,
`MaxSubmissions`, `MaxEdits` of an entry, `MaxTokens` generated, `MaxRev` edits,
`MaxTurns` denials, `MaxReveals` and `MaxLog`, `MaxSlots`, `MaxPays`, `MaxAttendees`,
`MaxBatches`, `MaxContacts`, `MaxOrgs` rows; `Ops`, `Sent`, `Kinds`,
`PatchStatuses`, `PutStatuses`, `PutSheets`, `InviteRoles`, `Bodies`, `Files`,
`Decisions`, `Choices`, `Edits` say which requests clients send.
`MaxAttempts` is 3 in the code (2 in the runs that are about something else),
`MaxIdAttempts` is 5 (3 in the run). Two attempts already
have a first, a last and a retry; three tokens let one resend race another.

### What the code does not keep

`queue_forgotten` checks what the bulk reprocess says of the rows it leaves out: "Skip
anything already in flight" (`routes/index.ts:2587`). It goes by their status, and a
row can have the status `queued` with nothing on its way: the reprocess marks all
selected rows `queued` in one update, then enqueues them one by one; a document deleted
meanwhile ends the loop with an exception, and the others wait without a job, which
every later reprocess skips. `NoForgottenDocument` and `DocumentsSettle` except the
documents another deletion may have `LeftBehind` in this way, and no others.

`queue_pickup` checks the comment on the claim (`processingQueue.ts:1246`), "Mark as
processing immediately to prevent duplicate pickup": two processes select a job before
either claims it, and the claim is by id alone.

`eventure_unseated` checks a sentence of `attendee-import.service.ts` (line 922): paid
attendees of eligible companies become participants and get slots. The preview
stores a row without its payment status (533-546), the confirm finds none and
skips every row as unpaid, so no imported attendee gets a slot.

More was met on the way that has no run of its own.

| The repository says | The behaviour |
|---|---|
| the rerun uses the type the user forced | the worker writes back the record it read before |
| an invoice is never dropped for its number | five lost races |
| a used invite is refused | two acceptances validate before either commits |
| you cannot archive your only workspace | archived ones are counted too, so a user archives one after the other |
| a legacy owner is resolved only for a user without records | the records may appear between that look-up and the request |

The filter of the bulk reprocess
also names `processing`, a status no code
writes to a document (the worker's is `intake_complete`), so a document a worker
has started on is processed again. A DELETE of a workspace that stops between its two writes
leaves an active workspace without members, which invites still let people into;
that is why `OwnerOfRecord` excepts the workspaces in `emptied`. A submission whose entries a request for changes
detached can be submitted again without any. A Mission Hub upload whose link fails
deletes the file of a row that stays (`lost`). An attendee import rewrites the mail
address of an attendee and not its search key. A confirm of attendees does not
ask for the batch's state, so a batch is confirmed again; one of payments that stops before
its last write leaves a batch that records its payments a second time. `POST
/time-entries`, `/expenses` and `/documents` store statuses, submissions and storage keys as sent,
so that a client can write an approved entry or expense without an approval. The rows of the table of
properties kept alone belong here too.

### Fairness

Only `DocumentsSettle` needs it. `FairSpec` of ProcessingQueue assumes weak
fairness of each worker's steps (the poll is a `setInterval`, every awaited call of
the worker settles, extraction by its `JOB_TIMEOUT_MS`), of the backoff (time
passes), and of each handler's next call (the event loop runs it when its promise
settles). Nothing is assumed about clients or faults.

## Proofs

TLAPS checks the `*Proofs` modules. They hold for every value of the constants
under the named assumptions (`BoundsAssumption`, `RolesAssumption`, ...), which TLC
evaluates in every run of the module.

Every proof has the same plan. The property is seldom inductive, because a handler acts
on what it read some calls ago: what it needs of the tables, `knows`, is said of each
place between two calls, for every handler, and has to survive whatever the others
write meanwhile. The invariant is the property, the types and that knowledge. One lemma
says what any step must show of the tables so that the waiting handlers are spared
(`OffMoves`, `RowMoves`, `SpaceMoves`, `OthersSpared`, `StepIsFramed`, ...), and each
action then needs one proof about itself, not one per pair of actions.

- **Queue** (`ProcessingQueueProofs`). `QueueInv` strengthens `AttemptBudget` by
  `WorkerKnows`, what the worker remembers of its job and what the job table says
  (after the claim the job is `processing`, the re-fetched attempt count is the
  row's), and `JobAccounts`, the error log against the attempts. Only `Claim`,
  `Complete`, `FailJob`, `BackoffElapses`, `Enqueue` and deletions write the job
  table, which is a lemma that spares every other action. From the invariant
  every step refines JobLifecycle. The hypothesis is `OneInstance`: one API
  process. Two of them may claim the same job, so it is needed.
- **Queue, documents** (the same module), without faults. `FileInv` is who owns which
  file: an object is written and removed by the request that generated its key only,
  and a row's object is stored unless an attach for the row is replacing it; this is
  `FileReachable`. `RunInv` says that jobs go with their documents and that a
  worker has its row's present file unless something newer is on its way for the row
  (`Later`). `FreshInv` adds that a worker which has yet to write finds its row not
  processed, and gives `FreshText`: a worker that read a replaced file never has the
  last word. `KeptInv` follows who has promised to move a queued or started
  document on (its job, the worker, a handler) and gives `NoForgottenDocument`. The
  hypothesis `Faults = {}` is needed: a failed call or a restart between the row and the
  job is just what loses a document. PATCH can set the status by hand, and the two
  theorems on statuses exclude the statuses that would make them false by itself:
  `processed` for the text, `queued` and `intake_complete` for the promise.
- **Invites** (`EventureInvitesProofs`). `InviteInv` adds what a handler relies on
  between two calls (its invite stays one of its person, a token it is about to
  store is nobody else's, a token it accepts can only be found on an invite of its
  person) and that tokens are unique. A row that was removed while an email went
  out is the case that makes it subtle: the same person may have a new invite by
  then, with another token.
- **Workspaces** (`WorkspaceMembersProofs`), under `IdsAssumption` and
  `RolesAssumption`. `MemberInv` adds what a handler relies on (until its owner is
  added, nobody else names a new workspace; the members a transfer read stay while
  their rows do; an invite being accepted stays one of its workspace) and that
  invites only exist for workspaces that have had members.
- **Mission Hub** (`MissionHubProofs`), under `HubAssumption`: admins are approvers and
  approvers are users, clients send known statuses, unknown employees are some of the employees, every person has one email
  and one organization. `HubInv` has a part per component.
  `ExpenseInv`: who is about to write an approval may. `SheetInv`: the submission a handler
  works on exists, and one that carries an action past approval was approved at some time;
  a status read early may be stale, but `ready` only grows, which is why approval
  cannot be skipped although two reviews may overlap. While `calm`, what a handler read is
  what it finds (`SheetsFollowed`), for entries nobody claimed. `ImportInv`: two handlers never import the same
  package, there is no submission before the intake, and a package that is reviewed, or
  about to be allocated or sent on, is in the history of those reviewed; so two imports
  of one package make one submission per employee. `RecordInv`: the row a handler looked up keeps kind and owner until it
  links to it. `DocInv`: the object of a row that is not yet there is its handler's, and
  a held document's object is stored until a failed link takes it. `InviteInv`: an accepted person or invite
  has passed the two writes that make the account and the membership.
  `OneDefaultUnlessStopped` has the hypothesis that no handler stops half-way, since
  making an endpoint the default and clearing the others are two calls.
- **Platform** (`PlatformProofs`), under `PlatformAssumption`: Chronicle is a program,
  an admin sets known statuses, nobody's name is taken, and the environment
  names a backend. `OrgInv` follows a
  provisioning request through its loop (`Provisions`: what it has passed is in place or
  was touched by an admin since), so that `Kept` holds when it is answered, although
  another request for the same organization may run or have stopped anywhere.
  `AccountsInv` is `TemporaryMustChange`, which every write keeps by itself. `CatalogInv`
  needs `Merged`: a PUT merges its body with the row it read, checks the result and
  writes type, route and address of that result together, so what another PUT wrote in
  between cannot make a mixture that nobody checked. `FinanceInv` says which requests have
  an object without its row or a row about to lose its object, as long as the
  storage settings stay (`changed`).
- **Eventure** (`EventureWorkspaceProofs`, `EventureProofs`), under the assumptions of its
  modules on their bounds and files. A step moves one module, so the invariant is one per
  module, each with its own knowledge of requests. `Work`: what a transaction read before it
  may be stale, but paid companies and their mergers only grow, which is `ConfirmedWasPaid`;
  while `calm`, one request owns what it read, and slots, counts and flags are restored
  before it ends. `Dir`: a row keeps the key of its address through every merge but an
  import's and an empty string's. `AttendeeImports` and `PaymentImports`: a request carries
  what its rows have been marked as, the rows behind it are what their marks say, and the ledger
  has none of the rows before it. `SponsorImports`: a row at `sponsor` or `mark` has its
  company and contact in place, as nothing is taken away until `cleared`; while `calm`,
  what a rollback's analysis read is what its transaction finds.
- **TimeFlow** (`TimeflowProofs`), under `TimeflowAssumption`: there is a bound on turns,
  memberships are in organizations, the core's organization is one of finitely many.
  `OffInv`: the entry an approval is about to name is one made for its request; while
  `calm`, the entries of a request are at most the times it was turned, and one
  more from the approval's insert on (`Booked`). `RowInv`: what a request looked up has
  its kind and owner until the write, because rows never change those (`Still`);
  `Linked` and `Attached` are the two properties in inductive form. A relink keeps
  them since it moves every kind of row a link may have at either end. `SpaceInv`: an
  organization that asks for a slug has none, so by the pigeonhole principle one of the
  numbers up to the count of organizations is free and the search ends; and a
  request that saves a profile carries the kind the workspace has. `ContentionInv` of
  invoices: each conflict after the first is charged to a rival that was created after
  the scan before it.

The proofs cover more than the runs name: the inductive invariants and the type
invariants in them hold of every instance.

Model-checked only: `DocumentsSettle`, which is liveness under fairness and beyond the
provers here, and the properties that end in `Alone`, `CarefulHandlersAgree` and
`FirstPasswordsAndSettingsKept`, which are about behaviours with one request
at a time in modules without a `calm` variable.

## Plan

What is left is proof: a `calm` variable in WorkspaceMembers (`OneOwner`, `KeepsAnother`)
and EventureInvites (`InvitesAgreeAlone`), so that what they promise of one request at a
time can be stated as a theorem as it is in the other modules.

## Not modelled

- What the model server, the mail service and R2 do inside: they are calls that
  succeed or fail.
- Metadata extraction by regular expressions, HTML and PDF layout, dashboards,
  reports and seed scripts: they read, compute and print.
- Middleware that only turns requests away. Rights are modelled where a decision
  about state depends on them (review roles, submitters).
- The compiled `packages/notification-core/dist`.
- Writes to a single row on which no other row depends: tasks, packages, price
  options, volunteers, ticket types and orders of Eventure, document types, entities
  and categories of Chronicle, branding, viewer links, the fields of a profile.
- Year history, follow-ups, flights and packages of a sponsor list, which rollback
  treats like the records that are modelled.
- Logo imports, which write one field of a company, and revenue imports: they add
  participants and slots next to the paths that are modelled, and would need a module
  of their own.
- File parsing, column mapping and fuzzy matching of names: an import's rows are
  given with what they match.
- Amounts, except whether they cover what is due; hours, except as revisions.
- The status of an organization, which is stored and which no gate reads.
