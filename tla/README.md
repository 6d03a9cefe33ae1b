# Alsasvize: a TLA+ model of the visa workflow

Alsasvize is the back office of a visa agency. A customer's *application* (a
"file") moves through three departments, sales, documents (DOC) and secretariat
(SEC). In each department it waits in a pool, is claimed by one member of staff,
worked on, and handed to the next department's pool. The server is NestJS +
Prisma + PostgreSQL (`backend/`), the client Next.js (`frontend/`).

This directory holds TLA+ specifications of the server, TLC configurations that
check them on small instances, and proofs checked by TLAPS. All paths below are
relative to the repository; `va.service` stands for
`backend/src/visa-applications/visa-applications.service.ts`.

## 1. Inventory

| Component | State | Operations | Interacts with |
|---|---|---|---|
| Application workflow (`va.service`) | `currentStage`, `assigned{Sales,Doc,Sec}Id`, `salesStaffId`, `stageUpdatedAt`, CRM record, audit rows | create, claim, transitionStage, updateCrm, pause, resume; God-Mode: reassign, forceCancel, forceStage | everything below; events and e-mail after each commit |
| SLA monitor (`sla/sla-monitor.service.ts`) | `isRunning` | cron every 5 minutes: scan, revert each stalled file | the application row, audit rows |
| Users and admin (`admin/`, `users/`) | users, staff profiles | createUser, createStaff, deleteUser, updateApplicationCoreData, removeOnboardingApplicant | deletes and nulls across all tables |
| Documents and storage (`documents/`) | document rows, stored objects | createUploadUrl, approve, reject, remove, download | the DOC -> SEC gate; delivery |
| Document assistant, delivery (`va.service`) | one card per document type, delivered snapshot | updateDocAssistantStatus, deliverToCustomer | documents, e-mail |
| Appointment operations, forms (`va.service`) | CRM appointment columns, details per applicant, `metadata` | updateAppointmentOps, updateDetails | linked files of a customer, documents |
| Reminders and messages (`sla/appointment-reminder.cron.ts`, `messages/`) | messages, `isRunning` | hourly cron, send, markAsRead | e-mail |
| Dijizin (`dijiizin/`) | token cache, `dijizinKvkkVerified` | KVKK consent, form dispatch | an HTTP provider |
| Registration (`auth/`) | users | register, onboard, login, password reset | storage, application workflow |
| Events, e-mail (`events/`, `email/`) | none | broadcasts and mails, fire and forget | clients |
| Reports, lists (`audit-logs/`, admin statistics) | none | read only | - |
| Import scripts (`backend/scripts/import-excel.ts`, `revert-import.ts`) | the run's position and lists | load a workbook row by row, take it out again | users, files, CRM records |
| Web client (`frontend/`) | the document dashboard's statuses and jobs; pages rendered earlier | click, upload, deliver, reload | every endpoint |

What is hard in it:

* **Every handler is read, decide, write** in an interactive transaction at READ
  COMMITTED (`prisma.service.ts` and the `$transaction` calls set no isolation
  level). What it read may be out of date when it writes. Claim, hand-off, pause,
  resume and the SLA revert write with a conditional WHERE (a compare-and-swap;
  a mismatch is P2025 and becomes a 409); the God-Mode endpoints write with
  `WHERE { id }`.
* **The conditions of the WHERE are narrower than the checks**: a hand-off checks
  owner and gate and swaps on the stage alone; the SLA revert was decided on
  `stageUpdatedAt` and swaps on stage and assignee.
* **History is state**: the stage to resume to is read from the newest PAUSED
  audit row. Rows are written from what the handler read, and `deleteUser` deletes
  them.
* **Assignments outlive the stages they belong to**: hand-off leaves the columns of
  earlier departments set (they mean "has handled it"); reassign, resume,
  forceStage and deleteUser move stage and columns independently.
* **The cron** works from a list read at the start of its pass and guards itself by
  an in-memory flag.
* **Two stores, no common transaction**: a document's row is committed before its
  bytes arrive and deleted before they go; a passport's bytes are sent before its
  row exists; a consent is confirmed at a provider before the local flag is set.
* **Identity by position or by text**: a form belongs to whoever is at its index by
  now, a reminder is found by a marker in its text, an imported file by a string
  made of its row number.
* **Clients act on old pages**: the document dashboard reads the statuses once and
  keeps its own; a customer saves a form under a position picked earlier.
* **Scripts on a live database**: the import may be broken off, repeated, reverted,
  or run twice at the same time.

What makes each component correct: *workflow* - no claim is overwritten, only the
holder hands off through a passed gate, closed files stay closed, a resume restores
the paused stage, the audit trail has no gaps, no file is stranded; *SLA monitor* - a
stalled file is eventually taken back, from the person it is taken from, and the flag
never sticks; *documents and assistant* - one update of a card wins, what is called
uploaded is stored, what is delivered under a card is of its type, a clean-up never
takes bytes somebody refers to; *appointments and forms* - the travel range stays in
order, and the gate's count of forms means a form per person; *reminders* - one per
officer and appointment, and none forgotten, though accounts are deleted with
their messages; *Dijizin* - the file never claims more
than the provider did; *accounts* - no dangling reference, no file without its
passports; *import* - one file per row, remainders in range, an exit code that tells
the truth; *dashboard* - no reply leaves a card locked.

The full list of hazards, each at its source line with the properties that cover it,
is in `PROJECT.json`.

## 2. Modules

| Module | What it is |
|---|---|
| `ProcessFlow` | the enums, CLAIM_CONFIG and STAGE_TRANSITIONS as constant functions |
| `AppWorkflow` | the application workflow, the SLA monitor and staff deletion |
| `CasePipeline` | abstract specification: a file is in one place, each department has at most one holder of it, and only five moves exist |
| `CaseDocuments` | one file's document rows, stored objects, assistant cards, papers shared with a linked file, delivered package |
| `DocDesk` | the document officer's dashboard at work against `CaseDocuments`, which it implements |
| `CaseForms` | the people of a file, their forms, travel dates and the form gate |
| `Reminders` | the hourly reminder job and the messages it posts and looks for |
| `Consent` | KVKK consent and forms through the provider Dijizin, with its token cache |
| `Accounts` | accounts and files: registration, onboarding, deletion, import and revert |
| `MCAppWorkflow`, `MCDocDesk`, `MCCaseForms`, `MCConsent`, `MCAccounts` | constants of the TLC instances (`Reminders` needs none) |
| `AppWorkflowProofs`, `PipelineProofs` | proofs about `AppWorkflow`: types, ownership; trail, action properties, implementation of `CasePipeline` |
| `DocumentsProofs`, `DocDeskProofs` | proofs about `CaseDocuments`; that `DocDesk` implements it, and what the desk adds |
| `CaseFormsProofs`, `RemindersProofs`, `ConsentProofs`, `AccountsProofs` | proofs about these modules |

The components share little more than the file's row, so each module has the writes of
the others where it depends on them, and no more: `AppWorkflow` the changes of the
document gate (`ChangeDocuments`), `CaseForms` the moves of the file (`Elsewhere`),
`CaseDocuments` the writers of payment type and appointment date (`UpdateCrm`,
`Reimport`), `Accounts` the save of an imported file's money (`EditMoney`), `Reminders`
the writers of officer, date and stage and the deletion of accounts (`AssignOfficer`,
`SetAppointment`, `CloseFile`, `DeleteOfficer`, `DeleteSender`), `Consent` those of the
phone number (`ChangePhone`).

### AppWorkflow and the code

A request that reads and then writes is two actions. `Begin<Op>(s, ...)` has the
guards of the handler (role, stage, owner, gate) over the current row and stores in
`tx[s]` what the handler keeps in its local variables; `Commit<Op>(s)` evaluates
the `WHERE` of the UPDATE over the row as it is by then and performs every write of
the transaction, audit row included. `Rollback(s)` is any transaction that ends
without a commit: P2025, an exception, Prisma's transaction timeout, a server
restart. A handler whose checks fail changes nothing and is not a step. A statement
that has no read before it (create, the updates of deleteUser) is one action.

| Variable | Code |
|---|---|
| `stage[a]` | `VisaApplication.currentStage`, `"ABSENT"` before the row exists |
| `assigned[a][d]` | `assignedSalesId`, `assignedDocId`, `assignedSecId`; `None` is NULL |
| `salesStaff[a]` | `salesStaffId` |
| `overdue[a]` | `stageUpdatedAt < now - threshold`; every write of `stageUpdatedAt` clears it, `TimePasses` sets it |
| `crm[a]` | `isCrmComplete(crmData)`: the only thing the workflow asks of the CRM record |
| `docsReady[a]` | all DOC_PROCESS checks of transitionStage (checklist, forms, country, appointment, travel range) |
| `trail[a]`, `rows[a]` | the audit rows that record a stage, and how many were ever written |
| `staff` | the staff profiles that exist |
| `tx[s]` | the local variables of the request session `s` is working on |
| `isRunning`, `breached[a]` | the monitor's flag, and the rest of the list it scanned |

A pass of the monitor is `ScanBreaches`, then per file `RevertBreached` or
`SkipBreached` (no such profile, P2025, or any exception of the transaction, which the
loop logs and goes on), or at any point `AbortPass`: `staff.findUnique` is outside the
`try`, and what it throws ends the pass through the `finally`.

Abstractions, and why they are harmless here:

* Audit rows are numbered by commit. The code orders PAUSED rows by `createdAt`,
  which the database assigns when the row is inserted; handlers insert it after
  updating the application row, whose lock they hold until they commit, so rows of one file
  are created in commit order.
* The reads of one handler happen at one instant. They are separate statements; a
  commit between them gives no outcome that the same commit before or after them
  does not, except that a hand-off could read the documents later than the owner,
  which is the race of run `lost_owner` again.
* `CRM_UPDATED` rows record no stage and are left out; events, e-mails and the
  payload of the rows too. `updateCrm` may save a complete or an incomplete record
  (PREPAID with nothing paid up front), hence `ok \in BOOLEAN`.
* `ChangeDocuments` stands for everything that can make the DOC gate pass or fail:
  upload, approval, rejection, deletion, forms, appointment operations, core data
  overrides. `CaseDocuments` and `CaseForms` have these operations.
* One SLA rule exists (SALES_PROCESS), so the clock of other stages is not kept.
* deleteUser of a customer removes whole files: see `Accounts`, as for files created
  by onboarding and by the import. deleteUser of staff (`DeleteStaff`) is here.

The constants `Endpoints` and `ForceTargets` choose the operations an instance
uses. `MaxRows` bounds the state space: no request begins, and no time passes, on a
file with that many audit rows.

### CasePipeline

`Open`, `Take`, `HandOver`, `GiveBack`, `Park`: the promise to the people at work,
without requests, reads or conditional writes. `Take` needs the department's slot to
be free, `HandOver` needs a holder and a free slot in the next pool. `AppWorkflow`
refines it under `place <- stage, holder <- assigned` while staff and the cron are
at work (`RefinesPipeline`); God-Mode exists to break it.

### CaseDocuments and the code

| Variable | Code |
|---|---|
| `docs[d]` | row of `documents`: file, `fileType`, `docAssistantType`, uploader's role, `fileUrl` (`key`: the id of the row whose upload named the object); ids grow with `createdAt` |
| `objects`, `cleanup` | keys the object store has bytes for; keys whose `deleteObject` is under way |
| `items[c]`, `cardTrail[c]` | `ApplicationDocAssistantItem.status`, before/after of the card's audit rows |
| `imported`, `plan`, `appointed` | the file came from a workbook; `crmData.paymentType`, `"NONE"` without a CRM record; `appointmentDate` present |
| `opened` | history: at some moment the file was not PREPAID, or had a date |
| `delivered` | `deliveredToCustomerFiles` |
| `tx[s]` | what request `s` has read |

A file begins as one of three: `create()` gives it every card at HAZIRLANIYOR and no
audit row; onboarding gives it no card; the import gives it no card but a CRM record of
any payment type. `UpdateCrm` and `Reimport` write that record at any time. `updateCrm`
writes back the date it read when it was given none, so it may also erase a date entered
meanwhile; it is one step that writes either.

An upload is `BeginUpload` (checks of `createUploadUrl`, outside any transaction),
`CommitUpload` (the row; the URL is handed out), and `Put` (the client, if ever). A
removal is one transaction, `Remove`, and then `DeleteObject` or `CleanupLost`.
`updateDocAssistantStatus`, `deliverToCustomer` and the sharing half of
`updateAppointmentOps` are Begin/Commit pairs as in `AppWorkflow`. The sharing copies
rows, not objects, to the linked file, so two rows have one key. Left out: names,
sizes, mails, approval (`reviewDocument`, whose effect is `ChangeDocuments`), listing
and download.

### DocDesk and the code

`screen` is `statusByType`, `busy` is `busyType`, `delivering` is `isDelivering`; a
`job` is an asynchronous function that has not returned, with the variables its closure
holds and the `phase` of its await. Each phase either waits for the server
(`JobRequest`, `JobCommit`, which take `CaseDocuments`' actions with them), for the PUT
(`PutDone`, `PutFailed`), or goes on: `Succeeded` with `{ ok: true }`, `Failed` with `{
ok: false }`, which the server action also makes of an API call that was refused or
whose answer was lost. `Rejected` is the browser's own request to the server action
failing: the promise rejects at dashboard 314, 347, 400 or 433, where no `try` surrounds
the await, and the function ends there, with `busyType` or `isDelivering` as it was.
`lost` is history and says that this happened since the page was loaded. `Reload` mounts
the component anew while its requests run to their end on the server (`Abandoned`).
`DeskSpec` has more steps and more state than the server's `Spec`, and implements it:
theorem `DeskImplements`.

### CaseForms and the code

`file` has the rows of one application: `roster` (onboarding_applicants, in the order
the admin's operations use), `forms` (visa_application_details by `applicantIndex`),
`appointment`, `stage`. `page` is the people as the customer's page listed them when it
was loaded. `who` records whose form a row was when it was saved; the code has no such
column, which is the point of `NoFormIsNobodys` and `LeavesWithForms`. Days are small
numbers, 0 is an empty date and compares below every other as `""` does. `Elsewhere` is
every other move of the file. Rows entered by one request have the same `createdAt`;
`Batch` enters them in every order and `PageOrders` shows them in every order. `Without`
is the rows left by a deletion, in the order they had. Left out: the other fields of a
form, which the server does not ask for later, and the answers to a country's own
questions in `metadata`.

### Reminders and the code

A `cycle` is one firing of the job: `Tick` (the cron and `isRunning`), `Query`, per
file `LookForMarker`, `PostReminder` (the transaction with the officer's and the
admins' messages), `MailCustomer`, and `GoOn`/`FailCycle` (the `finally`). `Crash`
clears the process's memory and keeps the tables. `sent[m]` counts the job's rows with
the marker of that officer, file and day, `mails` the customer's mails. `MessagesStore`
takes any text, so an admin may type a message that starts with a marker (`Send`,
`typed`), and the job then takes it for its own. deleteUser deletes every message the
account sent or received: `DeleteOfficer` and `DeleteSender` erase rows and typed
messages, and `erased[m]` remembers how many rows of the job went that way. A row for an
officer deleted since the query breaks its foreign key and ends the cycle (`PostFails`).
One admin is assumed to be active; without one the cycle ends at once.

### Consent and the code

`call[r]` is a request at one of the provider calls of its operation (`First`,
`After`), with the token it uses, the attempt it is at and what it has sent.
`TakeCachedToken`, `Login` and `CacheToken` are `getAccessToken` with its await in the
middle, `Answer`, `Refuse`, `FailCall` what comes back, `Persist` and `Audit` the
local writes, `FailWrite` and `Crash` what may happen instead. The provider is
external and modelled from its use: it creates, confirms, sends, and honours tokens of
its current epoch. `verifiedFor`, `moved`, `sends` and `began` are history the
properties speak of.

### Accounts and the code

`users`, `files` and `docs` are the three tables with their foreign keys, `objects` the
passports in the store, `jobs` the local variables of requests and scripts. Deletion
is three steps: the account is read, its files are listed, and the transaction
deletes by the lists; it fails when a row they do not name refers to what goes
(`NothingRefersTo`) or the account is gone (`StillThere`). The import is one
transaction per row (`BeginRow`, `CommitRow`, `FailRow`); its upsert locks the account's
row until the commit, which is why the look for the file is part of `CommitRow`. An
imported account's address is made from its row and is that row's number here.
`excused` is history: rows skipped, and rows whose file somebody deleted meanwhile.
`Prepared` is the arithmetic of the money cells. The code's amounts are floating point
numbers, so sum and difference are the constants `Plus` and `Minus`, of which nothing is
assumed but that rounding keeps the order of exact results (`RoundingAssumption`); that
total, down payment and remainder add up exactly is not claimed, and with floats not
true. `EditMoney` is `updateCrm` on an imported file: it writes total, upfront amount and
payment type as its DTO and the finance guard let them through, NORMAL with no upfront
amount.

## 3. Runs

| Run | Cfg | Instance | Shows |
|---|---|---|---|
| staff_race | `StaffRace.cfg` | 2 sales reps, DOC, SEC, admin; 2 requests; claim, hand-off, CRM save with auto-advance, pause, SLA revert; 7 rows | `TypeOK`, `AssignmentsFollowPipeline`, `TrailIsChain`, `CrmClosesWithSales`, `RefinesPipeline` |
| admin_race | `AdminRace.cfg` | 2 sales reps, admin; 2 requests; claim, pause, resume, force-cancel, force-stage to SALES_POOL, COMPLETED and PAUSED, deletion of staff; 5 rows | `SalesStaffIsAssignee`, `GapsAreForced`, `TerminalIsFinal`, `ClaimNeverSteals` |
| serial | `Serial.cfg` | 2 sales reps, DOC, SEC, admin; 1 request, cron on and fair; every endpoint but account deletion, force-stage to DOC_POOL and COMPLETED only; 5 rows | `AdvancedByOwner`, `ResumeRestores`, `StalledIsReclaimed`, `BreachBlamesHolder` |
| documents | `Documents.cfg` | one card, two file types, plans none and PREPAID; a job at the desk and a request of others; 2 document rows, no status request after the card's first audit row | `DeskTypeOK`, `CardTrailChain`, `DeliveredMatchesCard`, `CleanupSparesRows`, `PrepaidLocked`, `UploadedIsStored`, `MarkedIsWorkedOn` |
| forms | `Forms.cfg` | three people, three days, one request at a time, pages of any age | `TypeOK`, `PrimaryRangeValid`, `NoFormIsNobodys`, `LeavesWithForms` |
| reminders | `Reminders.cfg` | 2 files, 2 officers, 2 firings at once, 2 days, 3 changes by people (deletions and typed markers included), 1 fault | `ReminderTypeOK`, `RemindedOnce`, `MailsFollowReminders`, `DueIsReminded` |
| consent | `Consent.cfg` | 2 numbers, 2 requests, 3 operations, tokens turned twice, 1 fault | `ConsentTypeOK`, `VerifiedWasConfirmed`, `FormsReachConsenting`, `AuditedFormsWereSent`, `SentOncePerRequest`, `RefusedOnlyWhenTurned` |
| accounts | `Accounts.cfg` | a workbook of 2 rows, 1 other address, 2 passports, 2 requests or scripts at once, 4 ids | `AccountsTypeOK`, `OneFilePerRow`, `PassportsStored`, `RemainderInRange`, `CleanImportIsWhole` |
| stuck_pool | `StuckPool.cfg` | expected violation of `PoolsAreUnassigned` | reassign strands a file |
| forced_pause | `ForcedPause.cfg` | expected violation of `ResumeRestores` | resume after a forced pause |
| lost_owner | `LostOwner.cfg` | expected violation of `AdvancedByOwner` | hand-off by a former owner |
| orphaned_file | `OrphanedFile.cfg` | expected violation of `StalledIsReclaimed` | a file stranded by deleteUser |

The larger instances: consent 4.4 million distinct states, accounts 2.7, documents 2.3,
forms 1.3; reminders has 0.16.

Bounds, and why they are enough:

* *Workflow.* One file: handlers of different files share nothing but `isRunning`. Two
  concurrent requests and a cron are what a race on one row needs: a request only ever
  waits for the last writer. Two sales reps are needed to take a file from somebody;
  one in the other departments suffices, since the tables treat departments alike.
  Seven rows let a file go from create to COMPLETED, or be reverted and start again;
  five let it be paused, resumed and paused again. Reps and requests are symmetric
  where no liveness is checked. In `serial`, forcing to DOC_POOL leaves sales unfinished and to COMPLETED closes the
  file; the targets left out are named below.
* *Documents.* Two rows let a document be replaced, removed after delivery, or shared. A
  status request begins on a card with fewer than `MaxSteps` = 1 audit rows, and two
  that began so race, on a card that create() made and on one that does not exist yet;
  the later of them finds the card changed. A file without CRM record that is then saved
  as PREPAID stands for every file whose plan changes to it. The card is one that has a
  file type of its own and is required; the others differ in these two attributes only.
  Sharing a fee receipt together with a confirmation needs three rows, and a second card
  two desk jobs, which TLC does not reach; the proofs do not depend on the numbers.
* *Forms.* Three people are the fewest of whom one can leave between two others; three
  days the fewest for an appointment, a lead time of one day and a range of two ends.
* *Reminders.* Two firings overlap, two officers take over from one another, two days
  let a file become due and stop being due; three changes let a file become due, its
  reminder be erased with an account, and one be typed or a date be moved; one fault hits every step.
* *Consent.* Two requests meet in the cache, one more operation follows; two turns
  invalidate a first and a second token; one fault hits every call and write.
* *Accounts.* Two rows make a run go on after a failure; two jobs are an import against
  an import, a revert, or a deletion. `Cells` and `Entries` are few: cells that
  contradict each other, are negative or without use, and entries of either plan, one of
  which the finance guard refuses. Numbers above 4 are rounded to multiples of 4. Theorem
  `RemainderStaysInRange` covers every cell, entry and rounding.

Deadlock is checked where the actors never run out of things to do; the workflow's cfgs
switch it off: a file that reached the row bound, or was completed, really may rest.

Fairness, and why the code justifies it:

* `AppWorkflow.FairSpec`: the scheduler calls the monitor every five minutes
  (`WF_vars(ScanBreaches)`), and a pass goes through its list (weak fairness of
  `RevertBreached(a) \/ SkipBreached(a)`). Reverts fail and passes are broken off all the
  same; a file whose revert is tried in pass after pass does not see it fail for ever
  (`SF_vars(RevertBreached(a))`): a database that refuses one UPDATE for good is no
  program's matter.
* `Reminders.FairSpec`: `WF_vars(Schedule)`, the scheduler fires by the hour and a cycle
  that has begun goes on. `FailCycle` and `Crash` have no fairness and are bounded by
  `MaxFaults`: a fault at every firing would keep anything from happening.

No user is obliged to do anything in any of them.

### What the runs found

1. **stuck_pool** - reassigning a file back to an earlier department keeps the later
   department's column; after the next hand-off the file is in a pool that
   `poolWhere` does not list it in and `claim` refuses to take it from.
2. **forced_pause** - `forceStage` to PAUSED leaves no PAUSED row; `resume` then finds
   an older one (or none, and refuses).
3. **lost_owner** - `transitionStage` swaps on the stage only. Revert and new claim
   in between restore the stage, and the former owner's request goes through.
4. **orphaned_file** - `deleteUser` of a holder leaves the file in its `*_PROCESS`
   stage without assignee: in no pool, in nobody's workspace, and not seen by the
   SLA scan.

### What the passing runs leave out, and what they show beside their properties

Workflow races left out of the passing runs on purpose, all for the same reason (a
check that the write does not repeat):

* `reassign` racing a completion or a cancellation re-opens the closed file (1056).
  `TerminalIsFinal` is run and proved without reassign; with it and everything else,
  theorem `ClosedMovesAreForced` says which rows such a move can have;
* two requests: resume by A is delayed, B resumes, moves the file on and pauses it
  again, A's swap still sees PAUSED and restores the older stage (1340). `ResumeRestores`
  is run with one request at a time;
* an admin's CRM save as PREPAID with nothing paid, or a rejected or deleted document,
  between a gate's check and the swap: the file goes on through a gate that no longer
  passes (854, 864). No property rules this out, since nothing in the code does;
* the SLA revert takes a file whose clock a CRM save restarted after the scan;
* God-Mode rows carry the stage the handler read, so their `previousStage` may be
  stale, and two concurrent force-cancels write two rows; `deleteUser` erases rows.
  `TrailIsChain` is run and proved without them; with them, `GapsAreForced` says that
  gaps are theirs alone.

Left out of run `serial` for another reason: `forceStage` to SALES_PROCESS puts an
unassigned file into a stage the SLA scan only looks at for an assignee (1141,
`sla-monitor.service.ts` 95), where it is stranded as in `orphaned_file`; `forceStage` to
PAUSED is run `forced_pause`; the remaining targets end the file or send it to a pool
again and only make the instance larger.

Documents and the desk:

* the delivery gate goes by the cards that have a row: a required card nobody touched is
  not missed (`va.service` 2455-2465), while message and dashboard speak of every
  required card (147-148; `doc-assistant-dashboard.tsx` 51-52);
* a delivery that began earlier and commits later puts back its older list, which may
  name a document removed meanwhile (2564);
* a file turned PREPAID later keeps what its customer had uploaded, and an upload that
  was checked before goes through: `PrepaidLocked` speaks of files that never were
  anything else (`opened`);
* a CRM save without a date writes back the date it read, over one that
  `updateAppointmentOps` has entered since (1471-1489), and a repeated import clears it;
* a rejected server action leaves its card marked, or the delivery button spinning, until
  the page is reloaded (314, 347, 400, 433): `MarkedIsWorkedOn` excepts just this;
* an officer may pick YUKLENDI by hand without any bytes: `UploadedIsStored` is about the
  dashboard's own uploads;
* removing a confirmation or a receipt that linked files share deletes the bytes of both
  (`documents.service.ts` 318), which is why `CleanupSparesRows` excepts them;
* a failed status change puts back the status the closure remembers, though another job
  or officer may have changed it (dashboard 316), and the success message of an upload
  does not depend on whether the status followed (393-421);
* `busyType` names one card (528): with two jobs a card may be clicked while its first
  job runs. The run has one job; on the server the swap decides.

Forms:

* with two requests at a time `NoFormIsNobodys`, `PrimaryRangeValid` and
  `LeavesWithForms` can fail: a form is saved under a position of a roster that has shrunk
  meanwhile, or the end of the main range is edited between the check of an appointment
  and its write. The run has one request at a time; the theorems have any number and say
  that only a request whose rows were rewritten after it read them can do this
  (`OnlyStaleRequestsSpoil`, `GateMissesOnlyWhenStale`), and that for positions and gate
  nothing of the kind happens while the admin leaves the people alone
  (`FormsAreSomebodysMeanwhile`, `GateMeansFormsMeanwhile`);
* draft forms count at the gate (892, 1998), and travel dates may be edited after it;
* the end of the other applicants' ranges is not compared with the start written to all
  (2086);
* `removeOnboardingApplicant` moves the forms down and not the keys of
  `metadata.countrySpecificForms` (`admin.service.ts` 637; the comment at 563 says the
  forms "remain contiguous"): the answers then show under the next person. Two saves of
  different people at once lose one's answers, since `metadata` is rewritten from the
  copy that was read (2862);
* rows of an older release under `applicantIndex` 0 count as forms and are not modelled.

Reminders: after a reassignment the new officer is reminded and the customer mailed
again, and so are they when a deleted account took the marker's row along; a typed
message that starts with a marker suppresses the reminder and the mail (`DueIsReminded`
counts it as one); an exception ends the cycle for the remaining files until the next
hour; the window is computed in local time and the day written in UTC; two processes of
the backend would not share `isRunning`.

Consent: the flag is kept per file and the consent is given for a number, so forms go to
a new number without asking again (`FormsReachConsenting` says "as long as the number
stays"); a consent confirmed at the provider whose local write fails is asked for again.
The comment at `va.service` 1720-1724 (assigned owner, SALES_PROCESS only, the form's
phone only) describes other conditions than the code at 1729-1767 has; the model follows
the code.

Accounts: passports of an onboarding that failed after the upload, and objects of deleted
accounts, stay in the store for good; deleting a member of staff deletes the documents
they uploaded to other people's files; a repeated import puts its files back to DOC_POOL
or COMPLETED and re-activates their accounts, leaving the assignments; a row is identified
by its position, so inserting a line makes the next import rewrite other customers' files.

## 4. Proofs

TLAPS checks these theorems for every value of the constants that meets the modules'
assumptions. The bounds (`MaxRows`, `MaxDocs`, `MaxIds`, ...) are only assumed to be
natural numbers, so nothing depends on how far TLC goes.

| Theorem | States | Condition |
|---|---|---|
| `TypeCorrect` | `Spec => []TypeOK` | |
| `SalesStaffAlwaysAssignee` | `Spec => []SalesStaffIsAssignee` | |
| `ClaimAlwaysLeavesHolder` | `Spec => ClaimNeverSteals` | |
| `BreachAlwaysBlamesHolder` | `Spec => BreachBlamesHolder` | |
| `TerminalStaysFinal` | `Spec => TerminalIsFinal` | no reassign |
| `ClosedMovesAreForced` | `Spec => ReopenedInSight`: a closed file is moved only by a step whose row is forceCancel's, forceStage's, or a reassignment's that read the file before it was closed | |
| `GapsAlwaysForced` | `Spec => []GapsAreForced` | |
| `CrmAlwaysClosesWithSales` | `Spec => CrmClosesWithSales` | |
| `TrailAlwaysChain` | `Spec => []TrailIsChain` | `NoGodMode`: no reassign, forceCancel, forceStage, deleteUser |
| `AssignmentsAlwaysFollow` | `Spec => []AssignmentsFollowPipeline` | `StaffOnly`: `NoGodMode` and no resume |
| `PoolsAlwaysUnassigned` | `Spec => []PoolsAreUnassigned` | `StaffOnly` |
| `ImplementsPipeline` | `Spec => RefinesPipeline` | `StaffOnly` |
| `OwnerAdvancesUnlessTaken` | `Spec => AdvancedByOwner` | `NothingTaken`: SLA revert off, no reassign, no deleteUser |
| `TypeInvariant` | `CaseForms`: `Spec => []TypeOK` | |
| `OnlyStaleRequestsSpoil` | `CaseForms`: `Spec => [][RowsInv => RowsInv' \/ StaleEnds]_vars`: only the end of a request whose rows were rewritten since it read them leaves a form nobody's, the main range reversed, or a person with two rows | |
| `GateMissesOnlyWhenStale` | `CaseForms`: `Spec => [][ShortOnlyWhenStale]_vars`: with no form nobody's, only such a hand-off passes the gate with a form missing | |
| `FormsAreSomebodysMeanwhile`, `GateMeansFormsMeanwhile` | `CaseForms`: `NoFormIsNobodys`, `LeavesWithForms` | `PeopleStay`: no updateApplicationCoreData, no removeOnboardingApplicant |
| `DocumentsTyped`, `CardTrailsChain`, `CleanupSpares`, `PrepaidStaysLocked`, `DeliveryMatches` | `CaseDocuments`: types, `CardTrailChain`, `CleanupSparesRows`, `PrepaidLocked`, `DeliveredMatchesCard` | |
| `DeskImplements` | `DeskSpec => Spec` | |
| `DeskTyped`, `UploadsAreStored`, `MarksAreWorkedOn` | `DeskTypeOK`, `UploadedIsStored`, `MarkedIsWorkedOn` | |
| `RemindersTyped`, `RemindedAtMostOnce`, `MailsNeverOutnumber` | `ReminderTypeOK`, `RemindedOnce`, `MailsFollowReminders` | |
| `ConsentTyped`, `RefusalsAreTurns`, `FormSentOnce`, `VerifiedMeansConfirmed`, `FormsOnlyConsenting`, `AuditsAreTrue` | the six properties of run consent | |
| `AccountsTyped`, `RowsNeverDouble`, `PassportsAlwaysStored`, `RemainderStaysInRange`, `CleanImports` | the five properties of run accounts | |

A condition is on the operations in use, never on how requests interleave: every theorem
is about any number of concurrent requests, with the monitor between them. The
conditions are those of the runs or weaker, and they are needed: section 3 lists what
happens without them. Assumptions on the constants: `ActorsAssumption` and
`ScopeAssumption` (the actors and operations exist), `ScopeAssumption` and
`JobsAssumption` of the documents (cards of the catalog; the desk's jobs are requests of
an actor that may upload), `BoundsAssumption` and `EntriesAssumption` of the forms (at
least one person; entries are pairs of days), `ReminderAssumption` (bounds are numbers),
`ConsentAssumption` (NoToken is no token; finitely many requests, since a proof counts
them), and of the accounts `AccountsAssumption` (at least one person per onboarding,
typed addresses are not those made from rows), `CellsAssumption` (what cells and entries
look like) and `RoundingAssumption` (amounts are whole multiples of the smallest float,
and the sum or difference of two is rounded to one without changing the order of exact
results). TLC evaluates each.

Arguments:

* **Sales ownership.** `SalesStaffIsAssignee` is not inductive: `updateCrm` writes
  into `salesStaffId` an assignment it read earlier, which could have changed. It
  does so only when it read `salesStaffId` as NULL, and then, the invariant says,
  the assignment it read was NULL too. So no transaction ever carries a stamp
  (`CrmStampIsVoid`), and `OwnershipInv`, the two together, is inductive.
* **What a session holds.** `OpenTxWellFormed`: an open transaction is of an
  operation in use, and its stages are those of CLAIM_CONFIG, STAGE_TRANSITIONS
  or the pause and resume checks. Every workflow theorem with a condition rests on it.
* **Audit trail.** `ChainInv` adds to the chain that rows are numbered up to the
  number ever written (`RowsNumbered`): a new row is the next one, and the last row
  is the one it has to join.
* **Implementation of the pipeline.** `StepIsMove`: from the invariant, each step is a
  move of `CasePipeline` or a stutter. `MovesKeepAssignments`: the abstract moves keep
  the invariant. The two close the circle, so the invariant is proved about five moves
  instead of twenty handlers.
* **Gaps.** `GapsAreForced` needs neither the chain nor the absence of God-Mode. The
  newest row ends where the file is, since every write of the stage writes its row in the
  same transaction; a row that is not God-Mode's was written under a WHERE on the stage it
  begins with, so it begins where the newest row ended (`LoggedMoveForcesGaps`). A deleted
  account takes rows away and adds none.
* **The CRM record.** A rep's save was checked in SALES_PROCESS (`WellFormed`), and its
  transaction writes under a WHERE on that stage, so after a hand-off it is undone whole.
* **Owners among many requests.** `OpenTxOwned`: while an open hand-off's file is in the
  stage it read, its owner is the caller. `HoldersStay` is why: a column once set is set
  for good unless the cron, reassign or deleteUser takes it back, since claim's WHERE wants
  it empty. The run lost_owner uses the first of the three.
* **Action properties.** `RowNamesStep`: a CLAIMED row comes from a claim, an
  SLA_BREACH row from the monitor; the WHERE of that step then gives the property.
  `TerminalMove`: what moves a closed file is forceCancel, forceStage or reassign, every
  other WHERE names a stage that is not closed.
* **Documents.** `RowInv` says what a row may look like (`RowsFit`: of its card's type,
  a PREPAID customer's only under the lock), that only shared papers share a key
  (`KeysShared`), that a key being cleaned up was given out (`CleanupMinted`), and that
  what an open request carries fits as well (`TxFits`): the lock and the type are
  checked when the upload begins and have to survive until its row is written. The lock
  survives although plan, date and confirmation change at any time: once `opened` it
  promises nothing any more, and before that the file was PREPAID without a date at
  every moment (`KeptLocked`), the one of the check included. A card's trail begins with
  the row of its creation or at the status create() gave it (`Leads`). `DeliveryInv`
  adds that a delivery under way carries documents of their cards' types; a row once
  written never changes type, so the delivered package keeps matching although the cards
  move on.
* **Desk.** `JobInv` ties each job's phase to the request the server has of it. With it,
  every step of the desk is a step of the server or leaves the server alone, and the
  theorems about the server hold at the desk. `UploadsAreStored` is then one more
  invariant: past its PUT, the job's object is stored, or its row or its sharing
  explains why not. `MarkedIsWorkedOn` is inductive by itself: jobs end in any order, one
  that ends clears the mark of all, and only `Rejected` ends without clearing.
* **Reminders.** `RemindedOnce` needs that one cycle at most is under way (`OneCycle`, from
  `isRunning`) and that the reminder in its hands is still unsent (`StillNew`). For the
  mails, `MailsCounted`: those sent, and one that is still to go, are no more than the
  rows there are and the rows that deleted accounts took along. A deletion only moves rows
  from the one to the other; a typed marker adds no row and no mail.
* **Consent.** One invariant per property: `TokenInv` (no token is from the future, and
  a second attempt's was issued after its call began), `SendInv` (a request has sent
  only past the call that sends), `VerifyInv` (who is about to write the flag has been
  confirmed), `FormInv` (while the number stays, what is under way is about it),
  `AuditInv` (audited plus about to be audited is at most sent).
* **Accounts.** `Inv` adds to the invariants that the id an onboarding drew is nobody's
  (`IdsReserved`), that a file of a row is its account's (`RowsOwned`: with unique
  addresses, looking among the account's files is looking everywhere), and that a run
  without failures has left every row behind it with its file (`ImportsProgress`).
  `PreparedInRange` is the arithmetic of the cells for every rounding that keeps the order,
  `EntryInRange` that of an edit the server takes.
* **Forms.** `RowsInv` says that a person has one row (`OneRowEach`), that no form lies
  beyond the roster and that the main range is in order. `ChecksInv` says of every request
  under way that what it checked holds of the rows it read; since both are its own, this
  survives everything the others do. When a request ends and the rows are still the ones it
  read (`Fresh`), what it checked holds of the rows there are, and its write keeps
  `RowsInv`: with one row each, the position a removal read names the row it deletes, so
  roster and forms shrink by one together (`WithoutKeepsOneRowEach` and its neighbours count
  what `Without` leaves). That is `OnlyStaleRequestsSpoil`; and with no form beyond the
  roster, the count the gate asks for can only be reached with a form at every position
  (`CountedMeansAll`), which gives `GateMissesOnlyWhenStale`. While nobody is entered or
  removed (`SteadyInv`), a position that was somebody's stays so and a form stays a form, so
  that what was read may be old and the gate is still passed when the hand-off commits.

Only model-checked are the liveness properties `StalledIsReclaimed` and `DueIsReminded`,
since fairness and ENABLED are out of the prover's reach, and five properties with one
request at a time: `ResumeRestores`, `AdvancedByOwner` with the SLA revert on,
`NoFormIsNobodys`, `PrimaryRangeValid` and `LeavesWithForms` with the admin at work. The
code has nothing that would make requests wait for one another, so one request at a time
is a bound of these runs and no promise; section 3 says what two do.

## 5. Not modelled

* **Events and e-mail**: sent after the commit, not awaited, and write nothing back. A
  client reloads the file on an event and keeps nothing of its payload; e-mails are
  text. The reminder's mail is an action, since whether it is repeated depends on what
  was recorded.
* **Reading messages**: `markAsRead` sets a flag and then writes a follow-up to the admins;
  between the two it may be lost, and two reads at once may write it twice
  (`messages.store.ts` 111).
* **Reports, lists, read models**: read only.
* **Login, tokens, password reset**: one row at a time, no state shared with the rest
  but `isActive`, which the workflow sees as `Exists`.
* **Web client**: of its 22 thousand lines most is layout and forms over the endpoints.
  Modelled is what keeps state that can disagree with the server's: the document
  dashboard (`DocDesk`) and the page a form is saved from (`CaseForms`).
* **Within modelled components**: approval of documents (only as a writer of the gate),
  the appointment of several linked files at once, the content of the CRM record and of
  forms, `metadata`, the recognition of dates, countries and amounts in a workbook's
  cells, and the parsing of the provider's payloads.

The map covers about an eighth of the repository's lines, most of the server's code that
changes state; the rest is the web client, DTOs, templates and queries that only read.

## 6. Plan

1. A composition of `AppWorkflow` with `CaseForms` in place of `ChangeDocuments` and
   `Elsewhere`.
2. Appointments of several linked files in one request, and approval of documents.
