# Raijin: specification and verification

Raijin reads supplier invoices (upload, mailbox or drive), extracts them with
an OCR service in Celery workers, lets reviewers correct and confirm them, and
hands confirmed invoices to the Greek tax authority (myDATA) and to an ERP.
This directory holds TLA+ modules translated from that code, TLC configurations
that check them on small instances, and TLAPS proofs for every instance.

## 1. Inventory

| Component | State | Operations | What makes it correct |
|---|---|---|---|
| Review API (`backend/app/services/invoice.py`, `routers/invoices.py`) | rows of `invoices`, `invoice_corrections`, `notifications` | upload, edit, confirm, reject, skip, reopen, delete, bulk | the status matrix of ADR 0002; a confirmed invoice has no error; dates and reasons match the status; corrections are complete; tasks are sent after the commit |
| OCR worker (`workers/app/tasks/ocr.py`, `services/invoice_processor.py`) | the same rows, the message `invoice.process_ocr` and its retries | load, flush, OCR call, extraction, commit, mark failed, retry | one OCR at a time per invoice; no half-processed row is visible; the result is written once; every message ends |
| Validation rules (`shared/raijin_shared/validation/rules.py`) | none | required fields, totals, dates, duplicate, confidence | the issue codes and their severity |
| Mailbox and drive ingestion (`workers/app/services/ingest.py`, `*_ingest.py`, `*_client.py`, `tasks/*_sync.py`, `backend/app/routers/integrations.py`) | rows of sources with cursor and token, new rows and files | connect, disconnect, schedule, list, refresh, fetch, store, enqueue, advance cursor | no document is lost or stored twice, across failures and overlapping syncs; a disconnected source stays so |
| myDATA submission (`services/mydata_submission.py`, `tasks/mydata.py`) | `mydata_submissions`, the authority's records | submit, retry, mark failed | an invoice is registered at most once, a refused one is not sent again |
| ERP export (`services/erp_export.py`, `tasks/erp.py`) | `erp_exports`, the ERP's records | export, retry, mark failed | an acknowledged invoice is not exported again |
| Documents for the authority and the ERPs (`shared/raijin_shared/mydata`, `erp`) | none | map a row to lines, rates, totals | all three are told the same, and what was confirmed |
| Normalisers (`workers/app/services/normalizer.py`) | none | dates, amounts, VAT numbers | what is printed is what is read |
| Suppliers (`routers/suppliers.py`, `_resolve_supplier` of the worker) | `suppliers`, the invoices that refer to them | create, update, merge; creation by the worker | no duplicate, no invoice loses its supplier |
| Bank reconciliation and payments (`routers/reports.py`, `routers/invoices.py`) | bank lines, `paid_at` | import of a statement, payments | one payment per invoice |
| Accounts and sessions (`services/auth.py`, `user_management.py`, `security_management.py`) | users, sessions, keys, second factors | invite, patch, login, reset, profile, 2FA, revoke | a second factor has a secret, a tenant keeps an administrator |
| Data deletion (`services/gdpr.py`, `tasks/gdpr.py`) | deletion requests, the rows of a user | request, hourly purge | a due purge happens, is complete and on record |
| Notifications (`services/notification.py`) | `notifications` | insert, mark read | inserted with the change they announce |
| Search, metrics, health, exports; frontend; deployment and seeds | none of their own | read, format | not modelled |

The API runs in several processes, each request in one asynchronous SQLAlchemy
session; the workers run in several processes, each task in one synchronous
session. They share PostgreSQL (read committed, no version column, no
`SELECT FOR UPDATE`) and the Redis broker. Components interact through rows and
through Celery messages, which are published *outside* the transactions and
delivered at least once (`acks_late`). The hard behaviours are therefore stale
reads between the load and the write of a row, a row lock held during the OCR
call, retries, redeliveries and crashes. `PROJECT.json` lists each hazard at its
line.

## 2. Modules

| Module | Models |
|---|---|
| `ValidationRules` | `rules.py`: each rule is the set of codes it reports |
| `InvoiceLifecycle` | the rows of one tenant, the OCR deliveries and the review requests that work on them |
| `InvoiceReview` | abstract specification: what ADR 0002 promises of one invoice, plus the reprocessing of failures |
| `MCInvoiceLifecycle` | documents, patches and OCR results for TLC |
| `InvoiceLifecycleProofs` | theorems about `InvoiceLifecycle` for all constants, with all overlaps |
| `ExclusiveUseProofs` | theorems about `InvoiceLifecycle` under exclusive use, the refinement of `InvoiceReview` among them |
| `DuplicatesProofs` | when the duplicates of an invoice are flagged |
| `Submission` | the tasks `mydata.submit_invoice` and `erp.export_invoice`, the service they call and the rows they keep |
| `Ingestion` | syncs of mailboxes and folders, uploads beside them, the administrators who connect and disconnect sources |
| `Ledger` | suppliers, the invoices that refer to them, payments and bank statements |
| `Accounts` | users, their sessions and keys, second factors, the deletion of their data |
| `Normalizer` | the readings of printed dates, amounts and VAT numbers, as operators |
| `Declaration` | one invoice from the printed document to what the authority and the ERPs are told; uses `Normalizer` and `ValidationRules` |
| `MC*` | constants and symmetry for TLC, one for each of the above |
| `SubmissionProofs`, `IngestionProofs`, `LedgerProofs`, `AccountsProofs`, `DeclarationProofs` | theorems about the module each is named after, for all constants |

The modules meet where the components do. `InvoiceLifecycle` begins where
`Ingestion` ends (a row and its message), `Submission` begins where
`InvoiceLifecycle` ends (`HandOff`); `Declaration` follows the content of one
invoice through all three, one step at a time, and leaves interleavings to them.
`Ledger` takes supplier and payment, which no guard of `InvoiceLifecycle` reads.

### How the state of InvoiceLifecycle corresponds to the code

* `used`, `stored`, `db`: ids given so far, ids in the table, the committed rows.
  A row has the tracked document columns and the columns the handlers decide on.
  `currency`, payment and free columns, lines, tags and comments never enter a
  guard and are left out. `confirmed_at` and `rejected_reason` keep only whether
  they are set. `validation_errors` is the set of issue codes (NULL is `{}`).
* `corrections`: for each invoice the fields that have a row in
  `invoice_corrections`; `notes`: notifications; `handoff`: invoices whose
  myDATA and ERP tasks were sent.
* A *delivery* is a copy of an OCR message, in the broker (`queued`) or at a
  worker. A *request* is an HTTP request of a reviewer, or one item of
  `POST /bulk` (each item commits on its own). `pc` is the step a session
  has reached, `seen` the row as it was loaded, `draft` the ORM object.
* `Flush` is the unit of work: an UPDATE names only the columns that differ
  from what was loaded, so two sessions overwrite each other column by column.

| Step | Code |
|---|---|
| `Upload`, `Publish`, `Requeue` | `upload_invoice` (commit, then `send_task`, whose failure is suppressed); the operator's manual reprocessing |
| `OcrRefused`, `OcrLoad` | `session.get` and the two guards of `process_invoice_ocr` |
| `OcrFlush` | `status = processing; session.flush()`: takes the row lock |
| `OcrAnswer` | download, OCR, supplier, lines, extraction, duplicate search, validation |
| `OcrCommit` | the last flush, the notification, `session_scope`'s commit |
| `OcrTransient`, `OcrDbError`, `OcrPermanent` | the `except` clauses of `process_ocr_task` |
| `MarkLoad`, `MarkCommit` | `mark_invoice_failed` in its own `session_scope` |
| `Ack`, `Crash`, `TimeLimit`, `CrashAfterRetry` | `acks_late`, the visibility timeout, the hard time limit or a lost child process (acknowledged: `reject_on_worker_lost` is off), a death between the publication of a retry and the acknowledgement |
| `Begin` | `get_invoice`, the status check, the changes to the ORM object |
| `EditFlush` | `update_invoice` up to its second flush: the lock, the duplicates, the issues |
| `Write`, `WriteFails`, `Remove` | the flush and commit of a request; its failure when the row, or a row it names, is gone; `db.delete` with `ON DELETE SET NULL` |
| `HandOff` | `_maybe_enqueue_mydata`, `_maybe_enqueue_erp` |

Steps that are merged: a request's last flush and its commit, because the row
lock lets nobody write in between and the request reads nothing there; the OCR
call and the duplicate search after it, because both read committed data only
and nothing the worker does in between is visible. `Locked` stands for the row
lock, which a flush takes only when it changes a column (`Touched`); lock waits are
steps that are not enabled. The OCR service is assumed to return no blank vendor
name.

The search for duplicates has two forms. Both select the rows of the supplier
whose total is within one unit (`Candidates`) and take the best number that scores
78 percent or more (`LookLike`, `Best`; ties are broken in any order). The worker
looks at every candidate (`PossibleDuplicates`), an edit at the 50 newest
(`NewestDuplicates`, `SearchLimit`; the date of creation is not modelled, so any 50
may be the newest). `Score` is a constant: the ratio of `SequenceMatcher`, of which is
assumed only that a number scores 100 with itself, or 0 with every number when
nothing of it is left once it is normalised (`ScoreAssumption`). It need not be symmetric.

Audit entries are written after the commit by a transaction of their own and
are read by nothing that is modelled. Each item of a bulk request is a request
of its own; that an invoice with errors ends the whole list with a 500 is not
modelled.

`OverlapDeliveries` and `OverlapRequests` say whether an invoice may have several
messages, or several requests, at once. Without them (*exclusive use*) stronger
properties hold; section 3 marks them.

### How the state of Submission corresponds to the code

The myDATA and the ERP task are the same program with other names (they differ
in the supplier look-up of the ERP task, which changes nothing, and in the order
of mapping and building the connector, which nobody observes). `Submission`
stands for either; `map` names lines of both.

* `stored`: the invoices in the table; `active`: `connector.is_active`;
  `rows`, `row`: the committed rows of `mydata_submissions` (`erp_exports`), each
  named by the message whose task inserted it. A row has the status, the mark
  and `acknowledged_at`; the last two are named by the registration they came
  with. Payloads, wording, `submitted_at` and `retry_count` decide nothing.
* `registered`: how often the service has registered each invoice. It is
  external: it may accept, with or without a mark, refuse, or answer with an error
  before or after it has registered. That it never returns the mark of an earlier
  registration is an assumption of the model.
* `pc`, `inv`, `retries`, `result`: the message, its step, `request.retries`, the
  value the task returned; `target`, `seen`: the row of its session and what was
  loaded; `mark`: the registration it has made.

| Step | Code |
|---|---|
| `Send` | the hand-off of a confirmation, a bulk action, `POST /:id/mydata/submit`, `POST /:id/erp/export` |
| `Skip`, `Missing`, `Load` | the invoice, the connector, `_get_or_create_submission` with its flush |
| `MappingFails` | the mapper's refusal: FAILED is committed, then the task fails |
| `Register`, `StoreSuccess`, `StoreRefusal` | `connector.submit` at the service; its answer written and committed with the notification |
| `Fail`, `MarkFailed` | any permanent or unexpected exception: rollback, then `mark_submission_failed` in a second session |
| `Transient`, `LoseAnswer` | a transient error before or after the registration: rollback and retry, or the end of the retries |
| `Ack`, `Crash`, `Kill`, `CrashAfterRetry` | as for the OCR messages |
| `SetActive`, `Delete` | `upsert_connector`, `delete_connector`; `db.delete` of the invoice with `ON DELETE CASCADE` |

The answer and the commit are one step: nothing is read or locked between them.
A new row is inserted before the call and holds a key share lock on its invoice,
so `Delete` waits for it; a row that was loaded holds nothing, and its `UPDATE`
fails when it is gone (`Fail`). `Shared` is the set of invoices that may have
several tasks at a time (second submit, redelivery); the properties that need
exclusive use speak of the others.

### How the state of Ingestion corresponds to the code

* `source`, `known`, `lock`: rows of `email_sources` and `cloud_drive_sources`,
  the sources that have one, the row lock of a session that has flushed. A token
  is named by the session that obtained it; `last_sync_at` is the cursor.
* `received`: when each document arrived at the provider, external. A document
  is its checksum; `invoices` and `files` are named by content and writer, as keys
  in the bucket are new each time. `ocr`: rows whose message was sent.
* `src`, `seen`, `draft`, `content`, `todo`, `listed`, `newest`, `retries`: the local
  state of a sync, an upload or an administrator's request; `reported` is the list
  `errors` of a sync's result.
* `rivals` and `faults` are history: who was between check and commit when
  another committed the same content; how many crashes, kills and exceptions.

| Step | Code |
|---|---|
| `Schedule`, `TriggerSync` | the beat of every 15 minutes, `POST .../sync` |
| `Inactive`, `Start`, `List` | `session.get`, the `is_active` check, the first listing |
| `Refresh` | `_refresh_if_needed`: flush of the new token, the row stays locked |
| `ListUnauthorized`, `ListFails`, `RecordFailure` | the `except` clauses of the sync and of its task, which stores `last_error` in a second session and retries |
| `Fetch`, `FetchFails` | one attachment or file: download, checksum, search; an error goes into the result |
| `Put`, `Insert`, `Enqueue` | `put_object`, the commit of the row, `send_task` |
| `Finish` | the cursor: the newest document seen, else now |
| `Abort`, `Crash` | any other exception or a kill (no retry); a lost worker (`acks_late`) |
| `UploadCheck`, `UploadEnqueue` | `upload_invoice` around the same `Put` and `Insert` |
| `AdminLoad`, `Connect`, `Disconnect` | `upsert_*_source`, `disconnect_*_source` |

Files of an unsupported type and empty ones are skipped before anything happens
and are left out. A commit of the source waits for its row lock only when a column
changed (`CommitSource`). The attempts of one message follow each other, so they find
the row an earlier one has committed; that each makes new keys and ids is therefore
left out. The pages of a listing are one listing whose later pages may
fail (`Paging`).

### How the state of Ledger corresponds to the code

`suppliers`, `vat`, `name`; `invoices`, `supplier`, `extracted`, `paid`; `transactions`: the
committed rows and columns. An actor is one transaction: an OCR task
(`Resolve`, `InsertSupplier`, `Attach`, `AttachCommit`, with `DatabaseError` for the retry),
a request about suppliers (`Create`, `UpdateLoad`, `UpdateCommit`, `MergeLoad`, `Move`,
`MergeCommit`), a payment or a deletion (`PayLoad`, `PayCommit`), or the import of a
statement (`ImportLoad`, `MatchLine`, `ImportCommit`, `ImportFails`). What the database does
is part of the guards: the unique index on (tenant, vat) waits for an
uncommitted rival (`VatPending`) and then refuses, a foreign key keeps the row it
names (`References`), two merges in opposite directions are a deadlock that ends
one (`MergeVictim`). `overlaps` is history. An update writes the columns that differ from what it loaded: a
vat it leaves alone is `Kept`, a name `None`. A supplier read by its vat only is
called `UnknownName` ("Fournisseur inconnu"), a name that several may have. A
line of a statement takes any newest candidate (`Newest` is a set): the query
orders by the date of issue and invoices may share one.

### How the state of Accounts corresponds to the code

`members`, `account`, `sessions`, `api_keys`, `revoked`, `deletions`: the committed rows. A
column with personal data holds the name of the request that wrote it, `initial`
or `cleared`. `due` is the clock. A request is `Begin` (load and checks) and then
`Write`, `WriteLocale`, `Create` or `Insert`, each a commit; `BeginRevoke`, `Revoke` for
sessions and keys. The purge is `FindDue`, one `PurgeUser` or `PurgeFails` per request
of the batch, `PurgeCommit`; `held`, `doomed`, `settled` are what its session has not
committed. `Abort` and `Crash` are faults. `overlaps` is history. Tokens are stateless:
what a request may do follows from the rows it loads (`is_active`, `role`), as in
`deps.py`. `Begin` loads the acting user and the target in one step, though the code
has two statements: whoever is in between is among the transactions that overlap.

### How the state of Declaration corresponds to the code

`printed` is the document's date and how it is printed; `invoice` the columns and
lines of the row; `queue` the tasks that were sent; `declared` the last document for
the authority. `Read` is the OCR result through the normalisers, `ReadOverflows` a
result that does not fit its column, `Edit`, `Confirm`, `Reopen`, `Ask` the requests,
`Declare` and `DeclareFails` the task. `MyData`, `Epsilon` and `SoftOne` are the three
mappers; the lines of a document are named by their place in the row. Amounts
are cents, rates ten-thousandths, so that `HalfEven` is `Decimal.quantize`. An integer has no
negative zero and a `Decimal` does: a negative rate that is rounded to zero is printed
`-0.00`, which the table of categories lacks (`PrintedCategory`, `InferredNegative`). An edit
sets the columns it is given, a date also to nothing (`TypedTotals`: totals as they are
typed). The OCR service returns amounts as numbers, so the text
branch of `parse_amount` is checked by itself (`AmountsAreRead`).

## 3. What is checked

Passing runs:

* **exclusive** (one invoice, one delivery, one request, three OCR results,
  three patches, 3 retries, 1 crash). Each message and request has the
  invoice for itself, but they interleave with each other, with crashes,
  reprocessing and deletion. `TypeOK`; `RowsAreConsistent`: over any sequence of
  operations date and reason fit the status, every error of the stored columns
  is shown, and whatever differs from the OCR result is on record;
  `HandOffAfterCommit`; `OcrWrittenOnce`: redelivery, retry and reprocessing do
  not touch an invoice that has reached review; `ReviewSpec`: the rows
  implement `InvoiceReview`.
* **overlap** (two messages for one invoice, one request, one OCR result, 1
  retry, 1 crash). `ProcessingNeverVisible`, `OneOcrPerInvoice`,
  `UploadedIsPristine`, `ReviewedHasOcr` hold although sessions overwrite each
  other.
* **pairs** (two invoices whose numbers are equal, alike, or blank once they are
  normalised, one delivery, two requests that edit a date or delete).
  `DuplicatesAreFlagged`, `OriginalExists`. An invoice has one candidate at most here, so
  the limit of 50 is never reached; the proof covers it. The flag is not promised
  to an invoice with more candidates than that, which an edit may lose, nor to
  numbers that are blank, which are like nothing.
  With several workers the first of them fails: two workers that read two
  copies at once search before either commits. No document promises otherwise.
* **liveness** (one delivery, two requests on one invoice, 1 retry, under
  `FairSpec`). `DeliveryEnds`, `RequestEnds`, `EveryAttemptIsMade`.
* **submission** (an exclusive and a shared invoice, two messages, 1 retry, one
  fault, under `FairSpec`). `RowsAreSettled`: what readers of the table find has an
  outcome, an invoice and, if it succeeded, a notification, overlaps included;
  `RegistrationsAccounted`: no error path repeats a call that was handled, except
  after a fault; `OneRowPerInvoice`, `StatusMatchesMark`: with one task at a time the
  row is one and agrees with the service; `TaskEnds`.
* **ingestion** (a Gmail account, two syncs, an upload of the same document, an
  administrator, one fault). `RowHasFile`; `CopiesWereConcurrent`: a document is
  stored twice only by two writers of which one was past its check when the
  other committed; `SendsAccounted`: one fault costs at most one OCR message;
  `GmailCursorIsSafe`: no mail before the cursor is lost; `DisconnectHolds`.
* **ingestion_ends** (an Outlook inbox, two fair syncs with a retry each, one
  fault). `CursorSkips`: where the cursor first passes a document that is neither
  stored nor reported, the listing was empty or the document came in the second
  of the newest one; `SyncEnds`. The two exceptions are what the code does: a
  document that arrives between an empty listing and the commit of the cursor is
  never listed. With three overlapping syncs a cursor may also be set back and
  passes such a document once more, hence *first*.
* **accounts** (two users, two requests of any of the 18 kinds, one purge, one
  fault, fair purges). `ErasureIsRecorded`, `ErasureIsComplete`: what is left of an
  erased user was written by a request that overlapped the purge or by an
  administrator; `SecondFactorHasSecret`, `AdministratorLeft`: with requests one after
  the other; `DueIsSettled`.
* **ledger** (three actors of different kinds over two suppliers, two invoices
  and a statement of two equal lines, one retry). `SupplierKept`,
  `OneSupplierPerName`, `MatchedOnce`: an invoice loses its supplier, a name is
  doubled, an invoice is paid twice only by the overlaps the properties name,
  or by an edit.
* **declaration** (five dates in every style, eight sets of totals, two of them of
  credit notes, nine sets of lines, a negative rate among them, one edit, one submission by
  hand). `PrintedIsRead`: with the exceptions it
  lists, a date, an amount and a VAT number are read as they are printed;
  `DocumentsAgree`: the authority and the ERPs are told the same, except for the
  category of a line of rate zero (24% for the authority), of a synthetic line without a net
  amount (exempt) and of a negative rate that rounds to zero (category 8, unknown: a credit
  note without VAT and without lines has one); `AutomaticIsValidated`:
  totals that nobody asked to declare add up, unless the invoice was reopened.

Runs that show where a document and the code disagree (one property each):

* **review_closed**: ADR 0002 lets `confirmed` and `rejected` go only to
  `ready_for_review`. Two requests that loaded the same row move it from
  `confirmed` to `rejected`, and leave `confirmed_at` set. The same happens with
  a second OCR message that loaded the row before the first was committed.
* **zero_rate**: the category table and the progress notes take a rate of 0 for
  exempt; the mapper writes `line.vat_rate or Decimal("0.24")` and declares 24%.

Other disagreements met on the way, visible in the actions named and not
checked by a run of their own:

* ADR 0002 lists `low_confidence` among the errors that block a confirmation;
  `confirm_invoice` replaces the stored issues by ones computed without the
  confidence. The user guide and the runbook speak of invoices shown as
  `processing`; the status is never committed on its own
  (`ProcessingNeverVisible`). ADR 0002 lists no transition out of `failed`, while the
  worker accepts failed invoices and the deployment guide explains how to
  reprocess them; `InvoiceReview` follows the code.
* The handler of `MaxRetriesExceededError` is inside the task body, Celery
  raises outside of it: an invoice whose retries are used up stays `uploaded`.
* ADR 0003 has permanent failures stored as `failed`; the rollback of a first
  submission removes its row and `mark_submission_failed` finds nothing (`Fail`,
  `MarkFailed`). ADR 0003 says `acknowledged` means a MARK was received; two
  overlapping tasks can mix the status of one answer with the cleared mark of
  another (`StoreSuccess`), and a service may accept without a mark.
* The rates of new lines are stored as the service returns them: the loop that
  would normalise them (`invoice_processor.py:174`) sees the old lines only.
  "24%" then overflows `Numeric(5, 4)` and the invoice stays `uploaded` (`ReadOverflows`).
* The submission task does not check the status: a reopened and edited invoice
  is declared by the task of its first confirmation. A confirmed invoice with
  only a gross total cannot be declared (`DeclareFails`) and can be exported. When
  no line has a net amount the document for the authority has no lines.
* A credit note with no VAT and no lines is declared with category 8, while the ERPs
  are told 0% (`xml_builder.py:68-69`, `NegativeZero`).
* An edit clears the flag of a duplicate before it looks at the 50 newest candidates,
  and may not find the original that the worker found among all (`NewestDuplicates`).
* The cursor of a sync that lists nothing is the time it ends (`Finish`).

### Bounds

Two sessions of a kind are the smallest number that overlap; a third adds no new
pair of snapshots, since each write compares one snapshot with one row. Two
invoices are needed only for duplicates and deletion, and are checked together
with two requests. 3 retries are the configured value where they cost little;
1 distinguishes a retry from the last one. One crash separates a delivery from
its redelivery; the second crash of a behaviour meets a state the first has
reached. Amounts are chosen around the tolerance-relevant cases: a clean
document, a wrong total, a correction that fits it, and one that does not.
`Requeue` is not bounded: any number of reprocessings occur.

For `Submission` two messages suffice for an overlap, and together with a
fault (a redelivery) for three runs of the task on one row, which is
what a success, a failure over it and two answers that mix need. `MaxFaults`
bounds crashes, kills and lost answers; transient errors before a registration
are bounded by the retries only. The proofs have no such bounds.

For `Ingestion` two syncs and an upload are three writers of one document: a
copy made by two needs a third to be copied again. Two clock values separate
before and after a cursor. `MaxRetries` is 0 in the run with the upload and the
administrator, where a redelivery after the fault plays the same part, and 1
where the end of the retries matters. In `Accounts` each request may do anything, so
two cover every pair of operations, and the purge is a third session beside
them. In `Ledger` an overlap needs two actors; the third makes the rows they
meet over (a supplier inserted, an invoice paid). The two amounts differ by 50
cents, the tolerance itself. `Declaration` has a date for each reading that could
go wrong (ambiguous, a leap day, a day that is no month, two other centuries),
and a total whose rate is half way between two percents.

### Fairness

`FairSpec` assumes that a worker takes the next message and goes on (weak
fairness), that the OCR call returns or fails (the client has a timeout, the
task a time limit), that a started request goes on, and that a session waiting
for a row lock gets it when the lock is free again and again (strong fairness:
PostgreSQL queues waiters). Nothing forces users to act, workers to crash, or
the OCR to succeed. `Submission!FairSpec` is the same for its tasks: calls return
or time out after 30 s, no lock is waited for, and weak fairness is enough.
`Ingestion!FairSpec` has weak fairness for the steps of a sync: a lock is held
by a sync that can always go on, and every other wait ends with it. A sync is
not assumed to find documents or to succeed. `Accounts!FairSpec` has weak fairness
for the purge only, which the beat starts every hour; requests need not go on.

## 4. What is proved

`InvoiceLifecycleProofs` proves, for every value of the constants that satisfies
`ConstantsAssumption` and with all overlaps allowed:

* `TypeCorrect`: `TypeOK`. It is not inductive; `TypeInv` adds that a session in a
  transaction has a row and names an invoice that exists or existed.
* `ProcessingHidden`, `UploadedPristine`, `ReviewNeedsOcr`, `OcrExclusive`,
  `OriginalsExist`: the four safety invariants of the run *overlap* and
  `OriginalExists`, from the inductive invariant `IInv`.

The argument of `IInv`: sessions decide on an old version of a row, and a write
mixes columns of two versions. Two facts about a row are never undone: it has
left `uploaded`, and it has an OCR result. So what a session saw of them is
still true when it writes (`SnapshotOK`); what it is about to write is neither
`uploaded` nor `processing`, and has an OCR result unless it is `failed`
(`DraftOK`). `FlushOK` shows that mixing such a draft with such a row keeps the
row good, `WriteStep` applies it to every commit, and one lemma per group of
actions shows the rest. `OneOcrPerInvoice` follows from the lock that
`OcrFlush` waits for, `OriginalExists` from the foreign key.

`SubmissionProofs` proves, for every value of the constants that satisfies its
`ConstantsAssumption`, all invariants of the run *submission*:

* `TypeCorrect`, from `TypeInv`: a task in a transaction has a row of its invoice.
* `PendingHidden`, `NoOrphanRow`, `Announced`, together `RowsSettled`, from `RowsInv`: a stored row has an
  outcome and belongs to the invoice its task was sent for (`RowsOK`); a task
  that inserts does so under its own name and holds the invoice, any other works
  on a row of the same invoice (`TasksOK`). `CommitOK` shows that a write that
  mixes an outcome into such a row keeps it good.
* `Accounted`, from `CountInv`: registrations plus messages that may still
  register never exceed messages sent plus faults. Each step moves one message
  between these sets, so the lemmas are about cardinalities.
* `OneRow`, `MarksAgree`, from `ExclusiveInv`: with one task at a time (`Alone`) what
  the task has loaded is what is stored (`SnapshotOK`), so its commit writes the
  row it computed; `OthersOK` carries the snapshots of the other invoices over a
  step.

`IngestionProofs` proves, for every value of the constants that satisfies its
`ConstantsAssumption`, every property of the run *ingestion*:

* `TypeCorrect`, from `TypeInv`: `SessionsOK` says what a session at each step has.
* `FilesThere`, `CopiesConcurrent`, `SendsCounted`, from invariants over the writers. The
  steps fall into a few shapes (`Calm`, `Checked`, `Put`, `Inserted`, `Sent`, `Ended`: what they
  do to rows, files, messages and the content in hand), one lemma brings every
  action to a shape, and each invariant is shown per shape. A row without a
  message is counted against a fault: the set of such rows grows by one at most,
  and only when the fault counter does.
* `Disconnected`, from `SnapshotsOK` and `RowStep`: a sync has loaded an active row and
  never changes `is_active` to true, so the column-wise flush never does.
* `GmailCursorSafe`, from `CursorInv`. The cursor a sync will write is fixed when it
  starts, before it lists; `SyncCovers` says that every document that came before
  that cursor is an invoice, reported, or still in the sync's hands, and the
  cursor of the row is such a cursor. It needs that the listing is inclusive.

* `CursorPasses`, the action property `CursorSkips` of the run *ingestion_ends*, from
  `ListingInv` (the run has one document, so the branch of a document as new as the
  newest one is reached by the proof only): what a sync has listed is stored, reported or still in its hands; what
  it has not listed came before the cursor it had loaded, or no earlier than the
  newest document it listed (`ListingOK`). No document has come later than now
  (`ArrivalsOK`).

`ExclusiveUseProofs` assumes exclusive use (`OverlapDeliveries` and `OverlapRequests`
are false) and nothing else, and proves what the run *exclusive* checks besides
`TypeOK`: `RowsConsistent`, `HandOffCommitted`, `OcrOnce` and `ReviewImplemented`, from
`ExclusiveInvariant`. What a session writes follows from what
it has loaded, whatever overlaps there are (`Decided`). Under exclusive use what it
has loaded is what is stored (`Current`), but for `possible_duplicate_of_id`, which
the deletion of the original clears at any time (`Agree` leaves it out). `Tells` is
the story of a row: date and reason fit the status, stored errors are shown,
differences from the OCR result are on record; a session loads a row that tells
it and writes one that does. `ReviewImplemented` takes every step of the lifecycle
to a step of `InvoiceReview` or to a stutter.

`DuplicatesProofs`: of two invoices that look alike, the one that committed last has
been compared with the other (`Met`), and the flag it got survives later edits,
which look again and find an original again (`Flagged`, `EditFlushKeeps`); all of it until the
first deletion, which takes the flag back. That needs two things, which
`DuplicatesFlagged` has as temporal hypotheses: no two sessions are at once between
the comparison and a commit of supplier, number or total (`[]OneRewriter`), and every
edit looks at all its candidates (`[]SearchesAreWhole`). `DuplicatesOfOneWorker` derives the
first from what the run *pairs* has: one delivery, and edits that leave the three
columns alone. The second it does not need: candidates only become more until
the first deletion (`CandidatesRemain`, from `SearchAssumption`: the ids are a finite set), so an
invoice that has no more than `SearchLimit` of them now never had, and `DuplicatesAreFlagged` speaks of such invoices. Without the first two workers that
read two copies at once miss each other; without the second an edit may lose what
the worker found. Both are hazards no property can exclude.

`LedgerProofs` has no hypotheses. No transaction holds what it has read, so its
invariants say who is to blame when it is no longer so: a transaction that
committed in between and is in `overlaps` for good.

* `TypeCorrect`, from `TypeInv`: `Knows` says what an actor has found at each step.
* `InvoicesKeepSupplier`, from `SupplierInv`: an invoice refers to a supplier that exists or
  to none (`ReferencesExist`, by the foreign key); what a merge has not moved was
  attached while it ran (`MovedAll`).
* `NamesOnce`, from `NamesInv`: a task that inserts a supplier has looked for the name;
  whoever has it now committed since (`Unseen`).
* `PaidOnce`, from `PaymentsInv`: a line on the books has paid its invoice unless the
  payment was taken back (`LinesPaid`); if it pays an invoice that a running import
  has matched, the two imports overlap (`PaidSince`).

`AccountsProofs` is built in the same way. `TypeCorrect`, `SecretsKept` and `ErasureComplete`
have no hypotheses, `ErasureRecorded` and `AdministratorKept` assume one purge at a time
(`OnePurge`), as the hourly beat intends.

* `SecretsKept`, from `FactorInv`: what a pending request or purge has read of the
  second factor is still so, or a request about it has committed since
  (`FactorSeen`).
* `ErasureComplete`, from `ErasureInv`: what is stored differs from what a purge holds
  only in what requests to blame have written (`HeldKnown`), and so does what a
  completed deletion has left (`ErasedCleared`).
* `ErasureRecorded`, from `RecordInv`: what a purge has still to do is pending
  (`BatchIsPending`), so a failure never marks what was completed.
* `AdministratorKept`, from `AdministratorInv`: until one of the exceptions happens, who is
  about to remove an administrator is another one, still (`RemoverStays`).

`DeclarationProofs` proves the three invariants of the run *declaration* for any real
dates of four-digit years, any lines, amounts and rates:

* `AllToldTheSame`: `DocumentsAgree` with its three exceptions, from the types of the row
  (`RowInv`). The lines of a
  document are a function over the lines that have a net amount, so the documents
  are compared place by place. `HalfEvenNear` bounds what rounding does, and
  `PercentsNear` shows that a quotient rounded to hundredths of a percent and to
  percents differs by half a percent at most.
* `AutomaticValidated`, from `ConfirmedInv`: a confirmed row is clean, and an automatic
  task finds it confirmed unless it was reopened.
* `DatesRead`: `PrintedIsRead`, by cases over the styles (`DateRead`) and the VAT prefixes
  (`VatNumbers`). Its part about amounts, `AmountsAreRead`, folds over groups of digits
  and is a hypothesis: a statement about the constant `Amounts`, which TLC evaluates
  as part of the invariant.

### What the proofs changed

A proof that could not be found was, each time, one of these:

* *Ledger*: `SupplierKept` had a conjunction read the other way round than it was
  indented, and said less than it meant. A supplier without a name was not given
  the name the code gives it. The newest candidate was one fixed choice among
  invoices of the same date.
* *Ingestion*: `CursorSkips` was false with three overlapping syncs of one inbox. One
  that lists nothing advances the cursor past a document; another that began
  earlier sets it back; a third that loaded the advanced cursor passes the same
  document again, now with a listing. The property speaks of the first time.
* *Accounts*: with two purges at a time, both holding one request, the second may
  fail after the first has committed and mark the completed deletion failed: the
  user is anonymised and no deletion is completed. TLC shows it with two purges;
  the run has one.
* *Declaration*: the rate of a row without lines was computed for positive totals
  only. A credit note has negative ones.
* *InvoiceLifecycle*: `DuplicatesAreFlagged` needs no more than one rewriter at a time;
  before, the run had one delivery and the reason was not stated. With the limit of an edit's
  search it also needs an invoice that has no more candidates than that.

### What stays with TLC

* Liveness under fairness: `DeliveryEnds`, `RequestEnds`, `EveryAttemptIsMade`, `TaskEnds`,
  `SyncEnds`, `DueIsSettled`.
* `AmountsAreRead`, which is induction over data (folds over sequences of groups).
* The two runs that expect a violation.

Every other property a passing run checks is a theorem. They hold for every
value of the constants that satisfies the named assumptions of the module, which
TLC evaluates on every run.

## 5. Plan

1. More properties worth proving without hypotheses where exclusive use is
   assumed now: which parts of `RowsAreConsistent` survive overlaps, and the exact
   overlap that breaks each of the others, as `overlaps` does in `Ledger`.
2. `Submission`: what two overlapping tasks can at worst leave of `StatusMatchesMark`.
3. `Ingestion`: that a document is in the end stored or reported, with the fairness of
   `ingestion_ends`, is not a property yet; with the two exceptions of `CursorSkips`.

## 6. Not modelled

* Comments, share links, categories, tags and audit entries of invoices: rows
  that are inserted and listed, and decide nothing.
* Access and refresh tokens, which are stateless; single sign-on with its
  provisioning, the IP rules and the configuration of a tenant.
* Credentials and protocols of the connectors, the wire format of myDATA, the
  parties of a declaration.
* Search, metrics, health, exports, observability: reads and formatting.
* The frontend, deployment, migrations and seeds.
