--------------------------- MODULE InvoiceLifecycle ---------------------------
(***************************************************************************)
(* The life of an invoice row: upload, OCR by Celery workers, review by    *)
(* users.  Two kinds of sessions work on the rows of one tenant:           *)
(*                                                                         *)
(*   - Deliveries: copies of the Celery message invoice.process_ocr, each  *)
(*     run by a worker.  The broker delivers at least once (acks_late), a  *)
(*     retry republishes the message, an operator may publish it again.    *)
(*   - Requests: HTTP requests of reviewers.                               *)
(*                                                                         *)
(* A session loads the row (seen), works on its copy (draft) and writes    *)
(* the columns it changed when it flushes: there is no version column and  *)
(* no SELECT FOR UPDATE, so whatever was committed in between is           *)
(* overwritten column by column.  The worker flushes status=processing     *)
(* before it calls the OCR service and commits after it, so it holds the   *)
(* lock of the row, and hides the status, during the call.                 *)
(***************************************************************************)
EXTENDS ValidationRules, FiniteSets

CONSTANTS
  Invoices,           \* ids of the invoices of a tenant
  Suppliers,          \* ids of its suppliers
  Deliveries,         \* copies of OCR messages in the broker or at a worker
  Requests,           \* HTTP requests being served at the same time
  Extractions,        \* what the OCR service may return
  Patches,            \* bodies of PATCH /invoices/:id, column -> value
  Numbers,            \* invoice numbers
  Score,              \* how much two of them are alike, in percent
  SearchLimit,        \* how many candidates an edit looks at, 50
  MaxRetries,         \* settings.ocr_max_retries, 3 in config.py
  MaxDbRetries,       \* the max_retries given on a database error, 3 in ocr.py
  MaxCrashes,         \* bound: worker crashes in a behaviour
  OverlapDeliveries,  \* whether an invoice may have several deliveries at once
  OverlapRequests     \* whether an invoice may have several requests at once

DocumentColumns ==
  {"supplier_id", "invoice_number", "issue_date", "due_date",
   "total_ht", "total_vat", "total_ttc"}

Columns ==
  DocumentColumns \cup
  {"status", "ocr_raw", "validation_errors", "possible_duplicate_of_id",
   "confirmed_at", "rejected_reason"}

Status ==
  {"uploaded", "processing", "ready_for_review", "confirmed", "rejected", "failed"}

Amount == Int \cup {None}

\* The values a document column may hold
DocumentValue(c) ==
  CASE c = "supplier_id"    -> Suppliers \cup {None}
    [] c = "invoice_number" -> Numbers \cup {None}
    [] OTHER                -> Amount

Extraction ==
  [supplier_id: Suppliers \cup {None}, invoice_number: Numbers \cup {None},
   issue_date: Amount, due_date: Amount,
   total_ht: Amount, total_vat: Amount, total_ttc: Amount,
   vendor_named: BOOLEAN, confidence: Amount]

Row ==
  [supplier_id: Suppliers \cup {None}, invoice_number: Numbers \cup {None},
   issue_date: Amount, due_date: Amount,
   total_ht: Amount, total_vat: Amount, total_ttc: Amount,
   status: Status, ocr_raw: Extractions \cup {None},
   validation_errors: SUBSET IssueCodes,
   possible_duplicate_of_id: Invoices \cup {None},
   confirmed_at: BOOLEAN,          \* whether the date is set
   rejected_reason: BOOLEAN]       \* whether the reason is set

ASSUME ConstantsAssumption ==
  /\ None \notin Invoices \cup Suppliers \cup Deliveries \cup Requests
  /\ Deliveries \cap Requests = {}
  /\ Extractions \subseteq Extraction
  /\ \A x \in Extractions : x # None /\ (x.vendor_named => x.supplier_id # None)
  /\ \A p \in Patches : \A c \in DOMAIN p :
       c \in DocumentColumns /\ p[c] \in DocumentValue(c)
  /\ MaxRetries \in Nat /\ MaxDbRetries \in Nat /\ MaxCrashes \in Nat
  /\ OverlapDeliveries \in BOOLEAN /\ OverlapRequests \in BOOLEAN

ASSUME SearchAssumption == IsFiniteSet(Invoices) /\ SearchLimit \in Nat

\* A number scores 100 with itself, or 0 with all when nothing of it is left once
\* it is normalised; SequenceMatcher is not symmetric.
ASSUME ScoreAssumption ==
  /\ Score \in [Numbers \X Numbers -> 0 .. 100]
  /\ \A n \in Numbers :
       Score[n, n] = 100 \/ \A m \in Numbers : Score[n, m] = 0 /\ Score[m, n] = 0

VARIABLES
  used,         \* ids given to an invoice so far
  stored,       \* ids of the rows in the table invoices
  db,           \* their committed content
  corrections,  \* invoice_corrections: the columns corrected by users
  notes,        \* notifications: <<invoice, kind>>
  handoff,      \* invoices whose myDATA and ERP tasks were sent after a confirm
  pc,           \* the step each session has reached
  inv,          \* the invoice it works on
  retries,      \* request.retries of a delivery
  op,           \* the operation of a request
  seen,         \* the row as the session loaded it, None outside a transaction
  draft,        \* the row as the session wants it
  crashes       \* worker crashes so far

table    == <<used, stored, db, corrections, notes, handoff>>
sessions == <<pc, inv, retries, op, seen, draft>>
vars     == <<table, sessions, crashes>>

Sessions == Deliveries \cup Requests
Operations == {"edit", "confirm", "reject", "skip", "reopen", "delete"}

--------------------------------------------------------------------------------
(* Rows *)

UploadedRow ==
  [supplier_id |-> None, invoice_number |-> None, issue_date |-> None,
   due_date |-> None, total_ht |-> None, total_vat |-> None, total_ttc |-> None,
   status |-> "uploaded", ocr_raw |-> None, validation_errors |-> {},
   possible_duplicate_of_id |-> None,
   confirmed_at |-> FALSE, rejected_reason |-> FALSE]

\* The row with the columns given by values
Overlay(row, values) ==
  [c \in Columns |-> IF c \in DocumentColumns \cap DOMAIN values THEN values[c] ELSE row[c]]

\* An UPDATE of the unit of work: the columns that differ from what was loaded
Flush(current, loaded, wanted) ==
  [c \in Columns |-> IF wanted[c] # loaded[c] THEN wanted[c] ELSE current[c]]

\* The invoices the search for duplicates selects: of the supplier, for the same
\* amount give or take a unit, not failed
Candidates(i, row) ==
  {j \in stored \ {i} :
     /\ row.supplier_id # None /\ db[j].supplier_id = row.supplier_id
     /\ row.total_ttc # None /\ db[j].total_ttc # None
     /\ row.total_ttc - db[j].total_ttc \in -100 .. 100
     /\ db[j].status # "failed"}

\* _invoice_number_score, which is nothing when a number is missing
NumberScore(left, right) == IF None \in {left, right} THEN 0 ELSE Score[left, right]

\* Those whose number is enough like the number of row
LookLike(row, found) ==
  {j \in found : NumberScore(row.invoice_number, db[j].invoice_number) >= 78}

\* The originals the code may take from those found: the best, in any order
Best(row, found) ==
  {j \in LookLike(row, found) : \A k \in LookLike(row, found) :
     NumberScore(row.invoice_number, db[k].invoice_number)
       <= NumberScore(row.invoice_number, db[j].invoice_number)}

BestOrNone(row, found) == IF LookLike(row, found) = {} THEN {None} ELSE Best(row, found)

\* mutant: only confirmed invoices count as originals
PossibleDuplicatesConfirmed(i, row) ==
  BestOrNone(row, {j \in Candidates(i, row) : db[j].status = "confirmed"})
\* The worker looks at every candidate
PossibleDuplicates(i, row) == BestOrNone(row, Candidates(i, row))

\* The API looks at the newest; when they were created is not modelled, so any may be
Newest(candidates) ==
  IF Cardinality(candidates) <= SearchLimit THEN {candidates}
  ELSE {found \in SUBSET candidates : Cardinality(found) = SearchLimit}

NewestDuplicates(i, row) == UNION {BestOrNone(row, found) : found \in Newest(Candidates(i, row))}

\* The rules both the worker and the API apply to the columns of a row
FieldIssues(row) ==
  TotalsIssues(row.total_ht, row.total_vat, row.total_ttc)
  \cup DateIssues(row.issue_date, row.due_date)
  \cup DuplicateIssues(row.possible_duplicate_of_id)

\* _revalidate: the API has no OCR confidence to check
Revalidated(row) ==
  FieldIssues(row)
  \cup RequiredFieldIssues(row.supplier_id # None, row.invoice_number, row.issue_date)

ProcessableInReview ==                                            \* mutant
  {"uploaded", "processing", "failed", "ready_for_review"}
Processable == {"uploaded", "processing", "failed"}

Extracted(row, x, dup) ==
  LET read == [Overlay(row, x) EXCEPT !.possible_duplicate_of_id = dup]
  IN  [read EXCEPT
         !.status = "ready_for_review",
         !.ocr_raw = x,
         !.validation_errors =
             FieldIssues(read)
             \cup RequiredFieldIssues(x.vendor_named, x.invoice_number, x.issue_date)
             \cup ConfidenceIssues(x.confidence)]

OcrFailed(row) ==
  [row EXCEPT !.status = "failed", !.rejected_reason = TRUE,
              !.validation_errors = {"ocr_failed"}]

--------------------------------------------------------------------------------
(* The operations of a reviewer: when they are accepted, what they write *)

EditableAlways == {"ready_for_review", "rejected", "confirmed"}   \* mutant
Editable == {"ready_for_review", "rejected"}

ReopenableFailed == {"confirmed", "rejected", "failed"}           \* mutant
Reopenable == {"confirmed", "rejected"}

CanConfirm(row) ==
  row.status = "ready_for_review" /\ ~HasErrors(Revalidated(row))

Accepted(o, row) ==
  CASE o = "edit"    -> row.status \in Editable
    [] o = "confirm" -> CanConfirm(row)
    [] o = "reject"  -> row.status \in {"ready_for_review", "processing"}
    [] o = "skip"    -> row.status = "ready_for_review"
    [] o = "reopen"  -> row.status \in Reopenable
    [] o = "delete"  -> TRUE

\* The end of an edit: the patched row gets its duplicate and its issues
Edited(row, dup) ==
  LET flagged == [row EXCEPT !.possible_duplicate_of_id = dup]
  IN  [flagged EXCEPT !.validation_errors = Revalidated(flagged)]

\* The beginning of an edit: a rejected invoice goes back to review
Patched(row, patch) ==
  [Overlay(row, patch) EXCEPT
     !.status = "ready_for_review",
     !.rejected_reason = IF row.status = "rejected" THEN FALSE ELSE @]

\* mutant: the reason of an earlier failure survives
ConfirmedKeepsReason(row) ==
  [row EXCEPT !.status = "confirmed", !.confirmed_at = TRUE,
              !.validation_errors = Revalidated(row)]
Confirmed(row) ==
  [row EXCEPT !.status = "confirmed", !.confirmed_at = TRUE, !.rejected_reason = FALSE,
              !.validation_errors = Revalidated(row)]

Rejected(row) == [row EXCEPT !.status = "rejected", !.rejected_reason = TRUE]

\* mutant: the invoice is sent back to the OCR
ReopenedToOcr(row) ==
  [row EXCEPT !.status = "uploaded", !.confirmed_at = FALSE, !.rejected_reason = FALSE]
Reopened(row) ==
  [row EXCEPT !.status = "ready_for_review", !.confirmed_at = FALSE,
              !.rejected_reason = FALSE]

\* What each operation wants its row to become
Wanted(o, row) ==
  CASE o = "edit"    -> {Patched(row, p) : p \in Patches}
    [] o = "confirm" -> {Confirmed(row)}
    [] o = "reject"  -> {Rejected(row)}
    [] o = "reopen"  -> {Reopened(row)}
    [] OTHER         -> {row}

\* The notifications each operation inserts with its write
Notified(o, i) ==
  CASE o \in {"ocr", "confirm"}        -> {<<i, "invoice_ready">>}
    [] o \in {"ocr_failed", "reject"}  -> {<<i, "invoice_failed">>}
    [] o = "reopen"                    -> {<<i, "system">>}
    [] OTHER                           -> {}
--------------------------------------------------------------------------------
(* Uploads and messages *)

Init ==
  /\ used = {} /\ stored = {}
  /\ db = [i \in Invoices |-> UploadedRow]
  /\ corrections = [i \in Invoices |-> {}]
  /\ notes = {} /\ handoff = {}
  /\ pc = [s \in Sessions |-> "free"]
  /\ inv = [s \in Sessions |-> None]
  /\ retries = [d \in Deliveries |-> 0]
  /\ op = [r \in Requests |-> None]
  /\ seen = [s \in Sessions |-> None]
  /\ draft = [s \in Sessions |-> None]
  /\ crashes = 0

\* Whether the flush of an edit has a column to UPDATE: the original and the issues
\* are not known yet then
Touched(s) ==
  \E c \in Columns \ {"possible_duplicate_of_id", "validation_errors"} :
    draft[s][c] # seen[s][c]

\* A flushed UPDATE takes the lock of the row
HoldsLock(s) == pc[s] \in {"ocr", "staged"} \/ (pc[s] = "flushed" /\ Touched(s))

Unlocked(i) == FALSE                                              \* mutant
Locked(i) == \E s \in Sessions : HoldsLock(s) /\ inv[s] = i

MayDeliver(i) == OverlapDeliveries \/ \A d \in Deliveries : inv[d] # i
MayRequest(i) == OverlapRequests \/ \A r \in Requests : inv[r] # i

\* enqueue_invoice_ocr
Publish(i, d) ==
  /\ pc[d] = "free" /\ MayDeliver(i)
  /\ pc' = [pc EXCEPT ![d] = "queued"]
  /\ inv' = [inv EXCEPT ![d] = i]
  /\ UNCHANGED <<retries, op, seen, draft>>

\* The row is committed first; the message is sent next, or lost with the
\* exception that is suppressed there
Upload(i) ==
  /\ i \notin used
  /\ used' = used \cup {i} /\ stored' = stored \cup {i}
  /\ db' = [db EXCEPT ![i] = UploadedRow]
  /\ (\E d \in Deliveries : Publish(i, d)) \/ UNCHANGED sessions
  /\ UNCHANGED <<corrections, notes, handoff, crashes>>

\* "Reprocess manuel d'une facture", whatever its status
Requeue(i) ==
  /\ i \in used
  /\ \E d \in Deliveries : Publish(i, d)
  /\ UNCHANGED <<table, crashes>>

--------------------------------------------------------------------------------
(* The OCR task *)

\* Session s goes to a step outside any transaction
Leave(s, step) ==
  /\ pc' = [pc EXCEPT ![s] = step]
  /\ seen' = [seen EXCEPT ![s] = None]
  /\ draft' = [draft EXCEPT ![s] = None]

\* Session s goes to step with the row it wants
Want(s, step, row) ==
  /\ pc' = [pc EXCEPT ![s] = step]
  /\ draft' = [draft EXCEPT ![s] = row]

\* mutant: the message goes back to the queue instead of being dropped
OcrRefusedRequeued(d) ==
  /\ pc[d] = "queued"
  /\ inv[d] \in stored => db[inv[d]].status \notin Processable
  /\ UNCHANGED vars
\* invoice not found or not processable: the task returns
OcrRefused(d) ==
  /\ pc[d] = "queued"
  /\ inv[d] \in stored => db[inv[d]].status \notin Processable
  /\ Leave(d, "done")
  /\ UNCHANGED <<table, inv, retries, op, crashes>>

OcrLoad(d) ==
  /\ pc[d] = "queued"
  /\ inv[d] \in stored /\ db[inv[d]].status \in Processable
  /\ Want(d, "loaded", [db[inv[d]] EXCEPT !.status = "processing"])
  /\ seen' = [seen EXCEPT ![d] = db[inv[d]]]
  /\ UNCHANGED <<table, inv, retries, op, crashes>>

\* mutant: a commit in place of the flush
OcrFlushCommitted(d) ==
  /\ pc[d] = "loaded"
  /\ inv[d] \in stored /\ ~Locked(inv[d])
  /\ db' = [db EXCEPT ![inv[d]].status = "processing"]
  /\ pc' = [pc EXCEPT ![d] = "ocr"]
  /\ UNCHANGED <<used, stored, corrections, notes, handoff>>
  /\ UNCHANGED <<inv, retries, op, seen, draft, crashes>>
\* The flush of status=processing takes the lock of the row
OcrFlush(d) ==
  /\ pc[d] = "loaded"
  /\ inv[d] \in stored /\ ~Locked(inv[d])
  /\ pc' = [pc EXCEPT ![d] = "ocr"]
  /\ UNCHANGED <<table, inv, retries, op, seen, draft, crashes>>

\* The OCR service answered
OcrAnswer(d) ==
  /\ pc[d] = "ocr"
  /\ \E x \in Extractions :
       \E dup \in PossibleDuplicates(inv[d], Overlay(draft[d], x)) :
         Want(d, "staged", Extracted(draft[d], x, dup))
  /\ UNCHANGED <<table, inv, retries, op, seen, crashes>>

\* mutant: the write takes the reference for granted
RefersToDeletedUnchecked(s) == FALSE
\* A write that refers to an invoice deleted meanwhile breaks its foreign key
RefersToDeleted(s) ==
  /\ draft[s].possible_duplicate_of_id # seen[s].possible_duplicate_of_id
  /\ draft[s].possible_duplicate_of_id \notin stored \cup {None}

OcrCommit(d) ==
  /\ pc[d] = "staged" /\ ~RefersToDeleted(d)
  /\ db' = [db EXCEPT ![inv[d]] = Flush(@, seen[d], draft[d])]
  /\ notes' = notes \cup Notified("ocr", inv[d])
  /\ Leave(d, "done")
  /\ UNCHANGED <<used, stored, corrections, handoff, inv, retries, op, crashes>>

RetriesLeftOneMore(d, limit) == retries[d] <= limit               \* mutant
RetriesLeftOneLess(d, limit) == retries[d] + 1 < limit            \* mutant
RetriesLeft(d, limit) == retries[d] < limit

\* The transaction is rolled back; the retry is published, or the task fails
Retry(d, limit) ==
  /\ IF RetriesLeft(d, limit)
     THEN /\ Leave(d, "queued")
          /\ retries' = [retries EXCEPT ![d] = @ + 1]
     ELSE Leave(d, "done") /\ UNCHANGED retries
  /\ UNCHANGED <<table, inv, op, crashes>>

\* AzureDiTransientError: autoretry_for
OcrTransient(d) == pc[d] = "ocr" /\ Retry(d, MaxRetries)

\* SQLAlchemyError: an UPDATE of a row that is gone, a reference to one, a
\* supplier that another worker inserts at the same time
OcrDbError(d) ==
  /\ \/ pc[d] = "loaded" /\ inv[d] \notin stored
     \/ pc[d] = "staged" /\ RefersToDeleted(d)
     \/ pc[d] = "ocr"
  /\ Retry(d, MaxDbRetries)

\* AzureDiPermanentError, a soft time limit or any other exception
OcrPermanent(d) ==
  /\ pc[d] \in {"loaded", "ocr", "staged"}
  /\ Leave(d, "failing")
  /\ UNCHANGED <<table, inv, retries, op, crashes>>

\* mark_invoice_failed, in a session of its own
MarkLoad(d) ==
  /\ pc[d] = "failing"
  /\ IF inv[d] \in stored
     THEN /\ Want(d, "marking", OcrFailed(db[inv[d]]))
          /\ seen' = [seen EXCEPT ![d] = db[inv[d]]]
     ELSE Leave(d, "done")
  /\ UNCHANGED <<table, inv, retries, op, crashes>>

MarkCommit(d) ==
  /\ pc[d] = "marking" /\ ~Locked(inv[d])
  /\ IF inv[d] \in stored
     THEN /\ db' = [db EXCEPT ![inv[d]] = Flush(@, seen[d], draft[d])]
          /\ notes' = notes \cup Notified("ocr_failed", inv[d])
     ELSE UNCHANGED <<db, notes>>
  /\ Leave(d, "done")
  /\ UNCHANGED <<used, stored, corrections, handoff, inv, retries, op, crashes>>

\* acks_late: the message leaves the broker when the task has ended
Ack(d) ==
  /\ pc[d] = "done"
  /\ Leave(d, "free")
  /\ inv' = [inv EXCEPT ![d] = None]
  /\ retries' = [retries EXCEPT ![d] = 0]
  /\ UNCHANGED <<table, op, crashes>>

AtWorker == {"loaded", "ocr", "staged", "failing", "marking", "done"}

\* The worker dies: the database rolls back, the broker delivers the message
\* again when its visibility timeout has passed
Crash(d) ==
  /\ crashes < MaxCrashes /\ pc[d] \in AtWorker
  /\ crashes' = crashes + 1
  /\ Leave(d, "queued")
  /\ UNCHANGED <<table, inv, retries, op>>

\* The hard time limit, or the loss of the worker's child process, ends the
\* task: rolled back, and acknowledged
TimeLimit(d) ==
  /\ crashes < MaxCrashes /\ pc[d] \in AtWorker \ {"done"}
  /\ crashes' = crashes + 1
  /\ Leave(d, "done")
  /\ UNCHANGED <<table, inv, retries, op>>

\* The worker dies after it published the retry e and before the ack of d
CrashAfterRetry(d, e) ==
  /\ crashes < MaxCrashes /\ pc[d] = "ocr" /\ RetriesLeft(d, MaxRetries)
  /\ pc[e] = "free" /\ OverlapDeliveries
  /\ crashes' = crashes + 1
  /\ pc' = [pc EXCEPT ![d] = "queued", ![e] = "queued"]
  /\ inv' = [inv EXCEPT ![e] = inv[d]]
  /\ retries' = [retries EXCEPT ![e] = retries[d] + 1]
  /\ seen' = [seen EXCEPT ![d] = None]
  /\ draft' = [draft EXCEPT ![d] = None]
  /\ UNCHANGED <<table, op>>

--------------------------------------------------------------------------------
(* The requests of the review API *)

\* The request loads the row, checks the status it sees and changes its copy
Begin(r, o, i) ==
  /\ pc[r] = "free" /\ i \in stored /\ MayRequest(i)
  /\ Accepted(o, db[i])
  /\ \E row \in Wanted(o, db[i]) : Want(r, "writing", row)
  /\ inv' = [inv EXCEPT ![r] = i]
  /\ op' = [op EXCEPT ![r] = o]
  /\ seen' = [seen EXCEPT ![r] = db[i]]
  /\ UNCHANGED <<table, retries, crashes>>

\* An edit flushes the patch, which takes the lock of the row when it changes a
\* column, and then looks for duplicates and validates
EditFlush(r) ==
  /\ pc[r] = "writing" /\ op[r] = "edit"
  /\ inv[r] \in stored /\ (Touched(r) => ~Locked(inv[r]))
  /\ \E dup \in NewestDuplicates(inv[r], draft[r]) :
       Want(r, "flushed", Edited(draft[r], dup))
  /\ UNCHANGED <<table, inv, retries, op, seen, crashes>>

\* The request ends without effect on the session tables
End(r) ==
  /\ Leave(r, "free")
  /\ inv' = [inv EXCEPT ![r] = None]
  /\ op' = [op EXCEPT ![r] = None]

\* mutant: the update of a row that is gone never returns
WriteFailsReferenceOnly(r) ==
  /\ pc[r] = "flushed" /\ RefersToDeleted(r)
  /\ End(r)
  /\ UNCHANGED <<table, retries, crashes>>
\* The row has been deleted, or a row the write refers to: the request fails
WriteFails(r) ==
  /\ \/ pc[r] \in {"writing", "flushed"} /\ inv[r] \notin stored
     \/ pc[r] = "flushed" /\ RefersToDeleted(r)
  /\ End(r)
  /\ UNCHANGED <<table, retries, crashes>>

Changed(r) == {c \in DocumentColumns : draft[r][c] # seen[r][c]}

\* The commit, which waits for the lock of the row if it has a column to change
\* and does not hold the lock
Write(r) ==
  /\ \/ pc[r] = "flushed" /\ ~RefersToDeleted(r)
     \/ pc[r] = "writing" /\ op[r] \notin {"edit", "delete"}
  /\ inv[r] \in stored
  /\ HoldsLock(r) \/ draft[r] = seen[r] \/ ~Locked(inv[r])
  /\ db' = [db EXCEPT ![inv[r]] = Flush(@, seen[r], draft[r])]
  /\ corrections' = [corrections EXCEPT ![inv[r]] = @ \cup Changed(r)]
  /\ notes' = notes \cup Notified(op[r], inv[r])
  /\ IF op[r] = "confirm"
     THEN Leave(r, "confirmed") /\ UNCHANGED <<inv, op>>
     ELSE End(r)
  /\ UNCHANGED <<used, stored, handoff, retries, crashes>>

\* mutant: the tasks are sent before the commit
HandOffEarly(r) ==
  \/ /\ pc[r] = "writing" /\ op[r] = "confirm"
     /\ handoff' = handoff \cup {inv[r]}
     /\ UNCHANGED <<used, stored, db, corrections, notes, sessions, crashes>>
  \/ /\ pc[r] = "confirmed" /\ End(r)
     /\ UNCHANGED <<table, retries, crashes>>
\* After the commit of a confirm the myDATA and ERP tasks are sent; without an
\* automatic connector, or when the broker refuses them, they are not
HandOff(r) ==
  /\ pc[r] = "confirmed"
  /\ handoff' \in {handoff, handoff \cup {inv[r]}}
  /\ End(r)
  /\ UNCHANGED <<used, stored, db, corrections, notes, retries, crashes>>

\* DELETE; the rows that name the invoice as their original forget it
Remove(r) ==
  /\ pc[r] = "writing" /\ op[r] = "delete" /\ inv[r] \in stored
  /\ \A i \in stored : i = inv[r] \/ db[i].possible_duplicate_of_id = inv[r] => ~Locked(i)
  /\ stored' = stored \ {inv[r]}
  /\ db' = [i \in Invoices |->
              IF db[i].possible_duplicate_of_id = inv[r]
              THEN [db[i] EXCEPT !.possible_duplicate_of_id = None] ELSE db[i]]
  /\ corrections' = [corrections EXCEPT ![inv[r]] = {}]
  /\ End(r)
  /\ UNCHANGED <<used, notes, handoff, retries, crashes>>

--------------------------------------------------------------------------------

Delivery(d) ==
  \/ OcrRefused(d) \/ OcrLoad(d) \/ OcrFlush(d) \/ OcrAnswer(d) \/ OcrCommit(d)
  \/ OcrTransient(d) \/ OcrDbError(d) \/ OcrPermanent(d)
  \/ MarkLoad(d) \/ MarkCommit(d) \/ Ack(d)
  \/ Crash(d) \/ TimeLimit(d)
  \/ \E e \in Deliveries : CrashAfterRetry(d, e)

Request(r) ==
  \/ \E o \in Operations, i \in Invoices : Begin(r, o, i)
  \/ EditFlush(r) \/ WriteFails(r) \/ Write(r) \/ HandOff(r) \/ Remove(r)

Next ==
  \/ \E i \in Invoices : Upload(i) \/ Requeue(i)
  \/ \E d \in Deliveries : Delivery(d)
  \/ \E r \in Requests : Request(r)

Spec == Init /\ [][Next]_vars

(* Fairness.  A free worker takes the next message, the OCR service answers or
   the task times out, the broker and the API run what they started.  A session
   that waits for the lock of a row gets it: PostgreSQL queues the waiters.
   Nothing makes users act, workers crash or the OCR succeed. *)
DeliveryFairness(d) ==
  /\ WF_vars(\/ OcrRefused(d) \/ OcrLoad(d) \/ OcrAnswer(d) \/ OcrTransient(d)
             \/ OcrDbError(d) \/ OcrCommit(d) \/ MarkLoad(d) \/ Ack(d))
  /\ SF_vars(OcrFlush(d) \/ MarkCommit(d))

RequestFairness(r) ==
  /\ SF_vars(EditFlush(r) \/ Write(r) \/ Remove(r))
  /\ WF_vars(WriteFails(r) \/ HandOff(r))

FairSpec ==
  /\ Spec
  /\ \A d \in Deliveries : DeliveryFairness(d)
  /\ \A r \in Requests : RequestFairness(r)

--------------------------------------------------------------------------------
(* Properties.  Those marked (exclusive) hold when an invoice has at most one
   delivery and one request at a time: ExclusiveUse. *)

ExclusiveUse == ~OverlapDeliveries /\ ~OverlapRequests

Steps ==
  {"free", "queued", "loaded", "ocr", "staged", "failing", "marking", "done",
   "writing", "flushed", "confirmed"}

\* The sessions that have a row in memory
Open == {"loaded", "ocr", "staged", "marking", "writing", "flushed"}

Reviewed == {"ready_for_review", "confirmed", "rejected"}

\* Every variable keeps its type; retries never pass the configured maximum.
TypeOK ==
  /\ stored \subseteq used /\ used \subseteq Invoices
  /\ db \in [Invoices -> Row]
  /\ corrections \in [Invoices -> SUBSET DocumentColumns]
  /\ notes \subseteq Invoices \X {"invoice_ready", "invoice_failed", "system"}
  /\ handoff \subseteq Invoices
  /\ pc \in [Sessions -> Steps]
  /\ inv \in [Sessions -> Invoices \cup {None}]
  /\ retries \in [Deliveries -> Nat]
  /\ \A d \in Deliveries : retries[d] <= MaxRetries \/ retries[d] <= MaxDbRetries
  /\ op \in [Requests -> Operations \cup {None}]
  /\ seen \in [Sessions -> Row \cup {None}]
  /\ draft \in [Sessions -> Row \cup {None}]
  /\ crashes \in 0 .. MaxCrashes

\* status=processing is flushed, never committed on its own: no other session
\* ever reads it, whatever the number of deliveries, requests and crashes
\* (process_invoice_ocr runs in one transaction).
ProcessingNeverVisible == \A i \in Invoices : db[i].status # "processing"

\* The lock taken by the first flush keeps two workers from running the OCR of
\* the same invoice at the same time, however many messages name it.
OneOcrPerInvoice ==
  \A d, e \in Deliveries :
    pc[d] \in {"ocr", "staged"} /\ pc[e] \in {"ocr", "staged"} /\ inv[d] = inv[e] => d = e

\* An invoice whose status says uploaded has never been touched: no session
\* that loaded an earlier version brings a worked-on row back to uploaded.
UploadedIsPristine ==
  \A i \in Invoices : db[i].status = "uploaded" => db[i] = UploadedRow

\* No interleaving of workers, failures and reviewers brings an invoice to
\* review, or past it, without the result of an OCR.
ReviewedHasOcr ==
  \A i \in Invoices : db[i].status \in Reviewed => db[i].ocr_raw # None

\* (exclusive) confirmed_at is set exactly while the invoice is confirmed.
ConfirmedAtMatchesStatus ==
  \A i \in stored : db[i].confirmed_at <=> db[i].status = "confirmed"

\* (exclusive) A rejected or failed invoice carries a reason, a confirmed one
\* never does, even after an OCR failure whose reprocessing succeeded.
ReasonMatchesStatus ==
  \A i \in stored :
    /\ db[i].status \in {"rejected", "failed"} => db[i].rejected_reason
    /\ db[i].status = "confirmed" => ~db[i].rejected_reason

\* (exclusive) The stored issues of a reviewed invoice show every error its
\* stored columns have, so the reviewer is never shown a clean bad invoice.
ErrorsAreShown ==
  \A i \in stored : db[i].status \in Reviewed =>
    Revalidated(db[i]) \cap ErrorCodes \subseteq db[i].validation_errors

\* (exclusive) Every difference between the stored document and what the OCR
\* read is on record in invoice_corrections.
CorrectionsComplete ==
  \A i \in stored : db[i].ocr_raw # None =>
    \A c \in DocumentColumns : db[i][c] # db[i].ocr_raw[c] => c \in corrections[i]

\* (exclusive) Whatever edits, failures, reprocessings, rejections and reopenings
\* there were, a stored row tells its story: its date and its reason match its
\* status, its errors are shown, its corrections are on record.
RowsAreConsistent ==
  ConfirmedAtMatchesStatus /\ ReasonMatchesStatus /\ ErrorsAreShown /\ CorrectionsComplete

\* (exclusive) The integration tasks of an invoice are sent while it is
\* confirmed: the confirmation is committed before the messages leave.
HandOffAfterCommit ==
  [][\A i \in handoff' \ handoff : i \in stored => db[i].status = "confirmed"]_vars

\* (exclusive) The result of the OCR is written once: neither a redelivery, nor
\* a retry, nor a reprocessing touches what a reviewer may have worked on.
OcrWrittenOnce ==
  [][\A i \in stored : db[i].ocr_raw # None => db'[i].ocr_raw = db[i].ocr_raw]_vars

\* (exclusive) The rows implement the promise of the review: the matrix of
\* statuses, frozen documents after a confirmation or a rejection, clean
\* confirmed documents.
IsClean(doc) ==
  ~HasErrors(TotalsIssues(doc.total_ht, doc.total_vat, doc.total_ttc)
             \cup DateIssues(doc.issue_date, doc.due_date)
             \cup RequiredFieldIssues(doc.supplier_id # None, doc.invoice_number, doc.issue_date))

Review ==
  INSTANCE InvoiceReview WITH
    state <- [i \in Invoices |->
                IF i \notin used THEN "absent"
                ELSE IF i \notin stored THEN "deleted" ELSE db[i].status],
    document <- [i \in Invoices |-> [c \in DocumentColumns |-> db[i][c]]],
    Blank <- [c \in DocumentColumns |-> None],
    Clean <- IsClean

ReviewSpec == Review!Spec

\* The original a stored invoice names is stored too, whatever is deleted
\* between the load of a row and the write of the columns that were changed.
OriginalExists ==
  \A i \in stored : db[i].possible_duplicate_of_id \in stored \cup {None}

\* An edit of the invoice as it is would look at all its candidates
Searched(i) == Cardinality(Candidates(i, db[i])) <= SearchLimit

\* When one session at a time writes documents: of two invoices of the same
\* supplier with like numbers and amounts, at least one names an original, in
\* whatever order they were read and whatever failed in between, unless one has
\* more candidates than an edit looks at.
DuplicatesAreFlagged ==
  stored = used =>
    \A i, j \in stored :
      (/\ {db[i].status, db[j].status} \subseteq Reviewed
       /\ j \in LookLike(db[i], Candidates(i, db[i]))
       /\ i \in LookLike(db[j], Candidates(j, db[j]))
       /\ Searched(i) /\ Searched(j))
      => \/ db[i].possible_duplicate_of_id # None
         \/ db[j].possible_duplicate_of_id # None

\* Every message is acknowledged in the end: retries are bounded, no delivery
\* waits forever for a row.
DeliveryEnds == \A d \in Deliveries : pc[d] = "queued" ~> pc[d] = "free"

\* Every request ends, also when its invoice is deleted or being processed.
RequestEnds == \A r \in Requests : pc[r] = "writing" ~> pc[r] = "free"

\* A message for an uploaded invoice is not dropped before it was tried
\* MaxRetries + 1 times, unless the invoice has been processed or deleted or
\* the hard time limit has killed the task.
EveryAttemptIsMade ==
  \A d \in Deliveries, i \in Invoices :
    pc[d] = "queued" /\ inv[d] = i /\ i \in stored /\ db[i].status = "uploaded"
      ~> \/ i \notin stored \/ db[i].status # "uploaded"
         \/ retries[d] = MaxRetries \/ crashes > 0

--------------------------------------------------------------------------------
(* What documents say and the code does not do *)

\* ADR 0002: confirmed and rejected lead to ready_for_review and nowhere else.
ReviewIsClosed ==
  [][\A i \in stored :
       db[i].status \in {"confirmed", "rejected"}
         => db'[i].status \in {db[i].status, "ready_for_review"}]_vars
================================================================================
