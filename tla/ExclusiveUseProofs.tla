--------------------------- MODULE ExclusiveUseProofs ---------------------------
(***************************************************************************)
(* Proofs about InvoiceLifecycle when an invoice has at most one message   *)
(* and one request at a time (ExclusiveUse): the rows tell their story,    *)
(* the OCR result is written once, the tasks leave after the commit, and   *)
(* the rows implement the promise of InvoiceReview.                        *)
(*                                                                         *)
(* A session decides on the row it has loaded and writes the columns it    *)
(* changed.  Two facts carry the argument.  Whatever overlaps there are,   *)
(* what a session writes follows from what it loaded (Decided).  Without   *)
(* overlaps what it loaded is still what is stored (Current), but for one  *)
(* column: the deletion of the original clears possible_duplicate_of_id.   *)
(***************************************************************************)
EXTENDS InvoiceLifecycleProofs

--------------------------------------------------------------------------------
(* What a row says *)

\* The columns no other session writes
Own == Columns \ {"possible_duplicate_of_id"}

Agree(loaded, row) == \A c \in Own : loaded[c] = row[c]

\* The story of a row, given the columns on record as corrected
Tells(row, corrected) ==
  /\ row.confirmed_at <=> row.status = "confirmed"
  /\ row.status \in {"rejected", "failed"} => row.rejected_reason
  /\ row.status = "confirmed" => ~row.rejected_reason
  /\ row.status \in Reviewed =>
       Revalidated(row) \cap ErrorCodes \subseteq row.validation_errors
  /\ row.ocr_raw # None <=> row.status \in Reviewed
  /\ row.ocr_raw # None =>
       \A c \in DocumentColumns : row[c] # row.ocr_raw[c] => c \in corrected

Processing(row) == [row EXCEPT !.status = "processing"]

\* The original of a row is no error
LEMMA ErrorsIgnoreOriginal ==
  ASSUME NEW a, NEW b, Agree(a, b)
  PROVE  Revalidated(a) \cap ErrorCodes = Revalidated(b) \cap ErrorCodes
<1>1. \A row : DuplicateIssues(row.possible_duplicate_of_id) \cap ErrorCodes = {}
  BY DEF DuplicateIssues, When, ErrorCodes
<1>2. /\ a.total_ht = b.total_ht /\ a.total_vat = b.total_vat /\ a.total_ttc = b.total_ttc
      /\ a.issue_date = b.issue_date /\ a.due_date = b.due_date
      /\ a.supplier_id = b.supplier_id /\ a.invoice_number = b.invoice_number
  BY DEF Agree, Own, Columns, DocumentColumns
<1>3. QED
  BY <1>1, <1>2 DEF Revalidated, FieldIssues

LEMMA TellsAgree ==
  ASSUME NEW a, NEW b, NEW corrected, Agree(a, b), Tells(b, corrected)
  PROVE  Tells(a, corrected)
<1>1. /\ a.confirmed_at = b.confirmed_at /\ a.status = b.status /\ a.ocr_raw = b.ocr_raw
      /\ a.rejected_reason = b.rejected_reason /\ a.validation_errors = b.validation_errors
      /\ \A c \in DocumentColumns : a[c] = b[c]
  BY DEF Agree, Own, Columns, DocumentColumns
<1>2. QED
  BY <1>1, ErrorsIgnoreOriginal DEF Tells

\* A write of a session that is alone on its row leaves the row it wants
LEMMA FlushAgrees ==
  ASSUME NEW row, NEW loaded, NEW wanted, Agree(loaded, row)
  PROVE  Agree(Flush(row, loaded, wanted), wanted)
BY DEF Agree, Own, Flush

LEMMA UploadedTells == \A corrected : Tells(UploadedRow, corrected)
BY DEF Tells, UploadedRow, Reviewed

\* The OCR result: its document is what was read, its errors are on it
LEMMA ExtractedTells ==
  ASSUME NEW loaded \in Row, NEW corrected, Tells(loaded, corrected),
         loaded.status \in {"uploaded", "failed"},
         NEW x \in Extractions, NEW dup \in Invoices \cup {None}
  PROVE  Tells(Extracted(Processing(loaded), x, dup), corrected)
<1> DEFINE row  == Extracted(Processing(loaded), x, dup)
           read == [Overlay(Processing(loaded), x) EXCEPT !.possible_duplicate_of_id = dup]
<1>1. Processing(loaded) \in Row
  BY DEF Processing, Row, Status
<1>2. x \in Extraction /\ x # None /\ (x.vendor_named => x.supplier_id # None)
  BY ConstantsAssumption
<1>3. Overlay(Processing(loaded), x) \in Row
  BY <1>1, OverlayType, ExtractionValues
<1>4. \A c \in DocumentColumns : Overlay(Processing(loaded), x)[c] = x[c]
  BY <1>2 DEF Overlay, Columns, DocumentColumns, Extraction
<1>5. /\ Overlay(Processing(loaded), x).confirmed_at = loaded.confirmed_at
      /\ Overlay(Processing(loaded), x).rejected_reason = loaded.rejected_reason
  BY DEF Overlay, Columns, DocumentColumns, Processing, Row
<1>6. /\ row.status = "ready_for_review" /\ row.ocr_raw = x
      /\ row.confirmed_at = loaded.confirmed_at
      /\ row.validation_errors =
           FieldIssues(read) \cup RequiredFieldIssues(x.vendor_named, x.invoice_number, x.issue_date)
           \cup ConfidenceIssues(x.confidence)
      /\ \A c \in DocumentColumns : row[c] = x[c] /\ read[c] = x[c]
      /\ row.possible_duplicate_of_id = read.possible_duplicate_of_id
  BY <1>3, <1>4, <1>5 DEF Extracted, Row, DocumentColumns
<1>7. FieldIssues(row) = FieldIssues(read)
  BY <1>6 DEF FieldIssues, DocumentColumns
<1>8. RequiredFieldIssues(row.supplier_id # None, row.invoice_number, row.issue_date)
        \subseteq RequiredFieldIssues(x.vendor_named, x.invoice_number, x.issue_date)
  BY <1>2, <1>6 DEF RequiredFieldIssues, When, DocumentColumns
<1>9. Revalidated(row) \cap ErrorCodes \subseteq row.validation_errors
  BY <1>6, <1>7, <1>8 DEF Revalidated
<1> HIDE DEF row
<1>10. QED
  BY <1>2, <1>6, <1>9 DEF Tells, Reviewed, row

LEMMA OcrFailedTells ==
  ASSUME NEW loaded \in Row, NEW corrected, Tells(loaded, corrected),
         loaded.status \in {"uploaded", "failed"}
  PROVE  Tells(OcrFailed(loaded), corrected)
BY DEF Tells, OcrFailed, Reviewed, Row

\* The columns of the document a session changes
Edits(loaded, wanted) == {c \in DocumentColumns : wanted[c] # loaded[c]}

LEMMA EditedTells ==
  ASSUME NEW loaded \in Row, NEW corrected, Tells(loaded, corrected),
         Accepted("edit", loaded),
         NEW p \in Patches, NEW dup \in Invoices \cup {None}
  PROVE  LET row == Edited(Patched(loaded, p), dup)
         IN  Tells(row, corrected \cup Edits(loaded, row))
<1> DEFINE flagged == [Patched(loaded, p) EXCEPT !.possible_duplicate_of_id = dup]
           row     == Edited(Patched(loaded, p), dup)
<1>1. Patched(loaded, p) \in Row /\ flagged \in Row
  BY PatchedType DEF Row
<1>2. /\ Overlay(loaded, p).ocr_raw = loaded.ocr_raw
      /\ Overlay(loaded, p).confirmed_at = loaded.confirmed_at
      /\ Overlay(loaded, p) \in Row
  BY OverlayType, ConstantsAssumption DEF Overlay, Columns, DocumentColumns
<1>3. /\ Patched(loaded, p).status = "ready_for_review"
      /\ Patched(loaded, p).ocr_raw = loaded.ocr_raw
      /\ Patched(loaded, p).confirmed_at = loaded.confirmed_at
  BY <1>2 DEF Patched, Row
<1> HIDE DEF flagged
<1>4. /\ row.validation_errors = Revalidated(flagged)
      /\ \A c \in Columns \ {"validation_errors"} : row[c] = flagged[c]
  BY <1>1 DEF Edited, flagged, Row, Columns, DocumentColumns
<1>5. flagged.status = "ready_for_review" /\ flagged.ocr_raw = loaded.ocr_raw
      /\ flagged.confirmed_at = loaded.confirmed_at
  BY <1>1, <1>3 DEF flagged, Row
<1>6. Revalidated(row) = Revalidated(flagged)
  BY <1>4 DEF Revalidated, FieldIssues, Columns, DocumentColumns
<1>7. /\ row.status = "ready_for_review" /\ row.ocr_raw = loaded.ocr_raw
      /\ row.confirmed_at = loaded.confirmed_at
  BY <1>4, <1>5 DEF Columns
<1>8. loaded.ocr_raw # None /\ ~loaded.confirmed_at
  BY DEF Tells, Accepted, Editable, Reviewed, Row
<1>9. \A c \in DocumentColumns : row[c] # row.ocr_raw[c] => c \in corrected \cup Edits(loaded, row)
  BY <1>7, <1>8 DEF Tells, Edits
<1> HIDE DEF row
<1>10. Tells(row, corrected \cup Edits(loaded, row))
  BY <1>4, <1>6, <1>7, <1>8, <1>9 DEF Tells, Reviewed
<1>11. QED
  BY <1>10 DEF row

\* Confirming, rejecting, skipping and reopening keep the document
LEMMA ReviewedTells ==
  ASSUME NEW loaded \in Row, NEW corrected, Tells(loaded, corrected),
         loaded.status # "processing",
         NEW o \in {"confirm", "reject", "skip", "reopen"}, Accepted(o, loaded),
         NEW row \in Wanted(o, loaded)
  PROVE  Tells(row, corrected) /\ \A c \in DocumentColumns : row[c] = loaded[c]
<1>1. CASE o = "confirm"
  <2> DEFINE issues == Revalidated(loaded)
  <2>1. row = [loaded EXCEPT !.status = "confirmed", !.confirmed_at = TRUE,
                             !.rejected_reason = FALSE, !.validation_errors = issues]
    BY <1>1 DEF Wanted, Confirmed
  <2> HIDE DEF issues
  <2>2. /\ row.status = "confirmed" /\ row.confirmed_at /\ ~row.rejected_reason
        /\ row.validation_errors = issues /\ row.ocr_raw = loaded.ocr_raw
        /\ \A c \in DocumentColumns : row[c] = loaded[c]
        /\ row.possible_duplicate_of_id = loaded.possible_duplicate_of_id
    BY <2>1 DEF Row, DocumentColumns
  <2>3. Revalidated(row) = issues
    BY <2>2 DEF Revalidated, FieldIssues, DocumentColumns, issues
  <2>4. loaded.status = "ready_for_review"
    BY <1>1 DEF Accepted, CanConfirm
  <2>5. QED
    BY <2>2, <2>3, <2>4 DEF Tells, Reviewed
<1>2. CASE o \in {"reject", "reopen", "skip"}
  <2>1. /\ \A c \in DocumentColumns : row[c] = loaded[c]
        /\ row.possible_duplicate_of_id = loaded.possible_duplicate_of_id
        /\ row.validation_errors = loaded.validation_errors
        /\ row.ocr_raw = loaded.ocr_raw
    BY <1>2 DEF Wanted, Rejected, Reopened, Row, DocumentColumns
  <2>2. \/ row.status = "rejected" /\ row.rejected_reason
           /\ row.confirmed_at = loaded.confirmed_at /\ loaded.status = "ready_for_review"
        \/ row.status = "ready_for_review" /\ ~row.confirmed_at
           /\ loaded.status \in Reopenable
        \/ row = loaded
    BY <1>2 DEF Wanted, Accepted, Rejected, Reopened, Row
  <2>3. Revalidated(row) = Revalidated(loaded)
    BY <2>1 DEF Revalidated, FieldIssues, DocumentColumns
  <2>4. QED
    BY <2>1, <2>2, <2>3 DEF Tells, Reviewed, Reopenable
<1>3. QED
  BY <1>1, <1>2

--------------------------------------------------------------------------------
(* What a session writes follows from what it loaded, however sessions overlap  *)

DecidedByWorker(s) ==
  /\ pc[s] \in {"loaded", "ocr", "staged"} => seen[s].status \in Processable
  /\ pc[s] \in {"loaded", "ocr"} => draft[s] = Processing(seen[s])
  /\ pc[s] = "staged" =>
       \E x \in Extractions, dup \in Invoices \cup {None} :
         draft[s] = Extracted(Processing(seen[s]), x, dup)
  /\ pc[s] = "marking" => draft[s] = OcrFailed(seen[s])

DecidedByReviewer(s) ==
  /\ pc[s] = "writing" =>
       /\ op[s] \in Operations
       /\ Accepted(op[s], seen[s]) /\ draft[s] \in Wanted(op[s], seen[s])
  /\ pc[s] = "flushed" =>
       /\ op[s] = "edit" /\ Accepted("edit", seen[s])
       /\ \E p \in Patches, dup \in Invoices \cup {None} :
            draft[s] = Edited(Patched(seen[s], p), dup)

DeliverySteps == {"free", "queued", "loaded", "ocr", "staged", "failing", "marking", "done"}
RequestSteps  == {"free", "writing", "flushed", "confirmed"}

Decided ==
  /\ \A d \in Deliveries : pc[d] \in DeliverySteps /\ DecidedByWorker(d)
  /\ \A r \in Requests : pc[r] \in RequestSteps /\ DecidedByReviewer(r)

LEMMA DecidedInit == Init => Decided
BY DEF Init, Decided, DecidedByWorker, DecidedByReviewer, DeliverySteps, RequestSteps, Sessions

\* A step is sound when it is for the sessions it moves.
LEMMA DecidedMoves ==
  ASSUME Decided,
         \A d \in Deliveries : Same(d) \/ (pc'[d] \in DeliverySteps /\ DecidedByWorker(d)'),
         \A r \in Requests : Same(r) \/ (pc'[r] \in RequestSteps /\ DecidedByReviewer(r)')
  PROVE  Decided'
<1>1. ASSUME NEW d \in Deliveries, Same(d)
      PROVE  pc'[d] \in DeliverySteps /\ DecidedByWorker(d)'
  BY <1>1 DEF Decided, DecidedByWorker, Same
<1>2. ASSUME NEW r \in Requests, Same(r)
      PROVE  pc'[r] \in RequestSteps /\ DecidedByReviewer(r)'
  BY <1>2 DEF Decided, DecidedByReviewer, Same
<1>3. QED
  BY <1>1, <1>2 DEF Decided

\* The steps of a delivery move deliveries only
LEMMA DeliveryMoves ==
  ASSUME TypeOK, NEW d \in Deliveries, Delivery(d)
  PROVE  /\ UNCHANGED op
         /\ \A s \in Sessions \ {d} :
              Same(s) \/ (s \in Deliveries /\ CrashAfterRetry(d, s))
<1> USE ConstantsAssumption DEF TypeOK, Sessions, Same, Leave, Want, table
<1>1. CASE OcrRefused(d) \/ OcrLoad(d) \/ OcrFlush(d) \/ OcrAnswer(d) \/ OcrCommit(d)
  BY <1>1 DEF OcrRefused, OcrLoad, OcrFlush, OcrAnswer, OcrCommit
<1>2. CASE OcrTransient(d) \/ OcrDbError(d)
  BY <1>2 DEF OcrTransient, OcrDbError, Retry
<1>3. CASE OcrPermanent(d) \/ MarkLoad(d) \/ MarkCommit(d) \/ Ack(d)
  BY <1>3 DEF OcrPermanent, MarkLoad, MarkCommit, Ack
<1>4. CASE Crash(d) \/ TimeLimit(d)
  BY <1>4 DEF Crash, TimeLimit
<1>5. ASSUME NEW e \in Deliveries, CrashAfterRetry(d, e)
      PROVE  /\ UNCHANGED op
             /\ \A s \in Sessions \ {d} : Same(s) \/ s = e
  BY <1>5 DEF CrashAfterRetry
<1>6. QED
  BY <1>1, <1>2, <1>3, <1>4, <1>5 DEF Delivery

LEMMA RequestMoves ==
  ASSUME TypeOK, NEW r \in Requests, Request(r)
  PROVE  \A s \in Sessions \ {r} : Same(s)
BY ConstantsAssumption
   DEF TypeOK, Sessions, Same, Leave, Want, End, table, Request, Begin, EditFlush, WriteFails, Write,
       HandOff, Remove

\* The step a delivery of its own reaches
LEMMA DecidedDelivery ==
  ASSUME TypeInv, Decided, NEW d \in Deliveries, Delivery(d)
  PROVE  Decided'
<1> USE DEF TypeInv, TypeOK
<1>1. \A s \in Sessions \ {d} : Same(s) \/ (s \in Deliveries /\ CrashAfterRetry(d, s))
  BY DeliveryMoves
<1>2. \A e \in Deliveries \ {d} : Same(e) \/ (pc'[e] \in DeliverySteps /\ DecidedByWorker(e)')
  BY <1>1 DEF CrashAfterRetry, DecidedByWorker, DeliverySteps, Sessions
<1>3. pc'[d] \in DeliverySteps /\ DecidedByWorker(d)'
  <2> USE DEF Sessions, Leave, Want, DeliverySteps
  <2>1. CASE OcrLoad(d)
    BY <2>1 DEF OcrLoad, DecidedByWorker, Processing
  <2>2. CASE OcrFlush(d)
    BY <2>2 DEF OcrFlush, Decided, DecidedByWorker
  <2>3. CASE OcrAnswer(d)
    <3>1. PICK x \in Extractions, dup \in Invoices \cup {None} :
             Want(d, "staged", Extracted(draft[d], x, dup))
      BY <2>3, PossibleDuplicatesType DEF OcrAnswer
    <3>2. /\ pc'[d] = "staged" /\ seen' = seen /\ seen[d].status \in Processable
          /\ draft'[d] = Extracted(Processing(seen[d]), x, dup)
      BY <2>3, <3>1 DEF OcrAnswer, Decided, DecidedByWorker
    <3>3. QED
      BY <3>2 DEF DecidedByWorker
  <2>4. CASE MarkLoad(d)
    BY <2>4 DEF MarkLoad, DecidedByWorker
  <2>5. CASE pc'[d] \in {"free", "queued", "failing", "done"}
    BY <2>5 DEF DecidedByWorker
  <2>6. OcrLoad(d) \/ OcrFlush(d) \/ OcrAnswer(d) \/ MarkLoad(d)
        \/ pc'[d] \in {"free", "queued", "failing", "done"}
    BY DEF Delivery, OcrRefused, OcrCommit, OcrTransient, OcrDbError, Retry, OcrPermanent,
           MarkCommit, Ack, Crash, TimeLimit, CrashAfterRetry
  <2>7. QED
    BY <2>1, <2>2, <2>3, <2>4, <2>5, <2>6
<1>4. \A r \in Requests : Same(r)
  BY <1>1, ConstantsAssumption DEF Sessions
<1>5. QED
  BY <1>2, <1>3, <1>4, DecidedMoves

LEMMA DecidedRequest ==
  ASSUME TypeInv, Decided, NEW r \in Requests, Request(r)
  PROVE  Decided'
<1> USE DEF TypeInv, TypeOK
<1>1. \A s \in Sessions \ {r} : Same(s)
  BY RequestMoves
<1>2. pc'[r] \in RequestSteps /\ DecidedByReviewer(r)'
  <2> USE DEF Sessions, Leave, Want, End, RequestSteps
  <2>1. ASSUME NEW o \in Operations, NEW i \in Invoices, Begin(r, o, i)
        PROVE  pc'[r] \in RequestSteps /\ DecidedByReviewer(r)'
    <3>1. PICK row \in Wanted(o, db[i]) : Want(r, "writing", row)
      BY <2>1 DEF Begin
    <3>2. /\ pc'[r] = "writing" /\ op'[r] = o /\ seen'[r] = db[i] /\ draft'[r] = row
          /\ Accepted(o, db[i])
      BY <2>1, <3>1 DEF Begin
    <3>3. QED
      BY <3>2 DEF DecidedByReviewer
  <2>2. CASE EditFlush(r)
    <3>1. PICK dup \in Invoices \cup {None} : Want(r, "flushed", Edited(draft[r], dup))
      BY <2>2, PossibleDuplicatesType DEF EditFlush
    <3>2. /\ pc'[r] = "flushed" /\ op' = op /\ seen' = seen
          /\ draft'[r] = Edited(draft[r], dup)
          /\ op[r] = "edit" /\ Accepted("edit", seen[r]) /\ draft[r] \in Wanted("edit", seen[r])
      BY <2>2, <3>1 DEF EditFlush, Decided, DecidedByReviewer
    <3>3. PICK p \in Patches : draft[r] = Patched(seen[r], p)
      BY <3>2 DEF Wanted
    <3>4. QED
      BY <3>2, <3>3 DEF DecidedByReviewer
  <2>3. CASE pc'[r] \in {"free", "confirmed"}
    BY <2>3 DEF DecidedByReviewer
  <2>4. EditFlush(r) \/ pc'[r] \in {"free", "confirmed"}
        \/ \E o \in Operations, i \in Invoices : Begin(r, o, i)
    BY DEF Request, WriteFails, Write, HandOff, Remove
  <2>5. QED
    BY <2>1, <2>2, <2>3, <2>4
<1>3. \A d \in Deliveries : Same(d)
  BY <1>1, ConstantsAssumption DEF Sessions
<1>4. QED
  BY <1>1, <1>2, <1>3, DecidedMoves DEF Sessions

LEMMA DecidedStep ==
  ASSUME TypeInv, Decided, [Next]_vars
  PROVE  Decided'
<1>1. ASSUME NEW i \in Invoices, Upload(i) \/ Requeue(i)
      PROVE  Decided'
  <2>1. \A s \in Sessions : Same(s) \/ (s \in Deliveries /\ pc'[s] = "queued")
    BY <1>1 DEF Upload, Requeue, Publish, Same, sessions, table, Sessions, TypeInv, TypeOK
  <2>2. \A r \in Requests : Same(r)
    BY <2>1, ConstantsAssumption DEF Sessions
  <2>3. QED
    BY <2>1, <2>2, DecidedMoves DEF Sessions, DeliverySteps, DecidedByWorker
<1>2. CASE UNCHANGED vars
  BY <1>2, DecidedMoves DEF vars, table, sessions, Same
<1>3. QED
  BY <1>1, <1>2, DecidedDelivery, DecidedRequest DEF Next

--------------------------------------------------------------------------------
(* Without overlaps, what a session loaded is still there when it writes        *)

Alone ==
  /\ \A d, e \in Deliveries : inv[d] = inv[e] /\ inv[d] # None => d = e
  /\ \A q, r \in Requests : inv[q] = inv[r] /\ inv[q] # None => q = r

\* The steps of a worker that has found the invoice processable
AtOcr == {"loaded", "ocr", "staged", "failing", "marking"}

\* The request writes its row, it does not delete it
Reviewing(s) == s \in Requests => op[s] # "delete"

Current(s) ==
  inv[s] \in stored =>
    /\ pc[s] \in Open /\ Reviewing(s) => Agree(seen[s], db[inv[s]])
    /\ pc[s] \in AtOcr => db[inv[s]].status \in {"uploaded", "failed"}
    /\ pc[s] = "confirmed" => db[inv[s]].status = "confirmed"

RowsTell ==
  /\ \A i \in stored : Tells(db[i], corrections[i])
  /\ \A i \in Invoices \ used : db[i] = UploadedRow

\* A row a worker holds the lock of cannot be deleted
LockKept == \A s \in Sessions : pc[s] \in {"ocr", "staged"} => inv[s] \in stored

XInv ==
  /\ IInv /\ Decided /\ LockKept /\ Alone /\ RowsTell
  /\ \A s \in Sessions : Current(s)

\* A worker has an invoice no reviewer may touch, a reviewer one no worker may.
LEMMA WorkerOrReviewer ==
  ASSUME XInv, NEW d \in Deliveries, NEW r \in Requests, inv[d] = inv[r], inv[d] \in stored,
         pc[d] \in AtOcr, pc[r] # "free", Reviewing(r)
  PROVE  FALSE
<1>1. db[inv[d]].status \in {"uploaded", "failed"}
  BY DEF XInv, Current, Sessions
<1>2. pc[r] \in {"writing", "flushed", "confirmed"}
  BY DEF XInv, Decided, RequestSteps
<1>3. pc[r] # "confirmed"
  BY <1>1 DEF XInv, Current, Sessions
<1>4. Agree(seen[r], db[inv[d]])
  BY <1>2, <1>3 DEF XInv, Current, Sessions, Open
<1>5. seen[r].status = db[inv[d]].status
  BY <1>4 DEF Agree, Own, Columns
<1>6. /\ op[r] \in Operations \ {"delete"} /\ Accepted(op[r], seen[r])
  BY <1>2, <1>3 DEF XInv, Decided, DecidedByReviewer, Reviewing, Operations
<1>7. seen[r].status \notin {"uploaded", "failed"}
  BY <1>6 DEF Accepted, Operations, Editable, Reopenable, CanConfirm
<1>8. QED
  BY <1>1, <1>5, <1>7

LEMMA LockStep ==
  ASSUME TypeInv, Decided, LockKept, [Next]_vars
  PROVE  LockKept'
<1> USE ConstantsAssumption DEF TypeInv, TypeOK, LockKept, Sessions
<1>1. ASSUME NEW i \in Invoices, Upload(i) \/ Requeue(i)
      PROVE  LockKept'
  BY <1>1 DEF Upload, Requeue, Publish, sessions, table
<1>2. ASSUME NEW s \in Sessions, \A t \in Sessions \ {s} : Same(t) \/ pc'[t] = "queued",
             stored' = stored, pc'[s] \in {"ocr", "staged"} => inv'[s] \in stored
      PROVE  LockKept'
  BY <1>2 DEF Same
<1>3. ASSUME NEW d \in Deliveries, Delivery(d)
      PROVE  LockKept'
  <2>1. \A t \in Sessions \ {d} : Same(t) \/ pc'[t] = "queued"
    BY <1>3, DeliveryMoves DEF CrashAfterRetry
  <2>2. /\ stored' = stored
        /\ pc'[d] \in {"ocr", "staged"} =>
             inv' = inv /\ (inv[d] \in stored \/ pc[d] = "ocr")
    BY <1>3 DEF Delivery, OcrRefused, OcrLoad, OcrFlush, OcrAnswer, OcrCommit, OcrTransient, OcrDbError,
         Retry, OcrPermanent, MarkLoad, MarkCommit, Ack, Crash, TimeLimit, CrashAfterRetry,
         Leave, Want, table
  <2>3. QED
    BY <1>2, <2>1, <2>2
<1>4. ASSUME NEW r \in Requests, Request(r), ~Remove(r)
      PROVE  LockKept'
  <2>1. \A t \in Sessions \ {r} : Same(t)
    BY <1>4, RequestMoves
  <2>2. /\ stored' = stored
        /\ pc'[r] \notin {"ocr", "staged"}
    BY <1>4 DEF Request, Begin, EditFlush, WriteFails, Write, HandOff, Leave, Want, End, table
  <2>3. QED
    BY <1>2, <2>1, <2>2
<1>5. ASSUME NEW r \in Requests, Remove(r)
      PROVE  LockKept'
  <2>1. \A t \in Sessions \ {r} : Same(t)
    BY <1>5, RequestMoves DEF Request
  <2>2. ~Locked(inv[r]) /\ stored' = stored \ {inv[r]} /\ pc'[r] = "free"
    BY <1>5 DEF Remove, End, Leave
  <2>3. QED
    BY <2>1, <2>2 DEF Locked, HoldsLock, Same
<1>6. CASE UNCHANGED vars
  BY <1>6 DEF vars, sessions, table
<1>7. QED
  BY <1>1, <1>3, <1>4, <1>5, <1>6 DEF Next

LEMMA AloneStep ==
  ASSUME ExclusiveUse, TypeInv, Alone, [Next]_vars
  PROVE  Alone'
<1> USE ConstantsAssumption DEF TypeInv, TypeOK, Sessions, Alone, ExclusiveUse
<1>1. ASSUME NEW i \in Invoices, NEW d \in Deliveries, Publish(i, d)
      PROVE  Alone'
  BY <1>1 DEF Publish, MayDeliver
<1>2. ASSUME NEW r \in Requests, NEW o \in Operations, NEW i \in Invoices, Begin(r, o, i)
      PROVE  Alone'
  BY <1>2 DEF Begin, MayRequest
<1>3. ASSUME NEW s \in Sessions, inv' = inv \/ inv' = [inv EXCEPT ![s] = None]
      PROVE  Alone'
  BY <1>3
<1>4. ASSUME NEW d \in Deliveries, Delivery(d)
      PROVE  inv' = inv \/ inv' = [inv EXCEPT ![d] = None]
  BY <1>4 DEF Delivery, OcrRefused, OcrLoad, OcrFlush, OcrAnswer, OcrCommit, OcrTransient,
       OcrDbError, Retry, OcrPermanent, MarkLoad, MarkCommit, Ack, Crash, TimeLimit, CrashAfterRetry
<1>5. ASSUME NEW r \in Requests, Request(r)
      PROVE  \/ inv' = inv \/ inv' = [inv EXCEPT ![r] = None]
             \/ \E o \in Operations, i \in Invoices : Begin(r, o, i)
  BY <1>5 DEF Request, EditFlush, WriteFails, Write, HandOff, Remove, End
<1>6. CASE UNCHANGED vars
  BY <1>6 DEF vars, sessions
<1>7. ASSUME NEW i \in Invoices, Upload(i) \/ Requeue(i)
      PROVE  Alone'
  BY <1>7, <1>1 DEF Upload, Requeue, sessions
<1>8. QED
  BY <1>2, <1>3, <1>4, <1>5, <1>6, <1>7 DEF Next

\* What a session knows of its row survives the steps that keep the row's columns.
LEMMA CurrentSame ==
  ASSUME NEW s, Current(s), Same(s),
         inv[s] \in stored' => inv[s] \in stored /\ Agree(db[inv[s]], db'[inv[s]])
  PROVE  Current(s)'
BY DEF Current, Same, Agree, Reviewing, Own, Columns

\* The steps that write no row
LEMMA ReadsTell ==
  ASSUME XInv, UNCHANGED <<used, stored, db, corrections>>,
         NEW s \in Sessions, Current(s)',
         \A t \in Sessions \ {s} : Same(t)
  PROVE  RowsTell' /\ \A t \in Sessions : Current(t)'
<1>1. RowsTell'
  BY DEF XInv, RowsTell
<1>2. ASSUME NEW t \in Sessions \ {s}
      PROVE  Current(t)'
  BY <1>2, CurrentSame DEF XInv, Agree
<1>3. QED
  BY <1>1, <1>2

\* A session that writes the row it wants
LEMMA WriteTells ==
  ASSUME XInv, NEW s \in Sessions, pc[s] \in Open, Reviewing(s), inv[s] \in stored,
         UNCHANGED <<used, stored>>,
         db' = [db EXCEPT ![inv[s]] = Flush(@, seen[s], draft[s])],
         \A i \in Invoices \ {inv[s]} : corrections'[i] = corrections[i],
         Tells(draft[s], corrections'[inv[s]]),
         \A t \in Sessions \ {s} : Same(t)
  PROVE  /\ RowsTell' /\ Agree(db'[inv[s]], draft[s])
         /\ \A t \in Sessions \ {s} : Current(t)'
<1> USE DEF XInv, IInv, TypeInv, TypeOK
<1>1. inv[s] \in Invoices /\ inv[s] \in used /\ Agree(seen[s], db[inv[s]])
  BY DEF Current
<1>2. Agree(db'[inv[s]], draft[s]) /\ \A i \in Invoices \ {inv[s]} : db'[i] = db[i]
  BY <1>1, FlushAgrees
<1>3. Tells(db'[inv[s]], corrections'[inv[s]])
  BY <1>2, TellsAgree
<1>4. RowsTell'
  BY <1>1, <1>2, <1>3 DEF RowsTell
<1>5. ASSUME NEW t \in Sessions \ {s}, inv[t] # inv[s]
      PROVE  Current(t)'
  BY <1>2, <1>5, CurrentSame DEF Agree
<1>6. ASSUME NEW t \in Sessions \ {s}, inv[t] = inv[s], ~Current(t)'
      PROVE  FALSE
  <2>1. inv[s] # None
    BY <1>1, ConstantsAssumption
  <2>2. \/ s \in Deliveries /\ t \in Requests
        \/ s \in Requests /\ t \in Deliveries
    BY <1>6, <2>1 DEF Alone, Sessions
  <2>3. Same(t) /\ ((pc[t] \in Open /\ Reviewing(t)) \/ pc[t] \in AtOcr \/ pc[t] = "confirmed")
    BY <1>6 DEF Current, Same, Reviewing
  <2>4. CASE s \in Deliveries /\ t \in Requests
    <3>1. pc[s] \in AtOcr
      BY <2>4 DEF Decided, DeliverySteps, Open, AtOcr
    <3>2. (pc[t] \in {"writing", "flushed"} /\ Reviewing(t)) \/ pc[t] = "confirmed"
      BY <2>3, <2>4 DEF Decided, RequestSteps, Open, AtOcr
    <3>3. pc[t] # "confirmed"
      BY <1>1, <1>6, <3>1 DEF Current
    <3>4. QED
      BY <1>6, <2>4, <3>1, <3>2, <3>3, WorkerOrReviewer
  <2>5. CASE s \in Requests /\ t \in Deliveries
    <3>1. pc[t] \in AtOcr /\ pc[s] # "free"
      BY <2>3, <2>5 DEF Decided, DeliverySteps, Open, AtOcr
    <3>2. QED
      BY <1>6, <2>5, <3>1, WorkerOrReviewer
  <2>6. QED
    BY <2>2, <2>4, <2>5
<1>7. QED
  BY <1>2, <1>4, <1>5, <1>6

\* The rows the sessions write tell their story
LEMMA WantedTells ==
  ASSUME XInv, NEW s \in Sessions, pc[s] \in Open, Reviewing(s), inv[s] \in stored
  PROVE  /\ seen[s] \in Row /\ seen[s].status # "processing"
         /\ pc[s] \in AtOcr => seen[s].status \in {"uploaded", "failed"}
         /\ \A corrected : Tells(db[inv[s]], corrected) => Tells(seen[s], corrected)
BY TellsAgree
   DEF XInv, IInv, TypeInv, TypeOK, SnapshotsType, RowsOK, RowOK, Current, Agree, Own, Columns

\* Uploads and messages
LEMMA TellUpload ==
  ASSUME XInv, NEW i \in Invoices, Upload(i) \/ Requeue(i)
  PROVE  RowsTell' /\ \A s \in Sessions : Current(s)'
<1> USE DEF XInv, IInv, TypeInv, TypeOK
<1>1. \A s \in Sessions : Same(s) \/ pc'[s] = "queued"
  BY DEF Upload, Requeue, Publish, Same, sessions, table, Sessions
<1>2. \A j \in stored : db'[j] = db[j]
  BY DEF Upload, Requeue, table
<1>3. RowsTell'
  <2>1. CASE Requeue(i)
    BY <2>1 DEF Requeue, table, RowsTell
  <2>2. CASE Upload(i)
    <3>1. /\ stored' = stored \cup {i} /\ used' = used \cup {i} /\ db'[i] = UploadedRow
          /\ corrections' = corrections /\ \A j \in Invoices \ {i} : db'[j] = db[j]
      BY <2>2 DEF Upload
    <3>2. QED
      BY <3>1, UploadedTells DEF RowsTell
  <2>3. QED
    BY <2>1, <2>2
<1>4. ASSUME NEW s \in Sessions, Same(s), pc[s] # "free"
      PROVE  Current(s)'
  <2>1. inv[s] \in stored' => inv[s] \in stored
    BY <1>4 DEF SnapshotsType, Upload, Requeue, table
  <2>2. QED
    BY <1>2, <1>4, <2>1, CurrentSame DEF Agree
<1>5. ASSUME NEW s \in Sessions, pc'[s] \in {"free", "queued"}
      PROVE  Current(s)'
  BY <1>5 DEF Current, Open, AtOcr
<1>6. QED
  BY <1>1, <1>3, <1>4, <1>5 DEF Same

\* The steps of a delivery that write no row
LEMMA TellDeliveryReads ==
  ASSUME XInv, ExclusiveUse, NEW d \in Deliveries, Delivery(d), ~OcrCommit(d), ~MarkCommit(d)
  PROVE  RowsTell' /\ \A s \in Sessions : Current(s)'
<1> USE DEF XInv, IInv, TypeInv, TypeOK
<1>1. \A s \in Sessions \ {d} : Same(s)
  BY DeliveryMoves DEF CrashAfterRetry, ExclusiveUse
<1>2. UNCHANGED <<used, stored, db, corrections>>
  BY DEF Delivery, OcrRefused, OcrLoad, OcrFlush, OcrAnswer, OcrTransient, OcrDbError, Retry,
         OcrPermanent, MarkLoad, Ack, Crash, TimeLimit, CrashAfterRetry, table
<1>3. Current(d)'
  <2> USE DEF Leave, Want, Sessions
  <2>1. CASE OcrLoad(d)
    BY <1>2, <2>1 DEF OcrLoad, Current, Agree, RowsOK, RowOK, Processable
  <2>2. CASE OcrFlush(d)
    BY <1>2, <2>2, ConstantsAssumption DEF OcrFlush, Current, Open, AtOcr, Reviewing
  <2>3. CASE OcrAnswer(d)
    BY <1>2, <2>3, ConstantsAssumption DEF OcrAnswer, Current, Open, AtOcr, Reviewing
  <2>4. CASE OcrPermanent(d)
    BY <1>2, <2>4 DEF OcrPermanent, Current, Open, AtOcr
  <2>5. CASE MarkLoad(d)
    BY <1>2, <2>5 DEF MarkLoad, Current, Agree, Open, AtOcr
  <2>6. CASE pc'[d] \in {"free", "queued", "done"}
    BY <2>6 DEF Current, Open, AtOcr
  <2>7. \/ OcrLoad(d) \/ OcrFlush(d) \/ OcrAnswer(d) \/ OcrPermanent(d) \/ MarkLoad(d)
        \/ pc'[d] \in {"free", "queued", "done"}
    BY DEF Delivery, OcrRefused, OcrTransient, OcrDbError, Retry, Ack, Crash, TimeLimit,
           CrashAfterRetry
  <2>8. QED
    BY <2>1, <2>2, <2>3, <2>4, <2>5, <2>6, <2>7
<1>4. QED
  BY <1>1, <1>2, <1>3, ReadsTell DEF Sessions

\* The commits of a delivery
LEMMA TellDeliveryWrites ==
  ASSUME XInv, NEW d \in Deliveries, OcrCommit(d) \/ MarkCommit(d)
  PROVE  RowsTell' /\ \A s \in Sessions : Current(s)'
<1> USE DEF XInv, IInv, TypeInv, TypeOK
<1>1. /\ \A s \in Sessions \ {d} : Same(s)
      /\ pc'[d] = "done" /\ UNCHANGED <<used, stored, corrections>>
      /\ pc[d] \in {"staged", "marking"} /\ d \in Sessions /\ d \notin Requests
      /\ pc[d] = "staged" => inv[d] \in stored
  BY ConstantsAssumption DEF OcrCommit, MarkCommit, Leave, Same, Sessions, LockKept
<1>2. Current(d)'
  BY <1>1 DEF Current, Open, AtOcr
<1>3. CASE UNCHANGED db
  BY <1>1, <1>2, <1>3, ReadsTell
<1>4. CASE /\ inv[d] \in stored
           /\ db' = [db EXCEPT ![inv[d]] = Flush(@, seen[d], draft[d])]
  <2>1. pc[d] \in Open /\ pc[d] \in AtOcr /\ Reviewing(d)
    BY <1>1 DEF Open, AtOcr, Reviewing
  <2>2. /\ seen[d] \in Row /\ seen[d].status \in {"uploaded", "failed"}
        /\ Tells(seen[d], corrections[inv[d]])
    BY <1>1, <1>4, <2>1, WantedTells DEF RowsTell
  <2>3. \/ draft[d] = OcrFailed(seen[d])
        \/ \E x \in Extractions, dup \in Invoices \cup {None} :
             draft[d] = Extracted(Processing(seen[d]), x, dup)
    BY <1>1 DEF Decided, DecidedByWorker
  <2>4. Tells(draft[d], corrections[inv[d]])
    BY <2>2, <2>3, ExtractedTells, OcrFailedTells
  <2>5. QED
    BY <1>1, <1>2, <1>4, <2>1, <2>4, WriteTells
<1>5. QED
  BY <1>1, <1>3, <1>4 DEF OcrCommit, MarkCommit

\* The steps of a request
LEMMA TellRequestReads ==
  ASSUME XInv, NEW r \in Requests,
         \/ \E o \in Operations, i \in Invoices : Begin(r, o, i)
         \/ EditFlush(r) \/ WriteFails(r) \/ HandOff(r)
  PROVE  RowsTell' /\ \A s \in Sessions : Current(s)'
<1> USE DEF XInv, IInv, TypeInv, TypeOK
<1>1. \A s \in Sessions \ {r} : Same(s)
  BY RequestMoves DEF Request
<1>2. UNCHANGED <<used, stored, db, corrections>>
  BY DEF Begin, EditFlush, WriteFails, HandOff, table
<1>3. Current(r)'
  <2> USE DEF Leave, Want, Sessions
  <2>1. ASSUME NEW o \in Operations, NEW i \in Invoices, Begin(r, o, i)
        PROVE  Current(r)'
    BY <1>2, <2>1 DEF Begin, Current, Agree, Open, AtOcr
  <2>2. CASE EditFlush(r)
    BY <1>2, <2>2 DEF EditFlush, Current, Open, AtOcr, Reviewing
  <2>3. CASE WriteFails(r) \/ HandOff(r)
    BY <1>2, <2>3 DEF WriteFails, HandOff, End, Current, Open, AtOcr
  <2>4. QED
    BY <2>1, <2>2, <2>3
<1>4. QED
  BY <1>1, <1>2, <1>3, ReadsTell DEF Sessions

\* What a request writes: its story, and the columns it corrects
LEMMA WriteFacts ==
  ASSUME XInv, NEW r \in Requests, Write(r)
  PROVE  /\ pc[r] \in Open /\ Reviewing(r) /\ inv[r] \in stored /\ r \in Sessions
         /\ Tells(draft[r], corrections[inv[r]] \cup Changed(r))
         /\ op[r] = "confirm" => draft[r] = Confirmed(seen[r]) /\ CanConfirm(seen[r])
         /\ op[r] # "edit" => \A c \in DocumentColumns : draft[r][c] = seen[r][c]
<1> USE DEF XInv
<1>1. /\ pc[r] \in Open /\ Reviewing(r) /\ inv[r] \in stored /\ r \in Sessions
      /\ DecidedByReviewer(r)
  BY DEF Write, Decided, DecidedByReviewer, Open, Reviewing, Sessions
<1>2. /\ seen[r] \in Row /\ seen[r].status # "processing"
      /\ Tells(seen[r], corrections[inv[r]])
  BY <1>1, WantedTells DEF RowsTell
<1>3. CASE pc[r] = "flushed"
  <2>1. /\ op[r] = "edit" /\ Accepted("edit", seen[r])
        /\ \E p \in Patches, dup \in Invoices \cup {None} :
             draft[r] = Edited(Patched(seen[r], p), dup)
    BY <1>1, <1>3 DEF DecidedByReviewer
  <2>2. Changed(r) = Edits(seen[r], draft[r])
    BY DEF Changed, Edits
  <2>3. Tells(draft[r], corrections[inv[r]] \cup Edits(seen[r], draft[r]))
    BY <1>2, <2>1, EditedTells
  <2>4. QED
    BY <1>1, <2>1, <2>2, <2>3
<1>4. CASE pc[r] = "writing"
  <2>1. /\ op[r] \in {"confirm", "reject", "skip", "reopen"}
        /\ Accepted(op[r], seen[r]) /\ draft[r] \in Wanted(op[r], seen[r])
    BY <1>1, <1>4 DEF Write, DecidedByReviewer, Operations
  <2>2. /\ Tells(draft[r], corrections[inv[r]])
        /\ \A c \in DocumentColumns : draft[r][c] = seen[r][c]
    BY <1>2, <2>1, ReviewedTells
  <2>3. Tells(draft[r], corrections[inv[r]] \cup Changed(r))
    BY <2>2 DEF Tells
  <2>4. op[r] = "confirm" => draft[r] = Confirmed(seen[r]) /\ CanConfirm(seen[r])
    BY <2>1 DEF Wanted, Accepted
  <2>5. QED
    BY <1>1, <2>2, <2>3, <2>4
<1>5. QED
  BY <1>3, <1>4 DEF Write

LEMMA TellWrite ==
  ASSUME XInv, NEW r \in Requests, Write(r)
  PROVE  /\ RowsTell' /\ \A s \in Sessions : Current(s)'
         /\ Agree(db'[inv[r]], draft[r])
<1> USE DEF XInv, IInv, TypeInv, TypeOK
<1>1. \A s \in Sessions \ {r} : Same(s)
  BY RequestMoves DEF Request
<1>2. /\ pc[r] \in Open /\ Reviewing(r) /\ inv[r] \in stored /\ inv[r] \in Invoices /\ r \in Sessions
      /\ Tells(draft[r], corrections[inv[r]] \cup Changed(r))
      /\ op[r] = "confirm" => draft[r] = Confirmed(seen[r])
  BY WriteFacts
<1>3. /\ corrections'[inv[r]] = corrections[inv[r]] \cup Changed(r)
      /\ \A i \in Invoices \ {inv[r]} : corrections'[i] = corrections[i]
      /\ db' = [db EXCEPT ![inv[r]] = Flush(@, seen[r], draft[r])]
      /\ UNCHANGED <<used, stored>>
  BY <1>2 DEF Write
<1>4. /\ RowsTell' /\ Agree(db'[inv[r]], draft[r])
      /\ \A t \in Sessions \ {r} : Current(t)'
  BY <1>1, <1>2, <1>3, WriteTells
<1>5. Current(r)'
  <2>1. CASE op[r] = "confirm"
    <3>1. seen[r] \in Row
      BY <1>2 DEF SnapshotsType
    <3>2. Confirmed(seen[r]).status = "confirmed"
      BY <3>1 DEF Confirmed, Row
    <3>3. db'[inv[r]].status = "confirmed"
      BY <1>2, <1>4, <2>1, <3>2 DEF Agree, Own, Columns
    <3>4. pc'[r] = "confirmed" /\ inv' = inv
      BY <2>1 DEF Write, Leave, Sessions
    <3>5. QED
      BY <3>3, <3>4 DEF Current, Open, AtOcr
  <2>2. CASE op[r] # "confirm"
    BY <2>2 DEF Write, End, Leave, Sessions, Current, Open, AtOcr
  <2>3. QED
    BY <2>1, <2>2
<1>6. QED
  BY <1>4, <1>5

LEMMA TellRemove ==
  ASSUME XInv, NEW r \in Requests, Remove(r)
  PROVE  /\ RowsTell' /\ \A s \in Sessions : Current(s)'
         /\ \A i \in Invoices : Agree(db'[i], db[i])
<1> USE DEF XInv, IInv, TypeInv, TypeOK
<1>1. \A s \in Sessions \ {r} : Same(s)
  BY RequestMoves DEF Request
<1>2. \A i \in Invoices : Agree(db'[i], db[i])
  BY DEF Remove, Agree, Own, Columns, DocumentColumns, Row
<1>3. \A i \in Invoices \ used : db'[i] = db[i]
  BY ConstantsAssumption DEF Remove, RowsTell, UploadedRow
<1>4. RowsTell'
  <2>1. ASSUME NEW i \in stored'
        PROVE  Tells(db'[i], corrections'[i])
    <3>1. i \in stored /\ i \in Invoices /\ corrections'[i] = corrections[i]
      BY DEF Remove
    <3>2. Tells(db[i], corrections[i])
      BY <3>1 DEF RowsTell
    <3>3. QED
      BY <1>2, <3>1, <3>2, TellsAgree
  <2>2. QED
    BY <1>3, <2>1 DEF RowsTell, Remove
<1>5. ASSUME NEW s \in Sessions \ {r}
      PROVE  Current(s)'
  <2>1. inv[s] \in stored' => inv[s] \in stored /\ Agree(db[inv[s]], db'[inv[s]])
    BY <1>2 DEF Remove, Agree
  <2>2. QED
    BY <1>1, <2>1, CurrentSame
<1>6. Current(r)'
  BY DEF Remove, End, Leave, Sessions, Current, Open, AtOcr
<1>7. QED
  BY <1>2, <1>4, <1>5, <1>6

--------------------------------------------------------------------------------
(* The invariant and what it shows *)

LEMMA ExclusiveInit == Init => XInv
<1>1. Init => IInv
  BY TypeInit, SafeInit DEF IInv, Safe
<1>2. Init => LockKept /\ Alone /\ RowsTell /\ \A s \in Sessions : Current(s)
  BY DEF Init, LockKept, Alone, RowsTell, Current, Open, AtOcr, Sessions
<1>3. QED
  BY <1>1, <1>2, DecidedInit DEF XInv

LEMMA ExclusiveStep ==
  ASSUME ExclusiveUse, XInv, [Next]_vars
  PROVE  XInv'
<1>1. IInv' /\ Decided' /\ LockKept' /\ Alone'
  BY SafeStep, DecidedStep, LockStep, AloneStep DEF XInv, IInv
<1>2. RowsTell' /\ \A s \in Sessions : Current(s)'
  <2>1. CASE UNCHANGED vars
    BY <2>1, CurrentSame DEF vars, table, sessions, XInv, RowsTell, Same, Agree
  <2>2. ASSUME NEW d \in Deliveries, Delivery(d)
        PROVE  RowsTell' /\ \A s \in Sessions : Current(s)'
    BY <2>2, TellDeliveryReads, TellDeliveryWrites
  <2>3. ASSUME NEW r \in Requests, Request(r)
        PROVE  RowsTell' /\ \A s \in Sessions : Current(s)'
    BY <2>3, TellRequestReads, TellWrite, TellRemove DEF Request
  <2>4. QED
    BY <2>1, <2>2, <2>3, TellUpload DEF Next
<1>3. QED
  BY <1>1, <1>2 DEF XInv

\* With one message and one request at a time, sessions write what follows from
\* what is stored.
THEOREM ExclusiveInvariant ==
  ASSUME ExclusiveUse
  PROVE  Spec => []XInv
<1>1. XInv /\ [Next]_vars => XInv'
  BY ExclusiveStep
<1>2. QED
  BY <1>1, ExclusiveInit, PTL DEF Spec

\* Then the dates, reasons, issues and corrections of every stored row match
\* its status and its columns (process_invoice_ocr, mark_invoice_failed and the
\* endpoints of the review).
THEOREM RowsConsistent ==
  ASSUME ExclusiveUse
  PROVE  Spec => []RowsAreConsistent
<1>1. XInv => RowsAreConsistent
  BY DEF XInv, RowsTell, Tells, RowsAreConsistent, ConfirmedAtMatchesStatus,
         ReasonMatchesStatus, ErrorsAreShown, CorrectionsComplete
<1>2. QED
  BY <1>1, ExclusiveInvariant, PTL

\* Then the myDATA and ERP tasks of an invoice are sent while it is confirmed
\* (confirm_invoice: commit first, then hand off).
THEOREM HandOffCommitted ==
  ASSUME ExclusiveUse
  PROVE  Spec => HandOffAfterCommit
<1>1. XInv /\ [Next]_vars =>
        [\A i \in handoff' \ handoff : i \in stored => db[i].status = "confirmed"]_vars
  <2> SUFFICES ASSUME XInv, Next, NEW i \in handoff' \ handoff, i \in stored
               PROVE  db[i].status = "confirmed"
    OBVIOUS
  <2>1. PICK r \in Requests : HandOff(r)
    BY DEF Next, Upload, Requeue, Delivery, OcrRefused, OcrLoad, OcrFlush, OcrAnswer, OcrCommit,
           OcrTransient, OcrDbError, Retry, OcrPermanent, MarkLoad, MarkCommit, Ack, Crash, TimeLimit,
           CrashAfterRetry, Request, Begin, EditFlush, WriteFails, Write, Remove, table
  <2>2. i = inv[r] /\ pc[r] = "confirmed"
    BY <2>1 DEF HandOff
  <2>3. QED
    BY <2>2 DEF XInv, Current, Sessions
<1>2. QED
  BY <1>1, ExclusiveInvariant, PTL DEF Spec, HandOffAfterCommit

\* No request touches the result of the OCR
LEMMA OcrKept ==
  ASSUME XInv, NEW r \in Requests, Write(r)
  PROVE  draft[r].ocr_raw = seen[r].ocr_raw
<1> USE DEF XInv
<1>1. DecidedByReviewer(r) /\ seen[r] \in Row
  BY WriteFacts, WantedTells DEF Decided
<1>2. \A row \in Row, p \in Patches : Patched(row, p).ocr_raw = row.ocr_raw
  <2>1. \A row \in Row, p \in Patches :
          Overlay(row, p) \in Row /\ Overlay(row, p).ocr_raw = row.ocr_raw
    BY OverlayType, ConstantsAssumption DEF Overlay, Columns, DocumentColumns
  <2>2. QED
    BY <2>1 DEF Patched, Row
<1>3. CASE pc[r] = "flushed"
  <2>1. PICK p \in Patches, dup \in Invoices \cup {None} :
           draft[r] = Edited(Patched(seen[r], p), dup)
    BY <1>1, <1>3 DEF DecidedByReviewer
  <2>2. Patched(seen[r], p) \in Row
    BY <1>1, PatchedType
  <2>3. Edited(Patched(seen[r], p), dup).ocr_raw = Patched(seen[r], p).ocr_raw
    BY <2>2 DEF Edited, Row
  <2>4. QED
    BY <1>1, <1>2, <2>1, <2>3
<1>4. CASE pc[r] = "writing"
  <2>1. /\ op[r] \in {"confirm", "reject", "skip", "reopen"}
        /\ draft[r] \in Wanted(op[r], seen[r])
    BY <1>1, <1>4 DEF Write, DecidedByReviewer, Operations
  <2>2. QED
    BY <1>1, <2>1 DEF Wanted, Confirmed, Rejected, Reopened, Row
<1>5. QED
  BY <1>3, <1>4 DEF Write

\* Then the result of the OCR is written once: no redelivery, retry or reprocessing
\* replaces what a reviewer may have worked on (the status check of ocr.py).
THEOREM OcrOnce ==
  ASSUME ExclusiveUse
  PROVE  Spec => OcrWrittenOnce
<1>1. ASSUME XInv, Next, NEW i \in stored, db[i].ocr_raw # None
      PROVE  db'[i].ocr_raw = db[i].ocr_raw
  <2> USE DEF XInv, IInv, TypeInv, TypeOK
  <2>1. i \in Invoices /\ db[i].status \in Reviewed
    BY <1>1 DEF RowsTell, Tells
  <2>2. ASSUME NEW s \in Sessions, Current(s), pc[s] \in AtOcr
        PROVE  inv[s] # i
    BY <2>1, <2>2 DEF Current, Reviewed
  <2>3. ASSUME NEW d \in Deliveries, OcrCommit(d) \/ MarkCommit(d)
        PROVE  db'[i].ocr_raw = db[i].ocr_raw
    <3>1. inv[d] # i
      BY <1>1, <2>2, <2>3 DEF OcrCommit, MarkCommit, AtOcr, Sessions
    <3>2. \/ db' = [db EXCEPT ![inv[d]] = Flush(@, seen[d], draft[d])]
          \/ db' = db
      BY <2>3 DEF OcrCommit, MarkCommit
    <3>3. QED
      BY <1>1, <2>1, <3>1, <3>2
  <2>4. ASSUME NEW r \in Requests, Write(r)
        PROVE  db'[i].ocr_raw = db[i].ocr_raw
    <3>1. draft[r].ocr_raw = seen[r].ocr_raw
      BY <1>1, <2>4, OcrKept
    <3>2. Flush(db[inv[r]], seen[r], draft[r]).ocr_raw = db[inv[r]].ocr_raw
      BY <3>1 DEF Flush, Columns
    <3>3. QED
      BY <2>1, <2>4, <3>2 DEF Write
  <2>5. ASSUME NEW r \in Requests, Remove(r)
        PROVE  db'[i].ocr_raw = db[i].ocr_raw
    BY <1>1, <2>1, <2>5, TellRemove DEF Agree, Own, Columns
  <2>6. ASSUME NEW j \in Invoices, Upload(j) \/ Requeue(j)
        PROVE  db'[i].ocr_raw = db[i].ocr_raw
    BY <1>1, <2>1, <2>6 DEF Upload, Requeue, table
  <2>7. CASE UNCHANGED db
    BY <2>7
  <2>8. QED
    BY <1>1, <2>3, <2>4, <2>5, <2>6, <2>7
       DEF Next, Delivery, OcrRefused, OcrLoad, OcrFlush, OcrAnswer, OcrTransient, OcrDbError, Retry,
           OcrPermanent, MarkLoad, Ack, Crash, TimeLimit, CrashAfterRetry, Request, Begin,
           EditFlush, WriteFails, HandOff, table
<1>2. XInv /\ [Next]_vars =>
        [\A i \in stored : db[i].ocr_raw # None => db'[i].ocr_raw = db[i].ocr_raw]_vars
  BY <1>1
<1>3. QED
  BY <1>2, ExclusiveInvariant, PTL DEF Spec, OcrWrittenOnce

--------------------------------------------------------------------------------
(* Implementation of InvoiceReview *)

Shown ==
  [i \in Invoices |-> IF i \notin used THEN "absent"
                      ELSE IF i \notin stored THEN "deleted" ELSE db[i].status]

Documents == [i \in Invoices |-> [c \in DocumentColumns |-> db[i][c]]]

\* The rows as the review shows them
Looks(i) == UNCHANGED db[i].status /\ \A c \in DocumentColumns : UNCHANGED db[i][c]

LEMMA AgreeLooks ==
  ASSUME NEW i, Agree(db'[i], db[i])
  PROVE  Looks(i)
BY DEF Agree, Looks, Own, Columns, DocumentColumns

\* A step that changes no status, document or row set is a stutter.
LEMMA ReviewStutters ==
  ASSUME UNCHANGED <<used, stored>>, \A i \in Invoices : Looks(i)
  PROVE  UNCHANGED Review!vars
<1>1. Shown' = Shown
  BY DEF Looks, Shown
<1>2. Documents' = Documents
  BY DEF Looks, Documents
<1>3. QED
  BY <1>1, <1>2 DEF Review!vars, Shown, Documents

\* A step that writes one row moves one invoice.
LEMMA ReviewMoves ==
  ASSUME UNCHANGED <<used, stored>>, stored \subseteq used, used \subseteq Invoices,
         NEW i \in stored, \A j \in Invoices \ {i} : Looks(j)
  PROVE  /\ Shown[i] = db[i].status /\ Shown' = [Shown EXCEPT ![i] = db'[i].status]
         /\ \A j \in Invoices \ {i} : Documents'[j] = Documents[j]
         /\ Looks(i) => Documents' = Documents
<1>1. \A j \in Invoices : Looks(j) => Documents'[j] = Documents[j]
  BY DEF Looks, Documents
<1>2. Looks(i) => Documents' = Documents
  BY <1>1 DEF Documents
<1>3. \A j \in Invoices : Shown'[j] = IF j = i THEN db'[i].status ELSE Shown[j]
  BY DEF Looks, Shown
<1>4. QED
  BY <1>1, <1>2, <1>3 DEF Shown

LEMMA ReviewInit == Init => Review!Init
BY DEF Init, Review!Init, UploadedRow, DocumentColumns

\* The clean documents of the review are those confirm_invoice accepts.
LEMMA ConfirmableIsClean ==
  ASSUME NEW loaded, NEW document, CanConfirm(loaded),
         \A c \in DocumentColumns : document[c] = loaded[c]
  PROVE  IsClean(document)
<1>1. /\ document.total_ht = loaded.total_ht /\ document.total_vat = loaded.total_vat
      /\ document.total_ttc = loaded.total_ttc /\ document.issue_date = loaded.issue_date
      /\ document.due_date = loaded.due_date /\ document.supplier_id = loaded.supplier_id
      /\ document.invoice_number = loaded.invoice_number
  BY DEF DocumentColumns
<1>2. QED
  BY <1>1 DEF IsClean, CanConfirm, HasErrors, Revalidated, FieldIssues

LEMMA ReviewNext ==
  ASSUME NEW i \in Invoices,
         \/ Review!Register(i) \/ Review!Read(i) \/ Review!Fail(i) \/ Review!Correct(i)
         \/ Review!Confirm(i) \/ Review!Reject(i) \/ Review!Reopen(i) \/ Review!Delete(i)
  PROVE  Review!Next
BY Zenon DEF Review!Next

LEMMA ReviewUpload ==
  ASSUME XInv, NEW i \in Invoices, Upload(i) \/ Requeue(i)
  PROVE  Review!Next \/ UNCHANGED Review!vars
<1> USE DEF XInv, IInv, TypeInv, TypeOK
<1>1. CASE Requeue(i)
  BY <1>1, ReviewStutters DEF Requeue, table, Looks
<1>2. CASE Upload(i)
  <2>1. /\ i \notin used /\ used' = used \cup {i} /\ stored' = stored \cup {i}
        /\ db' = [db EXCEPT ![i] = UploadedRow] /\ db[i] = UploadedRow
    BY <1>2 DEF Upload, RowsTell
  <2>2. db' = db
    BY <2>1
  <2>3. Shown[i] = "absent" /\ Shown' = [Shown EXCEPT ![i] = "uploaded"]
    <3>1. db[i].status = "uploaded" /\ stored \subseteq used
      BY <2>1 DEF UploadedRow
    <3>2. QED
      BY <2>1, <2>2, <3>1 DEF Shown
  <2>4. Documents' = Documents
    BY <2>2 DEF Documents
  <2>5. Review!Register(i)
    BY <2>3, <2>4 DEF Review!Register, Review!Move, Shown, Documents
  <2>6. QED
    BY <2>5, ReviewNext
<1>3. QED
  BY <1>1, <1>2

\* What a write of session s does to the row it works on
LEMMA ReviewWrites ==
  ASSUME XInv, NEW s \in Sessions, pc[s] \in Open, Reviewing(s), inv[s] \in stored,
         UNCHANGED <<used, stored>>,
         db' = [db EXCEPT ![inv[s]] = Flush(@, seen[s], draft[s])]
  PROVE  /\ inv[s] \in Invoices
         /\ Shown[inv[s]] = seen[s].status
         /\ Shown' = [Shown EXCEPT ![inv[s]] = draft[s].status]
         /\ \A j \in Invoices \ {inv[s]} : Documents'[j] = Documents[j]
         /\ \A c \in DocumentColumns : Documents[inv[s]][c] = seen[s][c]
         /\ (\A c \in DocumentColumns : draft[s][c] = seen[s][c]) => Documents' = Documents
<1> USE DEF XInv, IInv, TypeInv, TypeOK
<1>1. inv[s] \in Invoices /\ Agree(seen[s], db[inv[s]])
  BY DEF Current
<1>2. Agree(db'[inv[s]], draft[s]) /\ \A i \in Invoices \ {inv[s]} : Looks(i)
  BY <1>1, FlushAgrees DEF Looks
<1>3. /\ Shown[inv[s]] = db[inv[s]].status
      /\ Shown' = [Shown EXCEPT ![inv[s]] = db'[inv[s]].status]
      /\ \A j \in Invoices \ {inv[s]} : Documents'[j] = Documents[j]
      /\ Looks(inv[s]) => Documents' = Documents
  BY <1>2, ReviewMoves
<1>4. /\ db[inv[s]].status = seen[s].status /\ db'[inv[s]].status = draft[s].status
      /\ \A c \in DocumentColumns :
           db[inv[s]][c] = seen[s][c] /\ db'[inv[s]][c] = draft[s][c]
  BY <1>1, <1>2 DEF Agree, Own, Columns, DocumentColumns
<1>5. \A c \in DocumentColumns : Documents[inv[s]][c] = seen[s][c]
  BY <1>1, <1>4 DEF Documents
<1>6. ASSUME \A c \in DocumentColumns : draft[s][c] = seen[s][c]
      PROVE  Documents' = Documents
  <2>1. \A c \in DocumentColumns : db'[inv[s]][c] = db[inv[s]][c]
    BY <1>4, <1>6
  <2>2. \A i \in Invoices, c \in DocumentColumns : db'[i][c] = db[i][c]
    BY <1>2, <2>1 DEF Looks
  <2>3. QED
    BY <2>2 DEF Documents
<1>7. QED
  BY <1>1, <1>3, <1>4, <1>5, <1>6

\* The commit of an OCR reads the document, the commit of a failure fails it.
LEMMA ReviewDelivery ==
  ASSUME XInv, NEW d \in Deliveries, Delivery(d)
  PROVE  Review!Next \/ UNCHANGED Review!vars
<1> USE DEF XInv, IInv, TypeInv, TypeOK
<1>1. d \in Sessions /\ Reviewing(d)
  BY ConstantsAssumption DEF Sessions, Reviewing
<1>2. CASE OcrCommit(d)
  <2>1. /\ pc[d] \in Open /\ pc[d] \in AtOcr /\ inv[d] \in stored /\ UNCHANGED <<used, stored>>
        /\ db' = [db EXCEPT ![inv[d]] = Flush(@, seen[d], draft[d])]
    BY <1>1, <1>2 DEF OcrCommit, Open, AtOcr, LockKept
  <2>2. seen[d].status \in {"uploaded", "failed"}
    BY <1>1, <2>1, WantedTells
  <2>3. draft[d].status = "ready_for_review"
    <3>1. \E x \in Extractions, dup \in Invoices \cup {None} :
            draft[d] = Extracted(Processing(seen[d]), x, dup)
      BY <1>2 DEF OcrCommit, Decided, DecidedByWorker
    <3>2. \A x, dup : Extracted(Processing(seen[d]), x, dup).status = "ready_for_review"
      BY DEF Extracted, Overlay, Columns
    <3>3. QED
      BY <3>1, <3>2
  <2>4. PICK i \in Invoices : i = inv[d]
    BY <2>1
  <2>5. Review!Read(i)
    BY <2>4, <1>1, <2>1, <2>2, <2>3, ReviewWrites
       DEF Review!Read, Review!Move, Review!OnlyDocument, Shown, Documents
  <2>6. QED
    BY <2>5, ReviewNext
<1>3. CASE MarkCommit(d) /\ inv[d] \in stored
  <2>1. /\ pc[d] \in Open /\ pc[d] \in AtOcr /\ inv[d] \in stored /\ UNCHANGED <<used, stored>>
        /\ db' = [db EXCEPT ![inv[d]] = Flush(@, seen[d], draft[d])]
        /\ draft[d] = OcrFailed(seen[d])
    BY <1>3 DEF MarkCommit, Open, AtOcr, Decided, DecidedByWorker
  <2>2. seen[d] \in Row /\ seen[d].status \in {"uploaded", "failed"}
    BY <1>1, <2>1, WantedTells
  <2>3. draft[d].status = "failed" /\ \A c \in DocumentColumns : draft[d][c] = seen[d][c]
    BY <2>1, <2>2 DEF OcrFailed, Row, DocumentColumns
  <2>4. PICK i \in Invoices : i = inv[d]
    BY <2>1
  <2>5. Review!Fail(i)
    BY <2>4, <1>1, <2>1, <2>2, <2>3, ReviewWrites DEF Review!Fail, Review!Move, Shown, Documents
  <2>6. QED
    BY <2>5, ReviewNext
<1>4. CASE UNCHANGED <<used, stored, db>>
  BY <1>4, ReviewStutters DEF Looks
<1>5. QED
  BY <1>2, <1>3, <1>4
     DEF Delivery, OcrRefused, OcrLoad, OcrFlush, OcrAnswer, OcrTransient, OcrDbError, Retry,
         OcrPermanent, MarkLoad, MarkCommit, Ack, Crash, TimeLimit, CrashAfterRetry, table

\* The write of each operation is the step of the review it is named for.
LEMMA ReviewWrite ==
  ASSUME XInv, NEW r \in Requests, Write(r)
  PROVE  Review!Next \/ UNCHANGED Review!vars
<1> USE DEF XInv
<1>1. /\ pc[r] \in Open /\ Reviewing(r) /\ inv[r] \in stored /\ r \in Sessions
      /\ op[r] # "edit" => \A c \in DocumentColumns : draft[r][c] = seen[r][c]
  BY WriteFacts
<1>2. /\ UNCHANGED <<used, stored>>
      /\ db' = [db EXCEPT ![inv[r]] = Flush(@, seen[r], draft[r])]
  BY DEF Write
<1>3. seen[r] \in Row /\ seen[r].status # "processing"
  BY <1>1, WantedTells
<1>4. /\ inv[r] \in Invoices
      /\ Shown[inv[r]] = seen[r].status
      /\ Shown' = [Shown EXCEPT ![inv[r]] = draft[r].status]
      /\ \A j \in Invoices \ {inv[r]} : Documents'[j] = Documents[j]
      /\ \A c \in DocumentColumns : Documents[inv[r]][c] = seen[r][c]
      /\ (\A c \in DocumentColumns : draft[r][c] = seen[r][c]) => Documents' = Documents
  BY <1>1, <1>2, ReviewWrites
<1>i. PICK i \in Invoices : i = inv[r]
  BY <1>4
<1>5. DecidedByReviewer(r)
  BY DEF Decided
<1>6. CASE pc[r] = "flushed"
  <2>1. /\ seen[r].status \in {"ready_for_review", "rejected"}
        /\ \E p \in Patches, dup \in Invoices \cup {None} :
             draft[r] = Edited(Patched(seen[r], p), dup)
    BY <1>5, <1>6 DEF DecidedByReviewer, Accepted, Editable
  <2>2. draft[r].status = "ready_for_review"
    <3>1. ASSUME NEW p \in Patches, NEW dup
          PROVE  Edited(Patched(seen[r], p), dup).status = "ready_for_review"
      <4>1. Overlay(seen[r], p) \in Row
        BY <1>3, OverlayType, ConstantsAssumption
      <4>2. Patched(seen[r], p).status = "ready_for_review" /\ Patched(seen[r], p) \in Row
        BY <1>3, <4>1, PatchedType DEF Patched, Row
      <4>3. QED
        BY <4>2 DEF Edited, Row
    <3>2. QED
      BY <2>1, <3>1
  <2>3. Review!Correct(i)
    BY <1>i, <1>4, <2>1, <2>2 DEF Review!Correct, Review!Move, Review!OnlyDocument, Shown, Documents
  <2>4. QED
    BY <2>3, ReviewNext
<1>7. CASE pc[r] = "writing"
  <2>1. /\ op[r] \in {"confirm", "reject", "skip", "reopen"}
        /\ Accepted(op[r], seen[r]) /\ draft[r] \in Wanted(op[r], seen[r])
    BY <1>5, <1>7 DEF Write, DecidedByReviewer, Operations
  <2>2. Documents' = Documents
    BY <1>1, <1>4, <2>1
  <2>3. CASE op[r] = "confirm"
    <3>1. CanConfirm(seen[r]) /\ draft[r] = Confirmed(seen[r])
      BY <2>1, <2>3 DEF Accepted, Wanted
    <3>2. seen[r].status = "ready_for_review" /\ draft[r].status = "confirmed"
      BY <1>3, <3>1 DEF CanConfirm, Confirmed, Row
    <3>3. IsClean(Documents[inv[r]])
      BY <1>4, <3>1, ConfirmableIsClean
    <3>4. Review!Confirm(i)
      BY <1>i, <1>4, <2>2, <3>2, <3>3 DEF Review!Confirm, Review!Move, Shown, Documents
    <3>5. QED
      BY <3>4, ReviewNext
  <2>4. CASE op[r] = "reject"
    <3>1. seen[r].status = "ready_for_review" /\ draft[r].status = "rejected"
      BY <1>3, <2>1, <2>4 DEF Accepted, Wanted, Rejected, Row
    <3>2. Review!Reject(i)
      BY <1>i, <1>4, <2>2, <3>1 DEF Review!Reject, Review!Move, Shown, Documents
    <3>3. QED
      BY <3>2, ReviewNext
  <2>5. CASE op[r] = "reopen"
    <3>1. seen[r].status \in {"confirmed", "rejected"} /\ draft[r].status = "ready_for_review"
      BY <1>3, <2>1, <2>5 DEF Accepted, Reopenable, Wanted, Reopened, Row
    <3>2. Review!Reopen(i)
      BY <1>i, <1>4, <2>2, <3>1 DEF Review!Reopen, Review!Move, Shown, Documents
    <3>3. QED
      BY <3>2, ReviewNext
  <2>6. CASE op[r] = "skip"
    <3>1. draft[r] = seen[r]
      BY <2>1, <2>6 DEF Wanted
    <3>2. Shown' = Shown
      BY <1>4, <3>1 DEF Shown
    <3>3. QED
      BY <2>2, <3>2 DEF Review!vars, Shown, Documents
  <2>7. QED
    BY <2>1, <2>3, <2>4, <2>5, <2>6
<1>8. QED
  BY <1>6, <1>7 DEF Write

LEMMA ReviewRemove ==
  ASSUME XInv, NEW r \in Requests, Remove(r)
  PROVE  Review!Next \/ UNCHANGED Review!vars
<1> USE DEF XInv, IInv, TypeInv, TypeOK
<1>1. \A i \in Invoices : Looks(i)
  BY TellRemove, AgreeLooks
<1>2. inv[r] \in stored /\ inv[r] \in Invoices /\ used' = used /\ stored' = stored \ {inv[r]}
  BY DEF Remove
<1>i. PICK i \in Invoices : i = inv[r]
  BY <1>2
<1>3. /\ Shown[inv[r]] # "absent"
      /\ Shown' = [Shown EXCEPT ![inv[r]] = "deleted"]
  BY <1>1, <1>2 DEF Looks, Shown, Row, Status
<1>4. Documents' = Documents
  BY <1>1 DEF Looks, Documents
<1>5. Review!Delete(i)
  BY <1>i, <1>3, <1>4 DEF Review!Delete, Review!Move, Shown, Documents
<1>6. QED
  BY <1>5, ReviewNext

LEMMA ReviewStep == XInv /\ [Next]_vars => [Review!Next]_(Review!vars)
<1> SUFFICES ASSUME XInv, [Next]_vars PROVE Review!Next \/ UNCHANGED Review!vars
  OBVIOUS
<1>1. CASE UNCHANGED vars
  BY <1>1, ReviewStutters DEF vars, table, Looks
<1>2. ASSUME NEW r \in Requests, Request(r)
      PROVE  Review!Next \/ UNCHANGED Review!vars
  <2>1. CASE Write(r)
    BY <2>1, ReviewWrite
  <2>2. CASE Remove(r)
    BY <2>2, ReviewRemove
  <2>3. CASE UNCHANGED <<used, stored, db>>
    BY <2>3, ReviewStutters DEF Looks
  <2>4. QED
    BY <1>2, <2>1, <2>2, <2>3 DEF Request, Begin, EditFlush, WriteFails, HandOff, table
<1>3. QED
  BY <1>1, <1>2, ReviewUpload, ReviewDelivery DEF Next

\* The review API and the worker implement the promise of the review: the
\* matrix of statuses, frozen documents after a confirmation or a rejection,
\* clean confirmed documents.
THEOREM ReviewImplemented ==
  ASSUME ExclusiveUse
  PROVE  Spec => ReviewSpec
<1>1. QED
  BY ReviewInit, ReviewStep, ExclusiveInvariant, PTL DEF Spec, ReviewSpec, Review!Spec

================================================================================
