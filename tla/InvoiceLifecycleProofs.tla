------------------------ MODULE InvoiceLifecycleProofs ------------------------
(***************************************************************************)
(* Proofs about InvoiceLifecycle: its types, and what holds of the rows    *)
(* for any number of invoices, messages, workers and reviewers, with and   *)
(* without overlaps.                                                       *)
(***************************************************************************)
EXTENDS InvoiceLifecycle, TLAPS

--------------------------------------------------------------------------------
(* The rows the operators build are rows *)

\* The rules report known codes only.
LEMMA IssuesType ==
  /\ \A row : FieldIssues(row) \in SUBSET IssueCodes
  /\ \A row : Revalidated(row) \in SUBSET IssueCodes
  /\ \A v, n, d : RequiredFieldIssues(v, n, d) \in SUBSET IssueCodes
  /\ \A c : ConfidenceIssues(c) \in SUBSET IssueCodes
BY DEF FieldIssues, Revalidated, RequiredFieldIssues, ConfidenceIssues, TotalsIssues,
       DateIssues, DuplicateIssues, When, IssueCodes, ErrorCodes, WarningCodes

LEMMA FlushType ==
  ASSUME NEW row \in Row, NEW loaded \in Row, NEW wanted \in Row
  PROVE  Flush(row, loaded, wanted) \in Row
BY DEF Flush, Row, Columns, DocumentColumns

LEMMA UploadedRowType == UploadedRow \in Row
BY DEF UploadedRow, Row, Status, Amount

LEMMA OverlayType ==
  ASSUME NEW row \in Row, NEW values,
         \A c \in DocumentColumns \cap DOMAIN values : values[c] \in DocumentValue(c)
  PROVE  Overlay(row, values) \in Row
BY DEF Overlay, Row, Columns, DocumentColumns, DocumentValue, Amount

LEMMA ExtractionValues ==
  ASSUME NEW x \in Extractions, NEW c \in DocumentColumns
  PROVE  x[c] \in DocumentValue(c)
BY ConstantsAssumption DEF Extraction, DocumentColumns, DocumentValue, Amount

\* What a search returns is among what it looked at.
LEMMA BestAmongFound ==
  ASSUME NEW row, NEW found, NEW dup \in BestOrNone(row, found)
  PROVE  dup \in found \cup {None}
BY DEF BestOrNone, Best, LookLike

LEMMA NewestAmongAll ==
  ASSUME NEW candidates, NEW found \in Newest(candidates)
  PROVE  found \subseteq candidates
BY DEF Newest

LEMMA PossibleDuplicatesType ==
  ASSUME stored \subseteq Invoices, NEW i, NEW row
  PROVE  /\ PossibleDuplicates(i, row) \subseteq Invoices \cup {None}
         /\ NewestDuplicates(i, row) \subseteq Invoices \cup {None}
<1>1. Candidates(i, row) \subseteq Invoices
  BY DEF Candidates
<1>2. PossibleDuplicates(i, row) \subseteq Invoices \cup {None}
  BY <1>1, BestAmongFound DEF PossibleDuplicates
<1>3. ASSUME NEW dup \in NewestDuplicates(i, row)
      PROVE  dup \in Invoices \cup {None}
  <2>1. PICK found \in Newest(Candidates(i, row)) : dup \in BestOrNone(row, found)
    BY <1>3 DEF NewestDuplicates
  <2>2. QED
    BY <1>1, <2>1, BestAmongFound, NewestAmongAll
<1>4. QED
  BY <1>2, <1>3

LEMMA ExtractedType ==
  ASSUME NEW row \in Row, NEW x \in Extractions, NEW dup \in Invoices \cup {None}
  PROVE  Extracted(row, x, dup) \in Row
<1> DEFINE overlay == Overlay(row, x)
<1>1. overlay \in Row
  BY OverlayType, ExtractionValues
<1> HIDE DEF overlay
<1>2. QED
  BY <1>1, IssuesType DEF Extracted, overlay, Row, Status

LEMMA PatchedType ==
  ASSUME NEW row \in Row, NEW p \in Patches
  PROVE  Patched(row, p) \in Row
<1> DEFINE overlay == Overlay(row, p)
           reason  == IF row.status = "rejected" THEN FALSE ELSE overlay.rejected_reason
<1>1. overlay \in Row
  BY OverlayType, ConstantsAssumption
<1> HIDE DEF overlay
<1>2. reason \in BOOLEAN
  BY <1>1 DEF Row
<1> HIDE DEF reason
<1>3. [overlay EXCEPT !.status = "ready_for_review", !.rejected_reason = reason] \in Row
  BY <1>1, <1>2 DEF Row, Status
<1>4. QED
  BY <1>3 DEF Patched, overlay, reason

LEMMA EditedType ==
  ASSUME NEW row \in Row, NEW dup \in Invoices \cup {None}
  PROVE  Edited(row, dup) \in Row
BY IssuesType DEF Edited, Row

LEMMA ReviewedRowType ==
  ASSUME NEW row \in Row
  PROVE  Confirmed(row) \in Row /\ Rejected(row) \in Row /\ Reopened(row) \in Row
<1>1. Confirmed(row) \in Row
  <2> DEFINE issues == Revalidated(row)
  <2>1. issues \in SUBSET IssueCodes
    BY IssuesType
  <2> HIDE DEF issues
  <2>2. [row EXCEPT !.status = "confirmed", !.confirmed_at = TRUE,
                    !.rejected_reason = FALSE, !.validation_errors = issues] \in Row
    BY <2>1 DEF Row, Status
  <2>3. QED
    BY <2>2 DEF Confirmed, issues
<1>2. Rejected(row) \in Row
  BY DEF Rejected, Row, Status
<1>3. Reopened(row) \in Row
  BY DEF Reopened, Row, Status
<1>4. QED
  BY <1>1, <1>2, <1>3

LEMMA WantedType ==
  ASSUME NEW o \in Operations, NEW row \in Row, NEW wanted \in Wanted(o, row)
  PROVE  wanted \in Row
BY PatchedType, ReviewedRowType DEF Wanted, Operations

LEMMA OcrFailedType ==
  ASSUME NEW row \in Row
  PROVE  OcrFailed(row) \in Row
BY DEF OcrFailed, Row, Status, IssueCodes, ErrorCodes

LEMMA NotifiedType ==
  ASSUME NEW o, NEW i \in Invoices
  PROVE  Notified(o, i) \subseteq Invoices \X {"invoice_ready", "invoice_failed", "system"}
BY DEF Notified

--------------------------------------------------------------------------------
(* Type correctness.  TypeOK is not inductive: a commit needs the row its       *)
(* session loaded.                                                              *)

SnapshotsType ==
  \A s \in Sessions :
    /\ pc[s] # "free" => inv[s] \in used
    /\ pc[s] \in Open => seen[s] \in Row /\ draft[s] \in Row

TypeInv == TypeOK /\ SnapshotsType

LEMMA TypeInit == Init => TypeInv
BY UploadedRowType, ConstantsAssumption
   DEF Init, TypeInv, TypeOK, SnapshotsType, Steps, Open, Sessions

\* Uploads and messages
LEMMA TypeUpload ==
  ASSUME TypeInv, NEW i \in Invoices, Upload(i) \/ Requeue(i)
  PROVE  TypeInv'
<1> USE DEF TypeInv, TypeOK, SnapshotsType, Steps, Open, Sessions, table, sessions
<1>1. CASE Upload(i) /\ UNCHANGED sessions
  BY <1>1, UploadedRowType DEF Upload
<1>2. ASSUME NEW d \in Deliveries, Upload(i), Publish(i, d)
      PROVE  TypeInv'
  BY <1>2, UploadedRowType DEF Upload, Publish
<1>3. ASSUME NEW d \in Deliveries, Requeue(i), Publish(i, d)
      PROVE  TypeInv'
  BY <1>3 DEF Requeue, Publish
<1>4. QED
  BY <1>1, <1>2, <1>3 DEF Upload, Requeue

\* The steps of a delivery that write no row
LEMMA TypeDeliveryReads ==
  ASSUME TypeInv, NEW d \in Deliveries,
         \/ OcrRefused(d) \/ OcrLoad(d) \/ OcrFlush(d) \/ OcrAnswer(d)
         \/ OcrPermanent(d) \/ MarkLoad(d) \/ Ack(d) \/ Crash(d) \/ TimeLimit(d)
  PROVE  TypeInv'
<1> USE DEF TypeInv, TypeOK, SnapshotsType, Steps, Open, Sessions, table, sessions, Leave, Want
<1>1. CASE OcrRefused(d)
  BY <1>1 DEF OcrRefused
<1>2. CASE OcrLoad(d)
  <2> DEFINE row == db[inv[d]]
  <2>1. row \in Row
    BY <1>2 DEF OcrLoad
  <2> HIDE DEF row
  <2>2. [row EXCEPT !.status = "processing"] \in Row
    BY <2>1 DEF Row, Status
  <2>3. QED
    BY <1>2, <2>1, <2>2 DEF OcrLoad, row
<1>3. CASE OcrFlush(d)
  BY <1>3 DEF OcrFlush
<1>4. CASE OcrAnswer(d)
  <2>1. PICK x \in Extractions, dup \in Invoices \cup {None} :
           Want(d, "staged", Extracted(draft[d], x, dup))
    BY <1>4, PossibleDuplicatesType DEF OcrAnswer
  <2>2. Extracted(draft[d], x, dup) \in Row
    BY <1>4, ExtractedType DEF OcrAnswer
  <2>3. QED
    BY <1>4, <2>1, <2>2 DEF OcrAnswer
<1>5. CASE OcrPermanent(d)
  BY <1>5 DEF OcrPermanent
<1>6. CASE MarkLoad(d)
  BY <1>6, OcrFailedType DEF MarkLoad
<1>7. CASE Ack(d)
  BY <1>7, ConstantsAssumption DEF Ack
<1>8. CASE Crash(d)
  BY <1>8, ConstantsAssumption DEF Crash, AtWorker
<1>9. CASE TimeLimit(d)
  BY <1>9, ConstantsAssumption DEF TimeLimit, AtWorker
<1>10. QED
  BY <1>1, <1>2, <1>3, <1>4, <1>5, <1>6, <1>7, <1>8, <1>9

\* The retries of a delivery stay within its limits
LEMMA TypeDeliveryRetries ==
  ASSUME TypeInv, NEW d \in Deliveries,
         \/ OcrTransient(d) \/ OcrDbError(d)
         \/ \E e \in Deliveries : CrashAfterRetry(d, e)
  PROVE  TypeInv'
<1> USE ConstantsAssumption
    DEF TypeInv, TypeOK, SnapshotsType, Steps, Open, Sessions, table, sessions, Leave, RetriesLeft
<1>1. ASSUME NEW limit \in {MaxRetries, MaxDbRetries}, Retry(d, limit), pc[d] # "free"
      PROVE  TypeInv'
  BY <1>1 DEF Retry
<1>2. ASSUME NEW e \in Deliveries, CrashAfterRetry(d, e)
      PROVE  TypeInv'
  BY <1>2 DEF CrashAfterRetry
<1>3. QED
  BY <1>1, <1>2 DEF OcrTransient, OcrDbError

\* The commits of a delivery
LEMMA TypeDeliveryWrites ==
  ASSUME TypeInv, NEW d \in Deliveries, OcrCommit(d) \/ MarkCommit(d)
  PROVE  TypeInv'
<1> USE DEF TypeInv, TypeOK, SnapshotsType, Steps, Open, Sessions, table, sessions, Leave
<1>1. pc[d] \in {"staged", "marking"} /\ inv[d] \in Invoices
  BY DEF OcrCommit, MarkCommit
<1>2. /\ Flush(db[inv[d]], seen[d], draft[d]) \in Row
      /\ Notified("ocr", inv[d]) \cup Notified("ocr_failed", inv[d])
           \subseteq Invoices \X {"invoice_ready", "invoice_failed", "system"}
  BY <1>1, FlushType, NotifiedType
<1>3. CASE OcrCommit(d)
  BY <1>1, <1>2, <1>3 DEF OcrCommit
<1>4. CASE MarkCommit(d)
  BY <1>1, <1>2, <1>4 DEF MarkCommit
<1>5. QED
  BY <1>3, <1>4

LEMMA ClearedType ==
  ASSUME NEW row \in Row
  PROVE  [row EXCEPT !.possible_duplicate_of_id = None] \in Row
BY DEF Row

\* The steps of a request
LEMMA TypeRequest ==
  ASSUME TypeInv, NEW r \in Requests, Request(r)
  PROVE  TypeInv'
<1> USE DEF TypeInv, TypeOK, SnapshotsType, Steps, Open, Sessions, table, sessions, Leave, Want, End
<1>1. ASSUME NEW o \in Operations, NEW i \in Invoices, Begin(r, o, i)
      PROVE  TypeInv'
  <2>1. PICK row \in Wanted(o, db[i]) : Want(r, "writing", row)
    BY <1>1 DEF Begin
  <2>2. row \in Row
    BY WantedType
  <2>3. QED
    BY <1>1, <2>1, <2>2 DEF Begin
<1>2. CASE EditFlush(r)
  <2>1. PICK dup \in Invoices \cup {None} : Want(r, "flushed", Edited(draft[r], dup))
    BY <1>2, PossibleDuplicatesType DEF EditFlush
  <2>2. Edited(draft[r], dup) \in Row
    BY <1>2, EditedType DEF EditFlush
  <2>3. QED
    BY <1>2, <2>1, <2>2 DEF EditFlush
<1>3. CASE WriteFails(r)
  BY <1>3 DEF WriteFails
<1>4. CASE Write(r)
  <2>1. pc[r] \in {"writing", "flushed"} /\ inv[r] \in Invoices
    BY <1>4 DEF Write
  <2>2. /\ Flush(db[inv[r]], seen[r], draft[r]) \in Row
        /\ Notified(op[r], inv[r])
             \subseteq Invoices \X {"invoice_ready", "invoice_failed", "system"}
        /\ Changed(r) \subseteq DocumentColumns
    BY <2>1, FlushType, NotifiedType DEF Changed
  <2>3. /\ UNCHANGED <<used, stored, handoff, retries, crashes>>
        /\ db' \in [Invoices -> Row]
        /\ corrections' \in [Invoices -> SUBSET DocumentColumns]
        /\ notes' \subseteq Invoices \X {"invoice_ready", "invoice_failed", "system"}
    BY <1>4, <2>1, <2>2 DEF Write
  <2>4. CASE Leave(r, "confirmed") /\ UNCHANGED <<inv, op>>
    BY <2>1, <2>3, <2>4
  <2>5. CASE End(r)
    BY <2>1, <2>3, <2>5
  <2>6. QED
    BY <1>4, <2>4, <2>5 DEF Write
<1>5. CASE HandOff(r)
  BY <1>5 DEF HandOff
<1>6. CASE Remove(r)
  <2>1. inv[r] \in Invoices
    BY <1>6 DEF Remove
  <2>2. \A i \in Invoices : [db[i] EXCEPT !.possible_duplicate_of_id = None] \in Row
    BY ClearedType
  <2>3. QED
    BY <1>6, <2>1, <2>2 DEF Remove
<1>7. QED
  BY <1>1, <1>2, <1>3, <1>4, <1>5, <1>6 DEF Request

LEMMA TypeStep == TypeInv /\ [Next]_vars => TypeInv'
<1> SUFFICES ASSUME TypeInv, [Next]_vars PROVE TypeInv'
  OBVIOUS
<1>1. CASE UNCHANGED vars
  BY <1>1 DEF vars, table, sessions, TypeInv, TypeOK, SnapshotsType
<1>2. CASE Next
  BY <1>2, TypeUpload, TypeDeliveryReads, TypeDeliveryRetries, TypeDeliveryWrites, TypeRequest
     DEF Next, Delivery
<1>3. QED
  BY <1>1, <1>2

\* The variables keep their types, and a session in a transaction has a row.
THEOREM TypeInvariant == Spec => []TypeInv
<1>1. QED
  BY TypeInit, TypeStep, PTL DEF Spec

\* TypeOK holds in every state.
THEOREM TypeCorrect == Spec => []TypeOK
<1>1. TypeInv => TypeOK
  BY DEF TypeInv
<1>2. QED
  BY <1>1, TypeInvariant, PTL

--------------------------------------------------------------------------------
(* What holds of the rows however sessions overlap.  A session may write a      *)
(* status it decided on an older version of the row; the argument is that two   *)
(* facts about a row are never undone - it left uploaded, it has the result of  *)
(* an OCR - so what a session saw of them is still true when it writes, and     *)
(* that no session writes uploaded or processing.                               *)

RowOK(row) ==
  /\ row.status # "processing"
  /\ row.status = "uploaded" => row = UploadedRow
  /\ row.status \in Reviewed => row.ocr_raw # None

RowsOK == \A i \in Invoices : RowOK(db[i])

\* What a session saw of its row still holds, and its draft keeps the OCR result
SnapshotOK(s) ==
  /\ seen[s].status # "uploaded" => db[inv[s]].status # "uploaded"
  /\ seen[s].ocr_raw # None => db[inv[s]].ocr_raw # None /\ draft[s].ocr_raw # None

\* The row a session is about to write
DraftOK(s) ==
  /\ pc[s] \in {"staged", "flushed"} =>
       draft[s].status \in Reviewed /\ draft[s].ocr_raw # None
  /\ pc[s] = "writing" /\ s \in Requests /\ op[s] # "delete" =>
       draft[s].status \in Reviewed /\ draft[s].ocr_raw # None
  /\ pc[s] = "marking" => draft[s].status = "failed"
  /\ pc[s] \in {"marking", "writing"} =>
       draft[s].possible_duplicate_of_id = seen[s].possible_duplicate_of_id

SessionsOK == \A s \in Sessions : pc[s] \in Open => SnapshotOK(s) /\ DraftOK(s)

IInv ==
  /\ TypeInv /\ RowsOK /\ SessionsOK
  /\ OneOcrPerInvoice /\ OriginalExists

\* Writing a draft keeps a row good and undoes neither fact.
LEMMA FlushOK ==
  ASSUME NEW row \in Row, NEW loaded \in Row, NEW wanted \in Row,
         RowOK(row),
         loaded.status # "uploaded" => row.status # "uploaded",
         loaded.ocr_raw # None => row.ocr_raw # None /\ wanted.ocr_raw # None,
         \/ wanted.status \in Reviewed /\ wanted.ocr_raw # None
         \/ wanted.status = "failed"
  PROVE  LET new == Flush(row, loaded, wanted)
         IN  /\ RowOK(new) /\ new.status # "uploaded"
             /\ row.ocr_raw # None => new.ocr_raw # None
<1> DEFINE new == Flush(row, loaded, wanted)
<1>1. /\ new.status = IF wanted.status # loaded.status THEN wanted.status ELSE row.status
      /\ new.ocr_raw = IF wanted.ocr_raw # loaded.ocr_raw THEN wanted.ocr_raw ELSE row.ocr_raw
  BY DEF Flush, Columns
<1> HIDE DEF new
<1>2. new.status \notin {"uploaded", "processing"}
  BY <1>1 DEF RowOK, Reviewed
<1>3. row.ocr_raw # None => new.ocr_raw # None
  BY <1>1
<1>4. new.status \in Reviewed => new.ocr_raw # None
  BY <1>1 DEF RowOK, Reviewed
<1>5. QED
  BY <1>2, <1>3, <1>4 DEF RowOK, new

\* What is never undone, and the sessions a step leaves alone
Forward ==
  \A i \in used :
    /\ db[i].status # "uploaded" => db'[i].status # "uploaded"
    /\ db[i].ocr_raw # None => db'[i].ocr_raw # None

Same(s) ==
  /\ pc'[s] = pc[s] /\ inv'[s] = inv[s] /\ seen'[s] = seen[s] /\ draft'[s] = draft[s]
  /\ s \in Requests => op'[s] = op[s]

\* A step is safe for the sessions when it is safe for those it moves.
LEMMA SessionsStep ==
  ASSUME TypeInv, SessionsOK, Forward,
         \A s \in Sessions : Same(s) \/ (pc'[s] \in Open => SnapshotOK(s)' /\ DraftOK(s)')
  PROVE  SessionsOK'
<1> SUFFICES ASSUME NEW s \in Sessions, Same(s), pc'[s] \in Open
             PROVE  SnapshotOK(s)' /\ DraftOK(s)'
  BY DEF SessionsOK
<1>1. SnapshotOK(s) /\ DraftOK(s) /\ inv[s] \in used
  BY DEF SessionsOK, Same, TypeInv, SnapshotsType, Open
<1>2. QED
  BY <1>1 DEF SnapshotOK, DraftOK, Same, Forward

\* No step but the first flush starts an OCR.
LEMMA OcrStep ==
  ASSUME OneOcrPerInvoice,
         \A d \in Deliveries : pc'[d] \in {"ocr", "staged"} =>
           pc[d] \in {"ocr", "staged"} /\ inv'[d] = inv[d]
  PROVE  OneOcrPerInvoice'
BY DEF OneOcrPerInvoice

\* Steps that write no row preserve what holds of the rows.
LEMMA ReadStep ==
  ASSUME IInv, UNCHANGED <<stored, db>>
  PROVE  RowsOK' /\ OriginalExists' /\ Forward
BY DEF IInv, RowsOK, OriginalExists, Forward

--------------------------------------------------------------------------------

Safe == RowsOK /\ SessionsOK /\ OneOcrPerInvoice /\ OriginalExists

LEMMA SafeInit == Init => Safe
BY DEF Init, Safe, RowsOK, RowOK, UploadedRow, Reviewed, SessionsOK, Open,
       OneOcrPerInvoice, OriginalExists, Sessions

LEMMA SafeUpload ==
  ASSUME IInv, NEW i \in Invoices, Upload(i) \/ Requeue(i)
  PROVE  Safe'
<1> USE DEF IInv, TypeInv, TypeOK
<1>1. Forward /\ RowsOK' /\ OriginalExists'
  <2>1. CASE Upload(i)
    BY <2>1, UploadedRowType
       DEF Upload, Forward, RowsOK, RowOK, UploadedRow, Reviewed, OriginalExists
  <2>2. CASE Requeue(i)
    BY <2>2, ReadStep DEF Requeue, table
  <2>3. QED
    BY <2>1, <2>2
<1>2. \A s \in Sessions : Same(s) \/ pc'[s] = "queued"
  BY DEF Upload, Requeue, Publish, Same, sessions, table, Sessions
<1>3. \A d \in Deliveries : pc'[d] \in {"ocr", "staged"} =>
        pc[d] \in {"ocr", "staged"} /\ inv'[d] = inv[d]
  BY <1>2 DEF Same, Sessions
<1>4. SessionsOK' /\ OneOcrPerInvoice'
  BY <1>1, <1>2, <1>3, SessionsStep, OcrStep DEF Open
<1>5. QED
  BY <1>1, <1>4 DEF Safe

\* The steps of a delivery that end, restart or postpone its transaction
LEMMA SafeDeliveryLeaves ==
  ASSUME IInv, NEW d \in Deliveries,
         \/ OcrRefused(d) \/ OcrPermanent(d) \/ Ack(d) \/ Crash(d) \/ TimeLimit(d)
         \/ OcrTransient(d) \/ OcrDbError(d)
         \/ \E e \in Deliveries : CrashAfterRetry(d, e)
  PROVE  Safe'
<1> USE DEF IInv, TypeInv, TypeOK
<1>1. UNCHANGED <<stored, db, op>>
  BY DEF OcrRefused, OcrPermanent, Ack, Crash, TimeLimit, OcrTransient, OcrDbError, Retry,
         CrashAfterRetry, table
<1>2. \A s \in Sessions : Same(s) \/ pc'[s] \in {"free", "queued", "failing", "done"}
  <2>1. ASSUME NEW step \in {"free", "queued", "failing", "done"}, Leave(d, step),
               \A s \in Sessions \ {d} : inv'[s] = inv[s]
        PROVE  \A s \in Sessions : Same(s) \/ pc'[s] \in {"free", "queued", "failing", "done"}
    BY <1>1, <2>1 DEF Leave, Same, Sessions
  <2>2. ASSUME NEW e \in Deliveries, CrashAfterRetry(d, e)
        PROVE  \A s \in Sessions : Same(s) \/ pc'[s] \in {"free", "queued", "failing", "done"}
    BY <1>1, <2>2 DEF CrashAfterRetry, Same, Sessions
  <2>3. QED
    BY <2>1, <2>2
       DEF OcrRefused, OcrPermanent, Ack, Crash, TimeLimit, OcrTransient, OcrDbError, Retry, Sessions
<1>3. \A e \in Deliveries : pc'[e] \in {"ocr", "staged"} =>
        pc[e] \in {"ocr", "staged"} /\ inv'[e] = inv[e]
  BY <1>2 DEF Same, Sessions
<1>4. QED
  BY <1>1, <1>2, <1>3, ReadStep, SessionsStep, OcrStep DEF Safe, Open

\* The steps of a delivery inside its transaction
LEMMA SafeDeliveryReads ==
  ASSUME IInv, NEW d \in Deliveries,
         OcrLoad(d) \/ OcrFlush(d) \/ OcrAnswer(d) \/ MarkLoad(d)
  PROVE  Safe'
<1> USE DEF IInv, TypeInv, TypeOK
<1>1. UNCHANGED <<used, stored, db, inv, op>>
  BY DEF OcrLoad, OcrFlush, OcrAnswer, MarkLoad, table
<1>2. \A s \in Sessions \ {d} : Same(s)
  BY <1>1 DEF OcrLoad, OcrFlush, OcrAnswer, MarkLoad, Leave, Want, Same, Sessions
<1>3. pc'[d] \in Open => SnapshotOK(d)' /\ DraftOK(d)'
  <2>1. inv[d] \in Invoices /\ db[inv[d]] \in Row
    BY DEF OcrLoad, OcrFlush, OcrAnswer, MarkLoad, SnapshotsType, Sessions
  <2>2. CASE OcrLoad(d)
    BY <1>1, <2>1, <2>2 DEF OcrLoad, Want, SnapshotOK, DraftOK, Sessions, Row
  <2>3. CASE OcrFlush(d)
    <3>1. SnapshotOK(d) /\ pc'[d] = "ocr" /\ UNCHANGED <<seen, draft>>
      BY <2>3 DEF OcrFlush, SessionsOK, Open, Sessions
    <3>2. QED
      BY <1>1, <3>1 DEF SnapshotOK, DraftOK
  <2>4. CASE OcrAnswer(d)
    <3>1. PICK x \in Extractions, dup \in Invoices \cup {None} :
             Want(d, "staged", Extracted(draft[d], x, dup))
      BY <2>4, PossibleDuplicatesType DEF OcrAnswer
    <3>2. /\ Extracted(draft[d], x, dup).status = "ready_for_review"
          /\ Extracted(draft[d], x, dup).ocr_raw = x
      BY DEF Extracted, Overlay, Columns
    <3>3. SnapshotOK(d) /\ UNCHANGED seen /\ pc'[d] = "staged"
          /\ draft'[d] = Extracted(draft[d], x, dup)
      BY <2>4, <3>1 DEF OcrAnswer, Want, SessionsOK, Open, Sessions
    <3>4. x # None
      BY ConstantsAssumption
    <3>5. QED
      BY <1>1, <3>2, <3>3, <3>4 DEF SnapshotOK, DraftOK, Reviewed
  <2>5. CASE MarkLoad(d)
    <3>1. CASE inv[d] \in stored
      <4>1. /\ pc'[d] = "marking" /\ seen'[d] = db[inv[d]]
            /\ draft'[d] = OcrFailed(db[inv[d]])
        BY <2>5, <3>1 DEF MarkLoad, Want, Sessions
      <4>2. /\ OcrFailed(db[inv[d]]).status = "failed"
            /\ OcrFailed(db[inv[d]]).ocr_raw = db[inv[d]].ocr_raw
            /\ OcrFailed(db[inv[d]]).possible_duplicate_of_id
                 = db[inv[d]].possible_duplicate_of_id
        BY <2>1 DEF OcrFailed, Row
      <4>3. QED
        BY <1>1, <4>1, <4>2 DEF SnapshotOK, DraftOK
    <3>2. CASE inv[d] \notin stored
      BY <2>5, <3>2 DEF MarkLoad, Leave, Sessions, Open
    <3>3. QED
      BY <3>1, <3>2
  <2>6. QED
    BY <2>2, <2>3, <2>4, <2>5
<1>4. OneOcrPerInvoice'
  <2>1. CASE OcrFlush(d)
    BY <1>1, <2>1 DEF OcrFlush, Locked, HoldsLock, OneOcrPerInvoice, Sessions
  <2>2. CASE ~OcrFlush(d)
    <3>1. \A e \in Deliveries : pc'[e] \in {"ocr", "staged"} => pc[e] \in {"ocr", "staged"}
      BY <1>2, <2>2 DEF OcrLoad, OcrAnswer, MarkLoad, Leave, Want, Same, Sessions
    <3>2. QED
      BY <1>1, <3>1, OcrStep
  <2>3. QED
    BY <2>1, <2>2
<1>5. QED
  BY <1>1, <1>2, <1>3, <1>4, ReadStep, SessionsStep DEF Safe

\* A session that writes its draft and leaves its transaction
LEMMA WriteStep ==
  ASSUME IInv, NEW s \in Sessions, pc[s] \in Open, pc'[s] \notin Open,
         db' = [db EXCEPT ![inv[s]] = Flush(@, seen[s], draft[s])],
         stored' = stored, used' = used,
         \A t \in Sessions \ {s} : Same(t),
         \/ draft[s].status \in Reviewed /\ draft[s].ocr_raw # None
         \/ draft[s].status = "failed",
         ~RefersToDeleted(s)
  PROVE  Safe'
<1> USE DEF IInv, TypeInv, TypeOK
<1>1. /\ inv[s] \in used /\ inv[s] \in Invoices /\ db[inv[s]] \in Row
      /\ seen[s] \in Row /\ draft[s] \in Row /\ SnapshotOK(s)
  BY DEF SnapshotsType, SessionsOK, Open
<1> DEFINE new == Flush(db[inv[s]], seen[s], draft[s])
<1>2. /\ RowOK(new) /\ new.status # "uploaded"
      /\ db[inv[s]].ocr_raw # None => new.ocr_raw # None
  BY <1>1, FlushOK DEF SnapshotOK, RowsOK
<1>3. new.possible_duplicate_of_id = IF draft[s].possible_duplicate_of_id # seen[s].possible_duplicate_of_id
                                     THEN draft[s].possible_duplicate_of_id
                                     ELSE db[inv[s]].possible_duplicate_of_id
  BY DEF Flush, Columns
<1>4. db'[inv[s]] = new /\ \A i \in Invoices \ {inv[s]} : db'[i] = db[i]
  BY <1>1
<1> HIDE DEF new
<1>5. RowsOK' /\ Forward
  BY <1>2, <1>4 DEF RowsOK, Forward
<1>6. OriginalExists'
  BY <1>1, <1>3, <1>4 DEF OriginalExists, RefersToDeleted
<1>7. SessionsOK'
  BY <1>5, SessionsStep
<1>8. OneOcrPerInvoice'
  BY OcrStep DEF Same, Sessions, Open
<1>9. QED
  BY <1>5, <1>6, <1>7, <1>8 DEF Safe

LEMMA SafeDeliveryWrites ==
  ASSUME IInv, NEW d \in Deliveries, OcrCommit(d) \/ MarkCommit(d)
  PROVE  Safe'
<1> USE DEF IInv, TypeInv, TypeOK
<1>1. /\ pc[d] \in Open /\ pc'[d] = "done" /\ DraftOK(d)
      /\ UNCHANGED <<used, stored, op>> /\ \A s \in Sessions \ {d} : Same(s)
  BY DEF OcrCommit, MarkCommit, Leave, Same, Sessions, Open, SessionsOK
<1>2. CASE OcrCommit(d)
  BY <1>1, <1>2, WriteStep DEF OcrCommit, DraftOK, Open, Sessions
<1>3. CASE MarkCommit(d) /\ inv[d] \in stored
  <2>1. ~RefersToDeleted(d) /\ draft[d].status = "failed"
    BY <1>1, <1>3 DEF MarkCommit, DraftOK, RefersToDeleted
  <2>2. QED
    BY <1>1, <1>3, <2>1, WriteStep DEF MarkCommit, Open, Sessions
<1>4. CASE MarkCommit(d) /\ inv[d] \notin stored
  <2>1. UNCHANGED db
    BY <1>4 DEF MarkCommit
  <2>2. QED
    BY <1>1, <2>1, ReadStep, SessionsStep, OcrStep DEF Safe, Open, Same, Sessions
<1>5. QED
  BY <1>2, <1>3, <1>4

\* The steps of a request
LEMMA SafeBegin ==
  ASSUME IInv, NEW r \in Requests, NEW o \in Operations, NEW i \in Invoices, Begin(r, o, i)
  PROVE  Safe'
<1> USE DEF IInv, TypeInv, TypeOK
<1>1. PICK row \in Wanted(o, db[i]) : Want(r, "writing", row)
  BY DEF Begin
<1>2. /\ UNCHANGED <<used, stored, db>> /\ \A s \in Sessions \ {r} : Same(s)
      /\ pc'[r] = "writing" /\ inv'[r] = i /\ op'[r] = o
      /\ seen'[r] = db[i] /\ draft'[r] = row
  BY <1>1 DEF Begin, Want, Same, Sessions, table
<1>3. db[i] \in Row /\ RowOK(db[i]) /\ Accepted(o, db[i])
  BY DEF Begin, RowsOK
<1>4. /\ row.ocr_raw = db[i].ocr_raw
      /\ row.possible_duplicate_of_id = db[i].possible_duplicate_of_id
      /\ o # "delete" => row.status \in Reviewed
  <2>1. CASE o = "edit"
    <3>1. PICK p \in Patches : row = Patched(db[i], p)
      BY <2>1 DEF Wanted
    <3>2. /\ Overlay(db[i], p).ocr_raw = db[i].ocr_raw
          /\ Overlay(db[i], p).possible_duplicate_of_id = db[i].possible_duplicate_of_id
      BY DEF Overlay, Columns, DocumentColumns
    <3>3. Overlay(db[i], p) \in Row
      BY <1>3, OverlayType, ConstantsAssumption
    <3>4. QED
      BY <3>1, <3>2, <3>3 DEF Patched, Row, Reviewed
  <2>2. CASE o \in {"confirm", "reject", "reopen"}
    BY <1>3, <2>2 DEF Wanted, Confirmed, Rejected, Reopened, Row, Reviewed
  <2>3. CASE o \in {"skip", "delete"}
    BY <1>3, <2>3 DEF Wanted, Accepted, Reviewed
  <2>4. QED
    BY <2>1, <2>2, <2>3 DEF Operations
<1>5. o # "delete" => db[i].status \in Reviewed
  BY <1>3 DEF Accepted, Operations, Editable, Reopenable, CanConfirm, RowOK, Reviewed
<1>6. SnapshotOK(r)' /\ DraftOK(r)'
  BY <1>2, <1>3, <1>4, <1>5 DEF SnapshotOK, DraftOK, RowOK
<1>7. SessionsOK' /\ OneOcrPerInvoice'
  BY <1>2, <1>6, ReadStep, SessionsStep, OcrStep, ConstantsAssumption DEF Same, Sessions
<1>8. QED
  BY <1>2, <1>7, ReadStep DEF Safe

LEMMA SafeRequest ==
  ASSUME IInv, NEW r \in Requests,
         EditFlush(r) \/ WriteFails(r) \/ Write(r) \/ HandOff(r) \/ Remove(r)
  PROVE  Safe'
<1> USE DEF IInv, TypeInv, TypeOK
<1>1. \A s \in Sessions \ {r} : Same(s)
  BY DEF EditFlush, WriteFails, Write, HandOff, Remove, Leave, Want, End, Same, Sessions
<1>2. \A d \in Deliveries : pc'[d] \in {"ocr", "staged"} =>
        pc[d] \in {"ocr", "staged"} /\ inv'[d] = inv[d]
  BY <1>1, ConstantsAssumption DEF Same, Sessions
<1>3. CASE EditFlush(r)
  <2>1. PICK dup : Want(r, "flushed", Edited(draft[r], dup))
    BY <1>3 DEF EditFlush
  <2>2. SnapshotOK(r) /\ draft[r].status \in Reviewed /\ draft[r].ocr_raw # None /\ draft[r] \in Row
    BY <1>3 DEF EditFlush, SessionsOK, SnapshotsType, DraftOK, Open, Sessions
  <2>3. /\ Edited(draft[r], dup).status = draft[r].status
        /\ Edited(draft[r], dup).ocr_raw = draft[r].ocr_raw
    BY <2>2 DEF Edited, Row
  <2>4. /\ UNCHANGED <<stored, db, inv, seen>>
        /\ pc'[r] = "flushed" /\ draft'[r] = Edited(draft[r], dup)
    BY <1>3, <2>1 DEF EditFlush, Want, table, Sessions
  <2>5. SnapshotOK(r)' /\ DraftOK(r)'
    BY <2>2, <2>3, <2>4 DEF SnapshotOK, DraftOK
  <2>6. QED
    BY <1>1, <1>2, <2>4, <2>5, ReadStep, SessionsStep, OcrStep DEF Safe
<1>4. CASE WriteFails(r) \/ HandOff(r)
  <2>1. UNCHANGED <<stored, db>> /\ pc'[r] = "free"
    BY <1>4 DEF WriteFails, HandOff, End, Leave, table, Sessions
  <2>2. QED
    BY <1>1, <1>2, <2>1, ReadStep, SessionsStep, OcrStep DEF Safe, Open
<1>5. CASE Write(r)
  <2>1. /\ pc[r] \in Open /\ DraftOK(r) /\ UNCHANGED <<used, stored>>
        /\ pc'[r] \notin Open
    BY <1>5 DEF Write, End, Leave, Open, Sessions, SessionsOK
  <2>2. /\ draft[r].status \in Reviewed /\ draft[r].ocr_raw # None
        /\ ~RefersToDeleted(r)
    BY <1>5, <2>1 DEF Write, DraftOK, RefersToDeleted
  <2>3. QED
    BY <1>1, <1>5, <2>1, <2>2, WriteStep DEF Write, Sessions
<1>6. CASE Remove(r)
  <2>1. \A i \in Invoices :
          /\ db'[i].status = db[i].status /\ db'[i].ocr_raw = db[i].ocr_raw
          /\ db[i].possible_duplicate_of_id # inv[r] => db'[i] = db[i]
          /\ db[i].possible_duplicate_of_id = inv[r] => db'[i].possible_duplicate_of_id = None
    BY <1>6 DEF Remove, Row
  <2>2. inv[r] \in Invoices /\ inv[r] # None
    BY <1>6, ConstantsAssumption DEF Remove
  <2>3. RowsOK' /\ Forward
    <3>1. \A i \in Invoices : db[i].status = "uploaded" => db'[i] = db[i]
      BY <2>1, <2>2 DEF RowsOK, RowOK, UploadedRow
    <3>2. QED
      BY <2>1, <3>1 DEF RowsOK, RowOK, Forward
  <2>4. OriginalExists'
    BY <1>6, <2>1 DEF Remove, OriginalExists
  <2>5. SessionsOK' /\ OneOcrPerInvoice'
    BY <1>1, <1>2, <1>6, <2>3, SessionsStep, OcrStep DEF Remove, End, Leave, Open, Sessions
  <2>6. QED
    BY <2>3, <2>4, <2>5 DEF Safe
<1>7. QED
  BY <1>3, <1>4, <1>5, <1>6

--------------------------------------------------------------------------------

LEMMA SafeStep == IInv /\ [Next]_vars => IInv'
<1> SUFFICES ASSUME IInv, [Next]_vars PROVE IInv'
  OBVIOUS
<1>1. TypeInv'
  BY TypeStep DEF IInv
<1>2. Safe'
  <2>1. CASE UNCHANGED vars
    BY <2>1, ReadStep, SessionsStep, OcrStep DEF IInv, Safe, vars, table, sessions, Same
  <2>2. CASE Next
    BY <2>2, SafeUpload, SafeDeliveryLeaves, SafeDeliveryReads, SafeDeliveryWrites,
       SafeBegin, SafeRequest
       DEF Next, Delivery, Request
  <2>3. QED
    BY <2>1, <2>2
<1>3. QED
  BY <1>1, <1>2 DEF IInv, Safe

\* The inductive invariant of the rows and of the sessions that work on them.
THEOREM RowsInvariant == Spec => []IInv
<1>1. Init => IInv
  BY TypeInit, SafeInit DEF IInv, Safe
<1>2. QED
  BY <1>1, SafeStep, PTL DEF Spec

\* status=processing is never committed (process_invoice_ocr: flush, then commit).
THEOREM ProcessingHidden == Spec => []ProcessingNeverVisible
<1>1. IInv => ProcessingNeverVisible
  BY DEF IInv, RowsOK, RowOK, ProcessingNeverVisible
<1>2. QED
  BY <1>1, RowsInvariant, PTL

\* An uploaded invoice is untouched, whatever overlapping sessions write.
THEOREM UploadedPristine == Spec => []UploadedIsPristine
<1>1. IInv => UploadedIsPristine
  BY DEF IInv, RowsOK, RowOK, UploadedIsPristine
<1>2. QED
  BY <1>1, RowsInvariant, PTL

\* An invoice in review, confirmed or rejected has the result of an OCR.
THEOREM ReviewNeedsOcr == Spec => []ReviewedHasOcr
<1>1. IInv => ReviewedHasOcr
  BY DEF IInv, RowsOK, RowOK, ReviewedHasOcr
<1>2. QED
  BY <1>1, RowsInvariant, PTL

\* Two workers never run the OCR of one invoice at the same time.
THEOREM OcrExclusive == Spec => []OneOcrPerInvoice
<1>1. IInv => OneOcrPerInvoice
  BY DEF IInv
<1>2. QED
  BY <1>1, RowsInvariant, PTL

\* No stored invoice names a deleted one as its original.
THEOREM OriginalsExist == Spec => []OriginalExists
<1>1. IInv => OriginalExists
  BY DEF IInv
<1>2. QED
  BY <1>1, RowsInvariant, PTL
================================================================================
