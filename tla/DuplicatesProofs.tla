--------------------------- MODULE DuplicatesProofs ---------------------------
(***************************************************************************)
(* Proofs about InvoiceLifecycle: the duplicates of an invoice are flagged *)
(* (DuplicatesAreFlagged), when an invoice has at most one message and one *)
(* request at a time and no two sessions write the columns that identify a *)
(* document at the same time (OneRewriter).                                *)
(*                                                                         *)
(* Of two alike invoices the one written later was compared with the other *)
(* (Met), and its flag survives the edits that keep its identity: they     *)
(* look again, and find an original again (Flagged).  An edit looks at the *)
(* newest candidates only, so that is said of invoices whose candidates it *)
(* sees all (Searched).                                                    *)
(***************************************************************************)
EXTENDS ExclusiveUseProofs, FiniteSetTheorems

\* The columns flag_possible_duplicate compares
Identity == {"supplier_id", "invoice_number", "total_ttc"}

SameDocument(a, b) == \A c \in Identity : a[c] = b[c]

\* The session has compared its row with the others and has yet to commit what
\* identifies the document
Rewrites(s) ==
  \/ pc[s] = "staged"
  \/ pc[s] = "flushed" /\ ~SameDocument(draft[s], seen[s])

OneRewriter == \A s, t \in Sessions : Rewrites(s) /\ Rewrites(t) => s = t

Alike(a, b) ==
  /\ a.supplier_id # None /\ b.supplier_id = a.supplier_id
  /\ NumberScore(a.invoice_number, b.invoice_number) >= 78
  /\ NumberScore(b.invoice_number, a.invoice_number) >= 78
  /\ a.total_ttc # None /\ b.total_ttc # None
  /\ a.total_ttc - b.total_ttc \in -100 .. 100

LEMMA AlikeSymmetric ==
  ASSUME NEW a \in Row, NEW b \in Row, Alike(a, b)
  PROVE  Alike(b, a)
BY DEF Alike, Row, Amount

LEMMA AlikeSame ==
  ASSUME NEW a, NEW b, NEW c, NEW d, SameDocument(a, c), SameDocument(b, d)
  PROVE  Alike(a, b) <=> Alike(c, d)
BY DEF Alike, SameDocument, Identity

\* A row that looks like a stored one gets an original, of the worker always, of an
\* edit that looks at all candidates.
LEMMA AlikeIsFound ==
  ASSUME NEW i, NEW j \in stored \ {i}, NEW row, db[j].status \in Reviewed, Alike(row, db[j]),
         None \notin stored, NEW dup,
         \/ dup \in PossibleDuplicates(i, row)
         \/ dup \in NewestDuplicates(i, row) /\ Cardinality(Candidates(i, row)) <= SearchLimit
  PROVE  dup # None
<1>1. j \in LookLike(row, Candidates(i, row))
  BY DEF LookLike, Candidates, Alike, Reviewed
<1>2. dup \in BestOrNone(row, Candidates(i, row))
  BY DEF PossibleDuplicates, NewestDuplicates, Newest
<1>3. dup \in Candidates(i, row)
  BY <1>1, <1>2 DEF BestOrNone, Best, LookLike
<1>4. QED
  BY <1>3 DEF Candidates

\* The candidates depend on what identifies the document.
LEMMA SameCandidates ==
  ASSUME NEW i, NEW a, NEW b, SameDocument(a, b)
  PROVE  Candidates(i, a) = Candidates(i, b)
BY DEF Candidates, SameDocument, Identity

LEMMA SearchedSame ==
  ASSUME UNCHANGED <<stored, db>>, NEW i
  PROVE  Searched(i)' <=> Searched(i)
BY DEF Searched, Candidates

--------------------------------------------------------------------------------
(* The invariant *)

\* The invoice names an original, and will when the edit that works on it commits
Flagged(i) ==
  /\ db[i].possible_duplicate_of_id # None
  /\ \A s \in Sessions :
       pc[s] = "flushed" /\ inv[s] = i /\ ~Rewrites(s)
         => draft[s].possible_duplicate_of_id # None

Pairs ==
  \A i, j \in stored :
    i # j /\ {db[i].status, db[j].status} \subseteq Reviewed /\ Alike(db[i], db[j])
          /\ Searched(i) /\ Searched(j)
      => Flagged(i) \/ Flagged(j)

\* A session that writes a document flags it if a stored one looks like it
Met(s) ==
  Rewrites(s) =>
    \A j \in stored \ {inv[s]} :
      db[j].status \in Reviewed /\ Alike(draft[s], db[j])
        => draft[s].possible_duplicate_of_id # None

\* The original a session loaded is still the one the row names
Kept(s) ==
  pc[s] \in Open /\ Reviewing(s) /\ inv[s] \in stored
    => seen[s].possible_duplicate_of_id = db[inv[s]].possible_duplicate_of_id

\* Nobody's candidates were too many and are not any more
SearchedBefore == \A i \in stored : db[i].status \in Reviewed /\ Searched(i)' => Searched(i)

DInv == stored = used => Pairs /\ \A s \in Sessions : Met(s) /\ Kept(s)

LEMMA DuplicatesInit == Init => DInv
BY DEF Init, DInv, Pairs, Met, Kept, Rewrites, Open, Sessions

LEMMA MetSame ==
  ASSUME NEW s \in Sessions, Same(s), Rewrites(s)'
  PROVE  Rewrites(s) /\ UNCHANGED <<pc[s], inv[s], seen[s], draft[s]>>
BY DEF Same, Rewrites, SameDocument, Identity

LEMMA FlaggedSame ==
  ASSUME NEW i, Flagged(i), db'[i].possible_duplicate_of_id = db[i].possible_duplicate_of_id,
         \A s \in Sessions : Same(s) \/ pc'[s] # "flushed" \/ inv'[s] # i
  PROVE  Flagged(i)'
BY DEF Flagged, Same, Rewrites, SameDocument, Identity

--------------------------------------------------------------------------------
(* The steps that write no row *)

LEMMA SameWithoutNew ==
  ASSUME NEW S, NEW T, NEW i, S \subseteq T, i \notin T, S \cup {i} = T \cup {i}
  PROVE  S = T
OBVIOUS

\* Uploads and messages: a new row is in nobody's review
LEMMA FlagUpload ==
  ASSUME XInv, DInv, NEW i \in Invoices, Upload(i) \/ Requeue(i), stored' = used' => SearchedBefore
  PROVE  DInv'
<1> USE DEF XInv, IInv, TypeInv, TypeOK
<1>1. \A s \in Sessions : Same(s) \/ pc'[s] = "queued"
  BY DEF Upload, Requeue, Publish, Same, sessions, table, Sessions
<1>2. db' = db
  BY DEF Upload, Requeue, table, RowsTell
<1>3. \A j \in stored' \ stored : j \notin used /\ db[j].status = "uploaded"
  BY DEF Upload, Requeue, table, RowsTell, UploadedRow
<1> SUFFICES ASSUME stored' = used'
             PROVE  Pairs' /\ \A s \in Sessions : Met(s)' /\ Kept(s)'
  BY DEF DInv
<1>4. stored = used /\ Pairs /\ \A s \in Sessions : Met(s) /\ Kept(s)
  <2>1. stored = used
    <3>1. CASE stored' = stored \cup {i} /\ used' = used \cup {i} /\ i \notin used
      BY <3>1, SameWithoutNew
    <3>2. CASE UNCHANGED <<stored, used>>
      BY <3>2
    <3>3. QED
      BY <3>1, <3>2 DEF Upload, Requeue, table
  <2>2. QED
    BY <2>1 DEF DInv
<1>5. Pairs'
  <2> SUFFICES ASSUME NEW j \in stored', NEW k \in stored', j # k,
                      {db[j].status, db[k].status} \subseteq Reviewed, Alike(db[j], db[k]),
                      Searched(j)', Searched(k)'
               PROVE  Flagged(j)' \/ Flagged(k)'
    BY <1>2 DEF Pairs
  <2>1. j \in stored /\ k \in stored
    BY <1>3 DEF Reviewed
  <2>s. Searched(j) /\ Searched(k)
    BY <2>1 DEF SearchedBefore
  <2>2. Flagged(j) \/ Flagged(k)
    BY <1>4, <2>1, <2>s DEF Pairs
  <2>3. QED
    BY <1>1, <1>2, <2>2, FlaggedSame
<1>6. ASSUME NEW s \in Sessions
      PROVE  Met(s)' /\ Kept(s)'
  <2>1. CASE pc'[s] = "queued"
    BY <2>1 DEF Met, Kept, Rewrites, Open
  <2>2. CASE Same(s) /\ pc[s] \in Open
    <3>1. inv[s] \in used
      BY <2>2 DEF SnapshotsType, Open
    <3>2. Met(s)'
      <4> SUFFICES ASSUME Rewrites(s)', NEW j \in stored' \ {inv'[s]},
                          db[j].status \in Reviewed, Alike(draft'[s], db[j])
                   PROVE  draft'[s].possible_duplicate_of_id # None
        BY <1>2 DEF Met
      <4>1. Rewrites(s) /\ inv'[s] = inv[s] /\ draft'[s] = draft[s]
        BY <2>2, MetSame
      <4>2. j \in stored
        BY <1>3 DEF Reviewed
      <4>3. QED
        BY <1>4, <4>1, <4>2 DEF Met
    <3>3. Kept(s)'
      BY <1>2, <1>4, <2>2, <3>1 DEF Kept, Same, Reviewing
    <3>4. QED
      BY <3>2, <3>3
  <2>3. CASE Same(s) /\ pc[s] \notin Open
    BY <2>3 DEF Same, Met, Kept, Rewrites, Open
  <2>4. QED
    BY <1>1, <2>1, <2>2, <2>3
<1>7. QED
  BY <1>5, <1>6

\* The steps that keep the rows are good when they are for the session they move.
LEMMA FlagReads ==
  ASSUME XInv, DInv, UNCHANGED <<used, stored, db>>, NEW s \in Sessions,
         \A t \in Sessions \ {s} : Same(t),
         stored = used /\ Pairs /\ Met(s) /\ Kept(s) =>
           /\ Met(s)' /\ Kept(s)'
           /\ \A j \in stored \ {inv'[s]} :
                /\ pc'[s] = "flushed" /\ ~Rewrites(s)'
                /\ {db[inv'[s]].status, db[j].status} \subseteq Reviewed
                /\ Alike(db[inv'[s]], db[j]) /\ Searched(inv'[s])
                => draft'[s].possible_duplicate_of_id # None
  PROVE  DInv'
<1> USE DEF XInv, IInv, TypeInv, TypeOK
<1> SUFFICES ASSUME stored = used
             PROVE  Pairs' /\ \A t \in Sessions : Met(t)' /\ Kept(t)'
  BY DEF DInv
<1>1. Pairs /\ \A t \in Sessions : Met(t) /\ Kept(t)
  BY DEF DInv
<1>2. ASSUME NEW t \in Sessions \ {s}
      PROVE  Met(t)' /\ Kept(t)'
  <2>1. Same(t) /\ Met(t) /\ Kept(t)
    BY <1>1, <1>2
  <2>2. Met(t)'
    BY <2>1, MetSame DEF Met
  <2>3. Kept(t)'
    BY <2>1 DEF Kept, Same, Reviewing
  <2>4. QED
    BY <2>2, <2>3
<1>3. Pairs'
  <2> SUFFICES ASSUME NEW j \in stored, NEW k \in stored, j # k,
                      {db[j].status, db[k].status} \subseteq Reviewed, Alike(db[j], db[k]),
                      Searched(j), Searched(k)
               PROVE  Flagged(j)' \/ Flagged(k)'
    BY SearchedSame DEF Pairs
  <2>1. Flagged(j) \/ Flagged(k)
    BY <1>1 DEF Pairs
  <2>2. Alike(db[k], db[j])
    BY AlikeSymmetric
  <2>3. ASSUME NEW l \in {j, k}, Flagged(l)
        PROVE  Flagged(l)'
    <3>1. CASE pc'[s] # "flushed" \/ inv'[s] # l
      BY <2>3, <3>1, FlaggedSame
    <3>2. CASE pc'[s] = "flushed" /\ inv'[s] = l
      <4>1. ~Rewrites(s)' => draft'[s].possible_duplicate_of_id # None
        BY <1>1, <2>2, <3>2
      <4>2. QED
        BY <2>3, <4>1 DEF Flagged, Same, Rewrites, SameDocument, Identity
    <3>3. QED
      BY <3>1, <3>2
  <2>4. QED
    BY <2>1, <2>3
<1>4. QED
  BY <1>1, <1>2, <1>3

LEMMA ExtractedSame ==
  ASSUME NEW row \in Row, NEW x \in Extractions, NEW dup
  PROVE  /\ SameDocument(Extracted(row, x, dup), Overlay(row, x))
         /\ Extracted(row, x, dup).possible_duplicate_of_id = dup
<1>1. Overlay(row, x) \in Row
  BY OverlayType, ExtractionValues
<1>2. QED
  BY <1>1 DEF Extracted, SameDocument, Identity, Row

LEMMA EditedSame ==
  ASSUME NEW row \in Row, NEW dup
  PROVE  /\ SameDocument(Edited(row, dup), row)
         /\ Edited(row, dup).possible_duplicate_of_id = dup
BY DEF Edited, SameDocument, Identity, Row

\* The OCR answers: what was read is compared with the stored invoices
LEMMA FlagAnswer ==
  ASSUME XInv, DInv, NEW d \in Deliveries, OcrAnswer(d), stored = used
  PROVE  Met(d)'
<1> USE DEF XInv, IInv, TypeInv, TypeOK
<1>x. PICK x \in Extractions :
         \E dup \in PossibleDuplicates(inv[d], Overlay(draft[d], x)) :
           Want(d, "staged", Extracted(draft[d], x, dup))
  BY DEF OcrAnswer
<1>1. PICK dup \in PossibleDuplicates(inv[d], Overlay(draft[d], x)) :
         Want(d, "staged", Extracted(draft[d], x, dup))
  BY <1>x
<1>2. /\ draft'[d] = Extracted(draft[d], x, dup) /\ draft[d] \in Row
      /\ UNCHANGED <<stored, db, inv>>
  BY <1>1 DEF OcrAnswer, Want, table, Sessions, SnapshotsType, Open
<1>3. /\ SameDocument(draft'[d], Overlay(draft[d], x))
      /\ draft'[d].possible_duplicate_of_id = dup
  BY <1>2, ExtractedSame
<1>4. ASSUME NEW j \in stored \ {inv[d]}, db[j].status \in Reviewed, Alike(draft'[d], db[j])
      PROVE  dup # None
  <2>1. Alike(Overlay(draft[d], x), db[j])
    BY <1>3, <1>4, AlikeSame DEF SameDocument
  <2>2. None \notin stored
    BY ConstantsAssumption
  <2>3. QED
    BY <1>4, <2>1, <2>2, AlikeIsFound
<1>5. QED
  BY <1>2, <1>3, <1>4 DEF Met

\* An edit that is about to change what identifies its document looks at all its
\* candidates
SearchWhole(r) ==
  Rewrites(r)' => Cardinality(Candidates(inv[r], draft[r])) <= SearchLimit

\* An edit is compared with the stored invoices once it is flushed: it meets the
\* alike ones with a flag, or keeps the flag of a row it leaves the same
LEMMA FlagEdit ==
  ASSUME XInv, DInv, NEW r \in Requests, EditFlush(r), stored = used, SearchWhole(r)
  PROVE  /\ Met(r)' /\ (Kept(r) => Kept(r)')
         /\ \A j \in stored \ {inv'[r]} :
              /\ pc'[r] = "flushed" /\ ~Rewrites(r)'
              /\ {db[inv'[r]].status, db[j].status} \subseteq Reviewed
              /\ Alike(db[inv'[r]], db[j]) /\ Searched(inv'[r])
              => draft'[r].possible_duplicate_of_id # None
<1> USE DEF XInv, IInv, TypeInv, TypeOK
<1>1. PICK dup \in NewestDuplicates(inv[r], draft[r]) : Want(r, "flushed", Edited(draft[r], dup))
  BY DEF EditFlush
<1>2. /\ pc[r] = "writing" /\ pc'[r] = "flushed" /\ inv[r] \in stored /\ r \in Sessions
      /\ draft'[r] = Edited(draft[r], dup) /\ draft[r] \in Row /\ seen[r] \in Row
      /\ op[r] = "edit" /\ UNCHANGED <<stored, db, inv, seen, op>>
  BY <1>1 DEF EditFlush, Want, table, Sessions, SnapshotsType, Open
<1>3. SameDocument(draft'[r], draft[r]) /\ draft'[r].possible_duplicate_of_id = dup
  BY <1>2, EditedSame
<1>4. ASSUME NEW j \in stored \ {inv[r]}, db[j].status \in Reviewed, Alike(draft'[r], db[j]),
             Cardinality(Candidates(inv[r], draft[r])) <= SearchLimit
      PROVE  dup # None
  <2>1. Alike(draft[r], db[j])
    BY <1>3, <1>4, AlikeSame DEF SameDocument
  <2>2. None \notin stored
    BY ConstantsAssumption
  <2>3. QED
    BY <1>4, <2>1, <2>2, AlikeIsFound
<1>5. Met(r)'
  BY <1>2, <1>3, <1>4 DEF Met, SearchWhole
<1>6. Kept(r) => Kept(r)'
  BY <1>2 DEF Kept, Reviewing, Open
<1>7. ASSUME NEW j \in stored \ {inv[r]}, ~Rewrites(r)', db[j].status \in Reviewed,
             Alike(db[inv[r]], db[j]), Searched(inv[r])
      PROVE  dup # None
  <2>1. SameDocument(draft'[r], seen[r])
    BY <1>2, <1>7 DEF Rewrites
  <2>2. Agree(seen[r], db[inv[r]])
    BY <1>2 DEF Current, Reviewing, Open
  <2>3. SameDocument(draft'[r], db[inv[r]])
    BY <2>1, <2>2 DEF SameDocument, Identity, Agree, Own, Columns, DocumentColumns
  <2>4. Alike(draft'[r], db[j])
    BY <1>7, <2>3, AlikeSame DEF SameDocument
  <2>5. Candidates(inv[r], draft[r]) = Candidates(inv[r], db[inv[r]])
    BY <1>3, <2>3, SameCandidates DEF SameDocument
  <2>6. QED
    BY <1>4, <1>7, <2>4, <2>5 DEF Searched
<1>8. QED
  BY <1>2, <1>3, <1>5, <1>6, <1>7

\* The steps of a delivery that write no row
LEMMA FlagDeliveryReads ==
  ASSUME ExclusiveUse, XInv, DInv, NEW d \in Deliveries, Delivery(d), ~OcrCommit(d), ~MarkCommit(d)
  PROVE  DInv'
<1> USE DEF XInv, IInv, TypeInv, TypeOK
<1>1. \A s \in Sessions \ {d} : Same(s)
  BY DeliveryMoves DEF CrashAfterRetry, ExclusiveUse
<1>2. UNCHANGED <<used, stored, db>>
  BY DEF Delivery, OcrRefused, OcrLoad, OcrFlush, OcrAnswer, OcrTransient, OcrDbError, Retry,
         OcrPermanent, MarkLoad, Ack, Crash, TimeLimit, CrashAfterRetry, table
<1>3. d \in Sessions /\ Reviewing(d) /\ Reviewing(d)' /\ pc'[d] # "flushed"
  <2>1. Decided'
    BY DecidedDelivery
  <2>2. QED
    BY <2>1, ConstantsAssumption DEF Sessions, Reviewing, Decided, DeliverySteps
<1>4. ASSUME stored = used, Met(d), Kept(d)
      PROVE  Met(d)' /\ Kept(d)'
  <2> USE <1>2, <1>3 DEF Leave, Want
  <2>1. CASE OcrLoad(d)
    BY <2>1 DEF OcrLoad, Met, Kept, Rewrites
  <2>2. CASE OcrFlush(d)
    BY <1>4, <2>2 DEF OcrFlush, Met, Kept, Rewrites, Open
  <2>3. CASE OcrAnswer(d)
    <3>1. Met(d)'
      BY <1>4, <2>3, FlagAnswer
    <3>2. Kept(d)'
      BY <1>4, <2>3 DEF OcrAnswer, Kept, Open
    <3>3. QED
      BY <3>1, <3>2
  <2>4. CASE MarkLoad(d)
    BY <2>4 DEF MarkLoad, Met, Kept, Rewrites, Open
  <2>5. CASE pc'[d] \in {"free", "queued", "failing", "done"}
    BY <2>5 DEF Met, Kept, Rewrites, Open
  <2>6. \/ OcrLoad(d) \/ OcrFlush(d) \/ OcrAnswer(d) \/ MarkLoad(d)
        \/ pc'[d] \in {"free", "queued", "failing", "done"}
    BY DEF Delivery, OcrRefused, OcrTransient, OcrDbError, Retry, OcrPermanent, Ack, Crash, TimeLimit,
           CrashAfterRetry
  <2>7. QED
    BY <2>1, <2>2, <2>3, <2>4, <2>5, <2>6
<1>5. QED
  BY <1>1, <1>2, <1>3, <1>4, FlagReads

\* The steps of a request that write no row
LEMMA FlagRequestReads ==
  ASSUME XInv, DInv, NEW r \in Requests,
         \/ \E o \in Operations, i \in Invoices : Begin(r, o, i)
         \/ EditFlush(r) \/ WriteFails(r) \/ HandOff(r),
         EditFlush(r) => SearchWhole(r)
  PROVE  DInv'
<1> USE DEF XInv, IInv, TypeInv, TypeOK
<1>1. \A s \in Sessions \ {r} : Same(s)
  BY RequestMoves DEF Request
<1>2. UNCHANGED <<used, stored, db>> /\ r \in Sessions
  BY DEF Begin, EditFlush, WriteFails, HandOff, table, Sessions
<1>3. CASE EditFlush(r)
  <2>1. ASSUME stored = used, Kept(r)
        PROVE  /\ Met(r)' /\ Kept(r)'
               /\ \A j \in stored \ {inv'[r]} :
                    /\ pc'[r] = "flushed" /\ ~Rewrites(r)'
                    /\ {db[inv'[r]].status, db[j].status} \subseteq Reviewed
                    /\ Alike(db[inv'[r]], db[j]) /\ Searched(inv'[r])
                    => draft'[r].possible_duplicate_of_id # None
    BY <1>3, <2>1, FlagEdit
  <2>2. QED
    BY <1>1, <1>2, <2>1, FlagReads
<1>4. CASE ~EditFlush(r)
  <2>1. pc'[r] \in {"writing", "free"} /\ Kept(r)'
    <3>1. ASSUME NEW o \in Operations, NEW i \in Invoices, Begin(r, o, i)
          PROVE  pc'[r] = "writing" /\ Kept(r)'
      BY <1>2, <3>1 DEF Begin, Want, Kept
    <3>2. CASE WriteFails(r) \/ HandOff(r)
      BY <1>2, <3>2 DEF WriteFails, HandOff, End, Leave, Kept, Open
    <3>3. QED
      BY <1>4, <3>1, <3>2
  <2>2. Met(r)' /\ pc'[r] # "flushed"
    BY <2>1 DEF Met, Rewrites
  <2>3. QED
    BY <1>1, <1>2, <2>1, <2>2, FlagReads
<1>5. QED
  BY <1>3, <1>4

--------------------------------------------------------------------------------
(* The steps that write a row *)

\* No other session that has the row in memory works on it to write it.
LEMMA OnlyWriter ==
  ASSUME XInv, NEW s \in Sessions, pc[s] \in Open, Reviewing(s), inv[s] \in stored,
         NEW t \in Sessions, pc[t] \in Open, Reviewing(t), inv[t] = inv[s]
  PROVE  t = s
<1> USE DEF XInv, IInv, TypeInv, TypeOK
<1>1. inv[s] # None
  BY ConstantsAssumption
<1>2. \A u \in Deliveries : pc[u] \in Open => pc[u] \in AtOcr
  BY DEF Decided, DeliverySteps, Open, AtOcr
<1>3. CASE s \in Deliveries /\ t \in Requests
  BY <1>2, <1>3, WorkerOrReviewer DEF Open
<1>4. CASE s \in Requests /\ t \in Deliveries
  BY <1>2, <1>4, WorkerOrReviewer DEF Open
<1>5. CASE (s \in Deliveries /\ t \in Deliveries) \/ (s \in Requests /\ t \in Requests)
  BY <1>1, <1>5 DEF Alone
<1>6. QED
  BY <1>3, <1>4, <1>5 DEF Sessions

\* What a session writes and does not compare: the row of an invoice it leaves
\* the same document, with its original, or one that has failed
LEMMA WritesSame ==
  ASSUME XInv, NEW s \in Sessions, pc[s] \in Open, Reviewing(s), inv[s] \in stored,
         pc[s] \in {"marking", "writing", "flushed"}, ~Rewrites(s),
         s \in Deliveries \/ op[s] # "edit" \/ pc[s] = "flushed"
  PROVE  \/ draft[s].status = "failed"
         \/ /\ db[inv[s]].status \in Reviewed
            /\ SameDocument(draft[s], db[inv[s]])
            /\ pc[s] = "flushed" \/ draft[s].possible_duplicate_of_id = seen[s].possible_duplicate_of_id
<1> USE DEF XInv, IInv, TypeInv, TypeOK
<1>1. /\ seen[s] \in Row /\ seen[s].status # "processing"
      /\ Agree(seen[s], db[inv[s]]) /\ DraftOK(s)
  BY WantedTells DEF Current, SessionsOK
<1>2. seen[s].status = db[inv[s]].status /\ SameDocument(seen[s], db[inv[s]])
  BY <1>1 DEF Agree, Own, Columns, DocumentColumns, SameDocument, Identity
<1>3. CASE pc[s] = "marking"
  BY <1>1, <1>3 DEF DraftOK
<1>4. CASE pc[s] \in {"writing", "flushed"}
  <2>1. s \in Requests /\ DecidedByReviewer(s)
    BY <1>4 DEF Decided, DeliverySteps, Sessions
  <2>2. CASE pc[s] = "flushed"
    <3>1. seen[s].status \in Reviewed
      BY <2>1, <2>2 DEF DecidedByReviewer, Accepted, Editable, Reviewed
    <3>2. SameDocument(draft[s], seen[s])
      BY <2>2 DEF Rewrites
    <3>3. QED
      BY <1>2, <2>2, <3>1, <3>2 DEF SameDocument
  <2>3. CASE pc[s] = "writing"
    <3>1. /\ op[s] \in {"confirm", "reject", "skip", "reopen"}
          /\ Accepted(op[s], seen[s]) /\ draft[s] \in Wanted(op[s], seen[s])
      BY <2>1, <2>3, ConstantsAssumption DEF DecidedByReviewer, Operations, Reviewing
    <3>2. seen[s].status \in Reviewed
      BY <1>1, <3>1 DEF Accepted, CanConfirm, Reopenable, Reviewed
    <3>c. Tells(seen[s], corrections[inv[s]])
      BY WantedTells DEF RowsTell
    <3>3. \A c \in DocumentColumns : draft[s][c] = seen[s][c]
      BY <1>1, <3>c, <3>1, ReviewedTells
    <3>4. SameDocument(draft[s], seen[s])
      BY <3>3 DEF SameDocument, Identity, DocumentColumns
    <3>5. draft[s].possible_duplicate_of_id = seen[s].possible_duplicate_of_id
      BY <1>1, <2>3 DEF DraftOK
    <3>6. QED
      BY <1>2, <3>2, <3>4, <3>5 DEF SameDocument
  <2>4. QED
    BY <1>4, <2>2, <2>3
<1>5. QED
  BY <1>3, <1>4

\* A session that writes the row it wants
LEMMA FlagWrites ==
  ASSUME XInv, DInv, OneRewriter, NEW s \in Sessions, pc[s] \in Open, Reviewing(s),
         inv[s] \in stored, UNCHANGED <<used, stored>>,
         pc[s] \in {"staged", "marking", "writing", "flushed"},
         s \in Deliveries \/ op[s] # "edit" \/ pc[s] = "flushed",
         db' = [db EXCEPT ![inv[s]] = Flush(@, seen[s], draft[s])],
         pc'[s] \notin Open,
         \A t \in Sessions \ {s} : Same(t), stored' = used' => SearchedBefore
  PROVE  DInv'
<1> USE DEF XInv, IInv, TypeInv, TypeOK
<1> SUFFICES ASSUME stored = used
             PROVE  Pairs' /\ \A t \in Sessions : Met(t)' /\ Kept(t)'
  BY DEF DInv
<1>1. Pairs /\ \A t \in Sessions : Met(t) /\ Kept(t)
  BY DEF DInv
<1>i. PICK i \in Invoices : i = inv[s]
  OBVIOUS
<1>2. /\ i \in stored /\ draft[s] \in Row /\ Agree(db'[i], draft[s])
      /\ \A j \in Invoices \ {i} : db'[j] = db[j]
  BY <1>i, FlushAgrees DEF Current, SnapshotsType
<1>3. /\ db'[i].status = draft[s].status /\ SameDocument(db'[i], draft[s])
      /\ db'[i].possible_duplicate_of_id = draft[s].possible_duplicate_of_id
  <2>1. db'[i].status = draft[s].status /\ SameDocument(db'[i], draft[s])
    BY <1>2 DEF Agree, Own, Columns, DocumentColumns, SameDocument, Identity
  <2>2. seen[s].possible_duplicate_of_id = db[i].possible_duplicate_of_id
    BY <1>1, <1>i DEF Kept
  <2>3. db'[i] = Flush(db[i], seen[s], draft[s])
    BY <1>i
  <2>4. db'[i].possible_duplicate_of_id = draft[s].possible_duplicate_of_id
    BY <2>2, <2>3 DEF Flush, Columns
  <2>5. QED
    BY <2>1, <2>4
<1>4. ASSUME NEW t \in Sessions \ {s}, pc[t] \in Open, Reviewing(t)
      PROVE  inv[t] # i
  BY <1>4, <1>i, OnlyWriter
<1>5. ~Rewrites(s) =>
        \/ draft[s].status = "failed"
        \/ /\ db[i].status \in Reviewed /\ SameDocument(draft[s], db[i])
           /\ pc[s] = "flushed" \/ draft[s].possible_duplicate_of_id = seen[s].possible_duplicate_of_id
  <2>1. pc[s] = "staged" => Rewrites(s)
    BY DEF Rewrites
  <2>2. QED
    BY <1>i, <2>1, WritesSame
<1>6. ASSUME db'[i].possible_duplicate_of_id # None
      PROVE  Flagged(i)'
  <2>1. ASSUME NEW t \in Sessions, pc'[t] = "flushed"
        PROVE  inv'[t] # i
    <3>1. t # s /\ Same(t) /\ pc[t] = "flushed"
      BY <2>1 DEF Same, Open
    <3>2. Reviewing(t)
      BY <3>1 DEF Reviewing, Decided, DecidedByReviewer
    <3>3. QED
      BY <1>4, <3>1, <3>2 DEF Same, Open
  <2>2. QED
    BY <1>6, <2>1 DEF Flagged
<1>7. ASSUME NEW k \in stored \ {i}, Flagged(k)
      PROVE  Flagged(k)'
  BY <1>2, <1>7, FlaggedSame DEF Open
\* of the written invoice and another
<1>8. ASSUME NEW k \in stored \ {i}, db[k].status \in Reviewed, draft[s].status \in Reviewed,
             Alike(draft[s], db[k]), Searched(i)', Searched(k)'
      PROVE  Flagged(i)' \/ Flagged(k)'
  <2>1. CASE Rewrites(s)
    <3>1. draft[s].possible_duplicate_of_id # None
      BY <1>1, <1>i, <1>8, <2>1 DEF Met
    <3>2. QED
      BY <1>3, <1>6, <3>1
  <2>2. CASE ~Rewrites(s)
    <3>1. /\ db[i].status \in Reviewed /\ SameDocument(draft[s], db[i])
          /\ pc[s] = "flushed" \/ draft[s].possible_duplicate_of_id = seen[s].possible_duplicate_of_id
      BY <1>5, <1>8, <2>2 DEF Reviewed
    <3>2. Alike(db[i], db[k])
      BY <1>8, <3>1, AlikeSame DEF SameDocument
    <3>s. Searched(i) /\ Searched(k)
      BY <1>2, <1>8, <3>1 DEF SearchedBefore
    <3>3. Flagged(i) \/ Flagged(k)
      BY <1>1, <1>2, <1>8, <3>1, <3>2, <3>s DEF Pairs
    <3>4. ASSUME Flagged(i)
          PROVE  Flagged(i)'
      <4>1. pc[s] = "flushed" => draft[s].possible_duplicate_of_id # None
        BY <1>i, <2>2, <3>4 DEF Flagged
      <4>2. pc[s] # "flushed" => draft[s].possible_duplicate_of_id # None
        BY <1>1, <1>i, <1>2, <3>1, <3>4 DEF Flagged, Kept
      <4>3. QED
        BY <1>3, <1>6, <4>1, <4>2
    <3>5. QED
      BY <1>7, <1>8, <3>3, <3>4
  <2>3. QED
    BY <2>1, <2>2
<1>9. Pairs'
  <2> SUFFICES ASSUME NEW j \in stored, NEW k \in stored, j # k,
                      {db'[j].status, db'[k].status} \subseteq Reviewed, Alike(db'[j], db'[k]),
                      Searched(j)', Searched(k)'
               PROVE  Flagged(j)' \/ Flagged(k)'
    BY DEF Pairs
  <2>1. CASE j # i /\ k # i
    <3>1. db'[j] = db[j] /\ db'[k] = db[k]
      BY <1>2, <2>1
    <3>2. Searched(j) /\ Searched(k)
      BY <3>1 DEF SearchedBefore
    <3>3. Flagged(j) \/ Flagged(k)
      BY <1>1, <3>1, <3>2 DEF Pairs
    <3>4. QED
      BY <1>7, <2>1, <3>3
  <2>2. CASE j = i
    <3>1. Alike(draft[s], db[k]) /\ db'[k] = db[k]
      BY <1>2, <1>3, <2>2, AlikeSame DEF SameDocument
    <3>2. QED
      BY <1>3, <1>8, <2>2, <3>1
  <2>3. CASE k = i
    <3>1. db'[j] = db[j] /\ db[j] \in Row
      BY <1>2, <2>3
    <3>2. Alike(db[j], draft[s])
      BY <1>3, <2>3, <3>1, AlikeSame DEF SameDocument
    <3>3. Alike(draft[s], db[j])
      BY <1>2, <3>1, <3>2, AlikeSymmetric
    <3>4. QED
      BY <1>3, <1>8, <2>3, <3>1, <3>3
  <2>4. QED
    BY <2>1, <2>2, <2>3
<1>10. ASSUME NEW t \in Sessions \ {s}
       PROVE  Met(t)' /\ Kept(t)'
  <2>1. Same(t) /\ Met(t) /\ Kept(t)
    BY <1>1, <1>10
  <2>2. Met(t)'
    <3> SUFFICES ASSUME Rewrites(t)', NEW j \in stored \ {inv'[t]},
                        db'[j].status \in Reviewed, Alike(draft'[t], db'[j])
                 PROVE  draft'[t].possible_duplicate_of_id # None
      BY DEF Met
    <3>1. Rewrites(t) /\ inv'[t] = inv[t] /\ draft'[t] = draft[t]
      BY <2>1, MetSame
    <3>2. ~Rewrites(s)
      BY <1>10, <3>1 DEF OneRewriter
    <3>3. CASE j # i
      BY <1>2, <2>1, <3>1, <3>3 DEF Met
    <3>4. CASE j = i
      <4>1. db[i].status \in Reviewed /\ SameDocument(draft[s], db[i])
        BY <1>3, <1>5, <3>2, <3>4 DEF Reviewed
      <4>2. SameDocument(db'[i], db[i])
        BY <1>3, <4>1 DEF SameDocument
      <4>3. Alike(draft[t], db[i])
        BY <3>1, <3>4, <4>2, AlikeSame DEF SameDocument
      <4>4. QED
        BY <1>2, <2>1, <3>1, <3>4, <4>1, <4>3 DEF Met
    <3>5. QED
      BY <3>3, <3>4
  <2>3. Kept(t)'
    BY <1>2, <1>4, <2>1 DEF Kept, Same, Reviewing
  <2>4. QED
    BY <2>2, <2>3
<1>11. Met(s)' /\ Kept(s)'
  BY DEF Met, Kept, Rewrites, Open
<1>12. QED
  BY <1>9, <1>10, <1>11

LEMMA FlagDeliveryWrites ==
  ASSUME XInv, DInv, OneRewriter, NEW d \in Deliveries, OcrCommit(d) \/ MarkCommit(d),
         stored' = used' => SearchedBefore
  PROVE  DInv'
<1> USE DEF XInv, IInv, TypeInv, TypeOK
<1>1. /\ \A s \in Sessions \ {d} : Same(s)
      /\ pc'[d] = "done" /\ UNCHANGED <<used, stored>>
      /\ pc[d] \in {"staged", "marking"} /\ d \in Sessions /\ d \notin Requests
      /\ pc[d] = "staged" => inv[d] \in stored
  BY ConstantsAssumption DEF OcrCommit, MarkCommit, Leave, Same, Sessions, LockKept
<1>2. CASE UNCHANGED db
  BY <1>1, <1>2, FlagReads DEF Met, Kept, Rewrites, Open
<1>3. CASE inv[d] \in stored /\ db' = [db EXCEPT ![inv[d]] = Flush(@, seen[d], draft[d])]
  BY <1>1, <1>3, FlagWrites DEF Open, Reviewing
<1>4. QED
  BY <1>1, <1>2, <1>3 DEF OcrCommit, MarkCommit

LEMMA FlagWrite ==
  ASSUME XInv, DInv, OneRewriter, NEW r \in Requests, Write(r),
         stored' = used' => SearchedBefore
  PROVE  DInv'
<1> USE DEF XInv, IInv, TypeInv, TypeOK
<1>1. \A s \in Sessions \ {r} : Same(s)
  BY RequestMoves DEF Request
<1>2. /\ pc[r] \in Open /\ Reviewing(r) /\ inv[r] \in stored /\ r \in Sessions
  BY WriteFacts
<1>3. /\ UNCHANGED <<used, stored>> /\ pc[r] \in {"writing", "flushed"} /\ pc'[r] \notin Open
      /\ op[r] # "edit" \/ pc[r] = "flushed"
      /\ db' = [db EXCEPT ![inv[r]] = Flush(@, seen[r], draft[r])]
  BY <1>2 DEF Write, End, Leave, Open
<1>4. QED
  BY <1>1, <1>2, <1>3, FlagWrites

LEMMA DuplicatesStep ==
  ASSUME ExclusiveUse, XInv, DInv, OneRewriter, [Next]_vars, stored' = used' => SearchedBefore,
         \A r \in Requests : EditFlush(r) => SearchWhole(r)
  PROVE  DInv'
<1>1. CASE UNCHANGED vars
  <2>1. UNCHANGED <<used, stored, db, pc, inv, op, seen, draft>> /\ \A s \in Sessions : Same(s)
    BY <1>1 DEF vars, table, sessions, Same
  <2>2. \A i : Flagged(i) => Flagged(i)'
    BY <2>1, FlaggedSame
  <2>3. Pairs => Pairs'
    BY <2>1, <2>2, SearchedSame DEF Pairs
  <2>4. \A s \in Sessions : (Met(s) => Met(s)') /\ (Kept(s) => Kept(s)')
    BY <2>1, MetSame DEF Met, Kept, Reviewing
  <2>5. QED
    BY <2>1, <2>3, <2>4 DEF DInv
<1>2. ASSUME NEW d \in Deliveries, Delivery(d)
      PROVE  DInv'
  BY <1>2, FlagDeliveryReads, FlagDeliveryWrites
<1>3. ASSUME NEW r \in Requests, Remove(r)
      PROVE  DInv'
  BY <1>3 DEF Remove, DInv, XInv, IInv, TypeInv, TypeOK
<1>4. ASSUME NEW r \in Requests, Request(r)
      PROVE  DInv'
  BY <1>3, <1>4, FlagRequestReads, FlagWrite DEF Request
<1>5. QED
  BY <1>1, <1>2, <1>4, FlagUpload DEF Next

LEMMA FlaggedPairs == DInv => DuplicatesAreFlagged
<1> SUFFICES ASSUME DInv, stored = used, NEW i \in stored, NEW j \in stored,
                    {db[i].status, db[j].status} \subseteq Reviewed,
                    j \in LookLike(db[i], Candidates(i, db[i])),
                    i \in LookLike(db[j], Candidates(j, db[j])),
                    Searched(i), Searched(j)
             PROVE  \/ db[i].possible_duplicate_of_id # None
                    \/ db[j].possible_duplicate_of_id # None
  BY DEF DuplicatesAreFlagged
<1>1. i # j /\ Alike(db[i], db[j])
  BY DEF LookLike, Candidates, Alike
<1>2. Flagged(i) \/ Flagged(j)
  BY <1>1 DEF DInv, Pairs
<1>3. QED
  BY <1>2 DEF Flagged

\* No edit has more candidates than it looks at, and no invoice would in an edit.
SearchesAreWhole ==
  /\ \A i \in stored : Searched(i)
  /\ \A r \in Requests :
       pc[r] = "writing" => Cardinality(Candidates(inv[r], draft[r])) <= SearchLimit

\* Of two reviewed invoices with the supplier, the amount and the like number of one
\* document at least one names an original, as long as one session at a time writes
\* what identifies a document and an edit sees all candidates
\* (flag_possible_duplicate is called before the commit, by the worker and by the
\* edit).
THEOREM DuplicatesFlagged ==
  ASSUME ExclusiveUse
  PROVE  Spec /\ []OneRewriter /\ []SearchesAreWhole => []DuplicatesAreFlagged
<1>1. DInv => DuplicatesAreFlagged
  BY FlaggedPairs
<1>2. XInv /\ DInv /\ OneRewriter /\ SearchesAreWhole /\ [Next]_vars => DInv'
  <2> SUFFICES ASSUME XInv, DInv, OneRewriter, SearchesAreWhole, [Next]_vars
               PROVE  DInv'
    OBVIOUS
  <2>1. SearchedBefore
    BY DEF SearchedBefore, SearchesAreWhole
  <2>2. \A r \in Requests : EditFlush(r) => SearchWhole(r)
    BY DEF EditFlush, SearchWhole, SearchesAreWhole
  <2>3. QED
    BY <2>1, <2>2, DuplicatesStep
<1>3. QED
  BY <1>1, <1>2, DuplicatesInit, ExclusiveInvariant, PTL DEF Spec

--------------------------------------------------------------------------------
(* With one worker at a time, and edits that keep the identity of a document,   *)
(* there is one rewriter, the worker, and a reviewed invoice stays the document *)
(* it is: the candidates of an invoice are never fewer than they were.          *)

OneWorker == \A d, e \in Deliveries : d = e

EditsKeepIdentity == \A p \in Patches : DOMAIN p \cap Identity = {}

LEMMA EditKeeps ==
  ASSUME EditsKeepIdentity, NEW row \in Row, NEW p \in Patches, NEW dup
  PROVE  SameDocument(Edited(Patched(row, p), dup), row)
<1>1. Overlay(row, p) \in Row /\ \A c \in Identity : Overlay(row, p)[c] = row[c]
  BY OverlayType, ConstantsAssumption
     DEF Overlay, EditsKeepIdentity, Identity, Columns, DocumentColumns
<1>2. SameDocument(Patched(row, p), row)
  BY <1>1 DEF Patched, SameDocument, Identity, Row
<1>3. SameDocument(Edited(Patched(row, p), dup), Patched(row, p))
  BY PatchedType, EditedSame
<1>4. QED
  BY <1>2, <1>3 DEF SameDocument

\* Requests do not rewrite.
LEMMA WorkerRewrites ==
  ASSUME EditsKeepIdentity, XInv, NEW s \in Sessions, Rewrites(s)
  PROVE  s \in Deliveries /\ pc[s] = "staged"
<1> SUFFICES ASSUME pc[s] = "flushed"
             PROVE  FALSE
  BY DEF Rewrites, XInv, Decided, RequestSteps, Sessions
<1>1. /\ ~SameDocument(draft[s], seen[s])
      /\ \E p \in Patches, dup \in Invoices \cup {None} :
           draft[s] = Edited(Patched(seen[s], p), dup)
  BY ConstantsAssumption DEF Rewrites, XInv, Decided, DeliverySteps, DecidedByReviewer, Sessions
<1>2. seen[s] \in Row
  BY DEF XInv, IInv, TypeInv, SnapshotsType, Open
<1>3. QED
  BY <1>1, <1>2, EditKeeps

LEMMA EditFlushKeeps ==
  ASSUME EditsKeepIdentity, XInv, NEW r \in Requests, EditFlush(r)
  PROVE  ~Rewrites(r)'
<1> USE DEF XInv, IInv, TypeInv, TypeOK
<1>1. PICK dup \in NewestDuplicates(inv[r], draft[r]) : Want(r, "flushed", Edited(draft[r], dup))
  BY DEF EditFlush
<1>2. /\ pc[r] = "writing" /\ op[r] = "edit" /\ r \in Sessions /\ seen[r] \in Row
      /\ pc'[r] = "flushed" /\ draft'[r] = Edited(draft[r], dup) /\ seen'[r] = seen[r]
  BY <1>1 DEF EditFlush, Want, Sessions, SnapshotsType, Open
<1>3. PICK p \in Patches : draft[r] = Patched(seen[r], p)
  BY <1>2 DEF Decided, DecidedByReviewer, Wanted
<1>4. SameDocument(draft'[r], seen'[r])
  BY <1>2, <1>3, EditKeeps
<1>5. QED
  BY <1>2, <1>4 DEF Rewrites

\* A write leaves a reviewed invoice under review, the same document.
LEMMA WriteKeeps ==
  ASSUME EditsKeepIdentity, XInv, NEW s \in Sessions, pc[s] \in Open, Reviewing(s),
         inv[s] \in stored, db[inv[s]].status \in Reviewed,
         pc[s] \in {"staged", "marking", "writing", "flushed"},
         s \in Deliveries \/ op[s] # "edit" \/ pc[s] = "flushed",
         db' = [db EXCEPT ![inv[s]] = Flush(@, seen[s], draft[s])]
  PROVE  db'[inv[s]].status \in Reviewed /\ SameDocument(db'[inv[s]], db[inv[s]])
<1> USE DEF XInv, IInv, TypeInv, TypeOK
<1>1. s \in Requests
  <2> SUFFICES ASSUME s \in Deliveries
               PROVE  FALSE
    BY DEF Sessions
  <2>1. pc[s] \in AtOcr
    BY DEF Decided, DeliverySteps, Open, AtOcr
  <2>2. db[inv[s]].status \in {"uploaded", "failed"}
    BY <2>1 DEF Current
  <2>3. QED
    BY <2>2 DEF Reviewed
<1>2. pc[s] \in {"writing", "flushed"} /\ ~Rewrites(s)
  <2>1. pc[s] \in RequestSteps
    BY <1>1 DEF Decided
  <2>2. QED
    BY <1>1, <2>1, WorkerRewrites, ConstantsAssumption DEF RequestSteps
<1>3. draft[s].status \in Reviewed
  BY <1>1, <1>2 DEF SessionsOK, DraftOK, Reviewing
<1>4. SameDocument(draft[s], db[inv[s]])
  BY <1>2, <1>3, WritesSame DEF Reviewed
<1>5. Agree(db'[inv[s]], draft[s])
  <2>1. inv[s] \in Invoices /\ db'[inv[s]] = Flush(db[inv[s]], seen[s], draft[s])
    OBVIOUS
  <2>2. Agree(seen[s], db[inv[s]])
    BY DEF Current
  <2>3. QED
    BY <2>1, <2>2, FlushAgrees DEF SnapshotsType
<1>6. QED
  BY <1>3, <1>4, <1>5 DEF Agree, Own, Columns, DocumentColumns, SameDocument, Identity

\* So does every step that deletes nothing.
LEMMA StepKeeps ==
  ASSUME EditsKeepIdentity, XInv, [Next]_vars, stored' = used',
         NEW j \in stored, db[j].status \in Reviewed
  PROVE  j \in stored' /\ db'[j].status \in Reviewed /\ SameDocument(db'[j], db[j])
<1> SUFFICES j \in stored' /\ (db'[j] = db[j] \/ (db'[j].status \in Reviewed /\ SameDocument(db'[j], db[j])))
  BY DEF SameDocument
<1>s. stored \subseteq Invoices /\ inv \in [Sessions -> Invoices \cup {None}] /\ DOMAIN db = Invoices
  BY DEF XInv, IInv, TypeInv, TypeOK
<1>1. CASE UNCHANGED vars
  BY <1>1 DEF vars, table
<1>2. ASSUME NEW i \in Invoices, Upload(i) \/ Requeue(i)
      PROVE  stored \subseteq stored' /\ db'[j] = db[j]
  BY <1>2 DEF Upload, Requeue, table, XInv, IInv, TypeInv, TypeOK
<1>3. ASSUME NEW s \in Sessions, pc[s] \in Open, Reviewing(s), inv[s] \in stored,
             pc[s] \in {"staged", "marking", "writing", "flushed"},
             s \in Deliveries \/ op[s] # "edit" \/ pc[s] = "flushed",
             db' = [db EXCEPT ![inv[s]] = Flush(@, seen[s], draft[s])]
      PROVE  db'[j] = db[j] \/ (db'[j].status \in Reviewed /\ SameDocument(db'[j], db[j]))
  <2>1. CASE inv[s] = j
    BY <1>3, <2>1, WriteKeeps
  <2>2. CASE inv[s] # j
    BY <1>s, <1>3, <2>2
  <2>3. QED
    BY <2>1, <2>2
<1>4. ASSUME NEW d \in Deliveries, Delivery(d)
      PROVE  /\ stored' = stored
             /\ db'[j] = db[j] \/ (db'[j].status \in Reviewed /\ SameDocument(db'[j], db[j]))
  <2>1. CASE OcrCommit(d) \/ MarkCommit(d)
    <3>1. /\ stored' = stored /\ d \in Sessions /\ d \notin Requests
          /\ pc[d] \in {"staged", "marking"} /\ (pc[d] = "staged" => inv[d] \in stored)
      BY <2>1, ConstantsAssumption DEF OcrCommit, MarkCommit, Sessions, XInv, LockKept
    <3>2. \/ UNCHANGED db
          \/ inv[d] \in stored /\ db' = [db EXCEPT ![inv[d]] = Flush(@, seen[d], draft[d])]
      BY <2>1, <3>1 DEF OcrCommit, MarkCommit
    <3>3. QED
      BY <1>3, <3>1, <3>2 DEF Open, Reviewing
  <2>2. CASE ~OcrCommit(d) /\ ~MarkCommit(d)
    BY <1>4, <2>2
       DEF Delivery, OcrRefused, OcrLoad, OcrFlush, OcrAnswer, OcrTransient, OcrDbError, Retry,
           OcrPermanent, MarkLoad, Ack, Crash, TimeLimit, CrashAfterRetry, table
  <2>3. QED
    BY <2>1, <2>2
<1>5. ASSUME NEW r \in Requests, Request(r)
      PROVE  /\ stored' = stored
             /\ db'[j] = db[j] \/ (db'[j].status \in Reviewed /\ SameDocument(db'[j], db[j]))
  <2>1. CASE Write(r)
    <3>1. /\ stored' = stored /\ pc[r] \in {"writing", "flushed"}
          /\ op[r] # "edit" \/ pc[r] = "flushed"
          /\ db' = [db EXCEPT ![inv[r]] = Flush(@, seen[r], draft[r])]
      BY <2>1 DEF Write
    <3>2. pc[r] \in Open /\ Reviewing(r) /\ inv[r] \in stored /\ r \in Sessions
      BY <2>1, WriteFacts
    <3>3. QED
      BY <1>3, <3>1, <3>2
  <2>2. ~Remove(r)
    BY DEF Remove, XInv, IInv, TypeInv, TypeOK
  <2>3. CASE ~Write(r)
    BY <1>5, <2>2, <2>3 DEF Request, Begin, EditFlush, WriteFails, HandOff, table
  <2>4. QED
    BY <2>1, <2>3
<1>6. QED
  BY <1>1, <1>2, <1>4, <1>5 DEF Next

\* The candidates of a reviewed invoice are reviewed, and remain its candidates.
LEMMA CandidatesRemain ==
  ASSUME EditsKeepIdentity, XInv, XInv', [Next]_vars, stored' = used'
  PROVE  SearchedBefore
<1> SUFFICES ASSUME NEW i \in stored, db[i].status \in Reviewed, Searched(i)'
             PROVE  Searched(i)
  BY DEF SearchedBefore
<1> DEFINE before == Candidates(i, db[i])
           after  == Candidates(i, db[i])'
<1>1. SameDocument(db'[i], db[i])
  BY StepKeeps
<1>2. ASSUME NEW j \in before
      PROVE  j \in after
  <2>1. j \in stored \ {i} /\ db[j].total_ttc # None /\ db[j].status # "failed"
    BY DEF Candidates
  <2>2. db[j].status \in Reviewed
    <3>1. db[j] \in Row /\ RowOK(db[j])
      BY <2>1 DEF XInv, IInv, TypeInv, TypeOK, RowsOK
    <3>2. UploadedRow.total_ttc = None
      BY DEF UploadedRow
    <3>3. QED
      BY <2>1, <3>1, <3>2 DEF RowOK, Row, Status, Reviewed
  <2>3. j \in stored' /\ db'[j].status \in Reviewed /\ SameDocument(db'[j], db[j])
    BY <2>1, <2>2, StepKeeps
  <2>4. QED
    BY <1>1, <2>1, <2>3 DEF Candidates, SameDocument, Identity, Reviewed
<1>3. IsFiniteSet(after)
  <2>1. after \subseteq stored' /\ stored' \subseteq Invoices
    BY DEF Candidates, XInv, IInv, TypeInv, TypeOK
  <2>2. QED
    BY <2>1, SearchAssumption, FS_Subset
<1> HIDE DEF before, after
<1>4. Cardinality(before) <= Cardinality(after) /\ Cardinality(before) \in Nat /\ Cardinality(after) \in Nat
  BY <1>2, <1>3, FS_Subset, FS_CardinalityType
<1>5. Cardinality(after) <= SearchLimit
  BY DEF Searched, after
<1>6. SearchLimit \in Nat
  BY SearchAssumption
<1>7. Cardinality(before) <= SearchLimit
  BY <1>4, <1>5, <1>6
<1>8. QED
  BY <1>7 DEF Searched, before

\* One worker, and users who correct dates and partial amounts only: then, whatever
\* fails, is retried, edited or reopened, of two alike invoices one is flagged,
\* unless one of them has more candidates than an edit looks at
\* (SearchLimit, 50 in flag_possible_duplicate).
THEOREM DuplicatesOfOneWorker ==
  ASSUME ExclusiveUse, OneWorker, EditsKeepIdentity
  PROVE  Spec => []DuplicatesAreFlagged
<1>1. XInv => OneRewriter
  BY WorkerRewrites DEF OneRewriter, OneWorker
<1>2. XInv /\ XInv' /\ DInv /\ [Next]_vars => DInv'
  <2> SUFFICES ASSUME XInv, XInv', DInv, [Next]_vars
               PROVE  DInv'
    OBVIOUS
  <2>1. stored' = used' => SearchedBefore
    BY CandidatesRemain
  <2>2. ASSUME NEW r \in Requests, EditFlush(r)
        PROVE  SearchWhole(r)
    <3>1. ~Rewrites(r)'
      BY <2>2, EditFlushKeeps
    <3>2. QED
      BY <3>1 DEF SearchWhole
  <2>3. QED
    BY <1>1, <2>1, <2>2, DuplicatesStep
<1>3. DInv => DuplicatesAreFlagged
  BY FlaggedPairs
<1>4. QED
  BY <1>2, <1>3, DuplicatesInit, ExclusiveInvariant, PTL DEF Spec

================================================================================
