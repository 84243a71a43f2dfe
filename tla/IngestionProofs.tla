---------------------------- MODULE IngestionProofs ----------------------------
(***************************************************************************)
(* Proofs about Ingestion, for any sources, documents, syncs, uploads,     *)
(* administrators, retries and faults.                                     *)
(***************************************************************************)
EXTENDS Ingestion, FiniteSetTheorems, TLAPS

--------------------------------------------------------------------------------
(* Types *)

Steps == Syncing \cup {"new", "queued", "failing", "connect", "disconnect", "done"}

InHandSteps == {"put", "insert", "send"}

\* What a session has while it works on a source or on a document
SessionsOK ==
  /\ \A t \in Syncs :
       /\ pc[t] \notin {"connect", "disconnect"}
       /\ pc[t] \in Syncing \cup {"queued", "failing"} => src[t] \in Sources
       /\ pc[t] \in Syncing => seen[t] \in SourceRow /\ draft[t] \in SourceRow
  /\ \A a \in Admins :
       /\ pc[a] \in {"new", "connect", "disconnect", "done"}
       /\ pc[a] \in {"connect", "disconnect"} => src[a] \in Sources
       /\ pc[a] = "disconnect" => seen[a] \in SourceRow
  /\ \A w \in Writers :
       /\ pc[w] \in InHandSteps => content[w] \in Contents
       /\ pc[w] = "send" => InHand(w) \in invoices

TypeInv == TypeOK /\ SessionsOK

LEMMA FlushType ==
  ASSUME NEW current \in SourceRow, NEW loaded \in SourceRow, NEW wanted \in SourceRow
  PROVE  /\ Flush(current, loaded, wanted) \in SourceRow
         /\ Flush(current, loaded, wanted).is_active =
              IF wanted.is_active # loaded.is_active THEN wanted.is_active ELSE current.is_active
         /\ Flush(current, loaded, wanted).last_sync_at =
              IF wanted.last_sync_at # loaded.last_sync_at
              THEN wanted.last_sync_at ELSE current.last_sync_at
BY DEF Flush, SourceRow

\* What the sessions make of a row is a row.
LEMMA RowTypes ==
  ASSUME NEW row \in SourceRow, NEW x \in Sessions
  PROVE  /\ [row EXCEPT !.token = x] \in SourceRow
         /\ [row EXCEPT !.is_active = FALSE, !.last_error = "auth_failed"] \in SourceRow
         /\ [row EXCEPT !.last_error = "sync_failed"] \in SourceRow
         /\ [row EXCEPT !.token = x, !.is_active = TRUE, !.last_error = "none"] \in SourceRow
         /\ [row EXCEPT !.token = None, !.is_active = FALSE] \in SourceRow
BY DEF SourceRow, Error

LEMMA CursorType ==
  ASSUME NEW row \in SourceRow, NEW time \in 0..MaxTime
  PROVE  [row EXCEPT !.last_sync_at = time, !.last_error = "none"] \in SourceRow
BY DEF SourceRow, Error

LEMMA RivalsType ==
  ASSUME TypeOK, NEW w \in Writers, content[w] \in Contents,
         rivals' = rivals \cup {<<content[w], w, x>> : x \in InFlight(content[w])}
  PROVE  rivals' \subseteq Contents \X Writers \X Writers
BY DEF TypeOK, InFlight

LEMMA CommitType ==
  ASSUME TypeInv, NEW x \in Sessions, NEW s \in Sources, seen[x] \in SourceRow,
         NEW wanted \in SourceRow, CommitSource(x, s, wanted)
  PROVE  source' \in [Sources -> SourceRow]
BY FlushType DEF TypeInv, TypeOK, CommitSource

\* The commits of an administrator and of a sync write rows.
LEMMA ConnectTypes ==
  ASSUME TypeInv, NEW a \in Admins, Connect(a)
  PROVE  source' \in [Sources -> SourceRow] /\ known' \subseteq Sources
<1>1. a \in Sessions /\ src[a] \in Sources /\ seen[a] \in SourceRow \cup {None}
  BY DEF TypeInv, TypeOK, SessionsOK, Connect, Sessions
<1>2. CASE seen[a] = None
  <2>1. [is_active |-> TRUE, token |-> a, last_sync_at |-> 0, last_error |-> "none"] \in SourceRow
    BY <1>1, ConstantsAssumption DEF SourceRow, Error
  <2>2. QED
    BY <1>1, <1>2, <2>1 DEF Connect, TypeInv, TypeOK
<1>3. CASE seen[a] # None
  <2>1. seen[a] \in SourceRow
    BY <1>1, <1>3
  <2>2. [seen[a] EXCEPT !.token = a, !.is_active = TRUE, !.last_error = "none"] \in SourceRow
    BY <1>1, <2>1, RowTypes
  <2>3. CommitSource(a, src[a], [seen[a] EXCEPT !.token = a, !.is_active = TRUE,
                                               !.last_error = "none"])
        /\ known' = known
    BY <1>3 DEF Connect
  <2>4. QED
    BY <1>1, <2>1, <2>2, <2>3, CommitType DEF TypeInv, TypeOK
<1>4. QED
  BY <1>2, <1>3

LEMMA DisconnectTypes ==
  ASSUME TypeInv, NEW a \in Admins, Disconnect(a)
  PROVE  source' \in [Sources -> SourceRow]
<1>1. a \in Sessions /\ src[a] \in Sources /\ seen[a] \in SourceRow
  BY DEF TypeInv, SessionsOK, Disconnect, Sessions
<1>2. [seen[a] EXCEPT !.token = None, !.is_active = FALSE] \in SourceRow
  BY <1>1, RowTypes
<1>3. CommitSource(a, src[a], [seen[a] EXCEPT !.token = None, !.is_active = FALSE])
  BY DEF Disconnect
<1>4. QED
  BY <1>1, <1>2, <1>3, CommitType

LEMMA FinishTypes ==
  ASSUME TypeInv, NEW t \in Syncs, Finish(t)
  PROVE  source' \in [Sources -> SourceRow]
<1> DEFINE time == IF newest[t] # 0 THEN newest[t] ELSE now
<1>1. t \in Sessions /\ src[t] \in Sources /\ seen[t] \in SourceRow /\ draft[t] \in SourceRow
  BY DEF TypeInv, SessionsOK, Finish, Sessions, Writers, Syncing
<1>2. time \in 0..MaxTime
  BY ConstantsAssumption DEF TypeInv, TypeOK
<1>3. CommitSource(t, src[t], [draft[t] EXCEPT !.last_sync_at = time, !.last_error = "none"])
  BY DEF Finish
<1> HIDE DEF time
<1>4. [draft[t] EXCEPT !.last_sync_at = time, !.last_error = "none"] \in SourceRow
  BY <1>1, <1>2, CursorType
<1>5. QED
  BY <1>1, <1>3, <1>4, CommitType

\* The closed session forgets everything, the others nothing.
LEMMA LeaveOK ==
  ASSUME TypeInv, NEW x \in Sessions, NEW step \in Steps, Leave(x, step)
  PROVE  /\ pc' \in [Sessions -> Steps] /\ pc' = [pc EXCEPT ![x] = step]
         /\ lock' \in [Sources -> Syncs \cup {None}]
         /\ seen' \in [Sessions -> SourceRow \cup {None}]
         /\ draft' \in [Sessions -> SourceRow \cup {None}]
         /\ content' \in [Writers -> Contents \cup {None}]
         /\ todo' \in [Syncs -> SUBSET Items] /\ listed' \in [Syncs -> SUBSET Items]
         /\ newest' \in [Syncs -> 0..MaxTime]
         /\ \A y \in Sessions \ {x} : seen'[y] = seen[y] /\ draft'[y] = draft[y]
         /\ \A w \in Writers \ {x} : content'[w] = content[w]
         /\ \A t \in Syncs \ {x} : /\ todo'[t] = todo[t] /\ listed'[t] = listed[t]
                                   /\ newest'[t] = newest[t]
<1> USE ConstantsAssumption DEF TypeInv, TypeOK, Leave, Steps
<1>1. lock' \in [Sources -> Syncs \cup {None}]
  OBVIOUS
<1>2. content' \in [Writers -> Contents \cup {None}]
  OBVIOUS
<1>3. newest' \in [Syncs -> 0..MaxTime]
  OBVIOUS
<1>4. QED
  BY <1>1, <1>2, <1>3

\* A session that ends, commits its source or not, and changes nothing else but
\* the messages sent and the faults.
LEMMA LeaveTypes ==
  ASSUME TypeInv, NEW x \in Sessions, NEW step \in {"queued", "failing", "done"}, Leave(x, step),
         step # "done" => x \in Syncs /\ src[x] \in Sources,
         source' \in [Sources -> SourceRow], known' \subseteq Sources, ocr' \subseteq invoices,
         faults' \in 0..MaxFaults,
         UNCHANGED <<now, received, invoices, files, reported, src, rivals, retries>>
  PROVE  TypeInv'
<1>1. /\ pc' = [pc EXCEPT ![x] = step] /\ pc \in [Sessions -> Steps]
      /\ \A y \in Sessions \ {x} : pc'[y] = pc[y] /\ seen'[y] = seen[y] /\ draft'[y] = draft[y]
      /\ \A w \in Writers \ {x} : content'[w] = content[w]
  BY LeaveOK DEF Steps, TypeInv, TypeOK
<1>2. TypeOK'
  BY LeaveOK DEF TypeInv, TypeOK, Steps
<1>3. ASSUME NEW t \in Syncs
      PROVE  /\ pc'[t] \notin {"connect", "disconnect"}
             /\ pc'[t] \in Syncing \cup {"queued", "failing"} => src'[t] \in Sources
             /\ pc'[t] \in Syncing => seen'[t] \in SourceRow /\ draft'[t] \in SourceRow
  BY <1>1 DEF TypeInv, SessionsOK, Syncing, Sessions, Writers
<1>4. ASSUME NEW a \in Admins
      PROVE  /\ pc'[a] \in {"new", "connect", "disconnect", "done"}
             /\ pc'[a] \in {"connect", "disconnect"} => src'[a] \in Sources
             /\ pc'[a] = "disconnect" => seen'[a] \in SourceRow
  BY <1>1, ConstantsAssumption DEF TypeInv, SessionsOK, Sessions, Writers
<1>5. ASSUME NEW w \in Writers
      PROVE  /\ pc'[w] \in InHandSteps => content'[w] \in Contents
             /\ pc'[w] = "send" => InHand(w)' \in invoices'
  BY <1>1 DEF TypeInv, SessionsOK, InHandSteps, InHand, Sessions
<1>6. QED
  BY <1>2, <1>3, <1>4, <1>5 DEF TypeInv, SessionsOK

LEMMA InitTypes == Init => TypeInv
BY ConstantsAssumption
   DEF Init, TypeInv, TypeOK, SessionsOK, Sessions, Writers, SourceRow, Error, Syncing, InHandSteps

LEMMA NextTypes == TypeInv /\ [Next]_vars => TypeInv'
<1> SUFFICES ASSUME TypeInv, [Next]_vars PROVE TypeInv'
  OBVIOUS
<1> USE ConstantsAssumption
    DEF TypeInv, TypeOK, SessionsOK, Steps, Syncing, InHandSteps, Sessions, Writers, InHand,
        database, work
<1>1. CASE UNCHANGED vars
  BY <1>1 DEF vars
<1>2. CASE Tick
  BY <1>2 DEF Tick
<1>3. ASSUME NEW i \in Items, Receive(i) PROVE TypeInv'
  BY <1>3 DEF Receive
<1>4. ASSUME NEW t \in Syncs, NEW s \in Sources, Publish(t, s) PROVE TypeInv'
  BY <1>4 DEF Publish
<1>5. ASSUME NEW t \in Syncs, SyncStep(t) PROVE TypeInv'
  <2>1. CASE Inactive(t)
    <3>1. Leave(t, "done")
      BY <2>1 DEF Inactive
    <3>2. QED
      BY <2>1, <3>1, LeaveTypes DEF Inactive
  <2>2. CASE Start(t)
    BY <2>2 DEF Start, SourceRow
  <2>3. CASE Refresh(t)
    <3>1. src[t] \in Sources /\ draft[t] \in SourceRow
      BY <2>3 DEF Refresh
    <3>2. [draft[t] EXCEPT !.token = t] \in SourceRow
      BY <3>1, RowTypes
    <3>3. draft' = [draft EXCEPT ![t] = [draft[t] EXCEPT !.token = t]]
      BY <2>3 DEF Refresh
    <3>4. QED
      BY <2>3, <3>1, <3>2, <3>3 DEF Refresh
  <2>4. CASE List(t)
    BY <2>4 DEF List, Listing
  <2>5. CASE ListUnauthorized(t)
    <3>1. [draft[t] EXCEPT !.is_active = FALSE, !.last_error = "auth_failed"] \in SourceRow
      BY <2>5, RowTypes DEF ListUnauthorized, Paging
    <3>2. source' \in [Sources -> SourceRow]
      BY <2>5, <3>1, CommitType DEF ListUnauthorized, Paging
    <3>3. Leave(t, "done")
      BY <2>5 DEF ListUnauthorized
    <3>4. QED
      BY <2>5, <3>2, <3>3, LeaveTypes DEF ListUnauthorized, Paging
  <2>6. CASE ListFails(t)
    <3>1. Leave(t, "failing") /\ src[t] \in Sources
      BY <2>6 DEF ListFails, Paging
    <3>2. QED
      BY <2>6, <3>1, LeaveTypes DEF ListFails
  <2>7. CASE RecordFailure(t)
    <3>1. source' \in [Sources -> SourceRow]
      BY <2>7, RowTypes DEF RecordFailure
    <3>2. /\ retries' \in [Syncs -> 0..MaxRetries]
          /\ pc' = [pc EXCEPT ![t] = "queued"] \/ pc' = [pc EXCEPT ![t] = "done"]
          /\ src[t] \in Sources
      BY <2>7 DEF RecordFailure, RetriesLeft
    <3>3. UNCHANGED <<now, received, known, lock, invoices, files, ocr, reported, work,
                      rivals, faults>>
      BY <2>7 DEF RecordFailure
    <3>4. QED
      BY <3>1, <3>2, <3>3
  <2>8. ASSUME NEW i \in Items, FetchFails(t, i) PROVE TypeInv'
    BY <2>8 DEF FetchFails, Handled
  <2>9. ASSUME NEW i \in Items, Fetch(t, i) PROVE TypeInv'
    <3>1. /\ todo' \in [Syncs -> SUBSET Items] /\ newest' \in [Syncs -> 0..MaxTime]
          /\ pc[t] = "next" /\ ContentOf[i] \in Contents
          /\ UNCHANGED <<now, received, database, ocr, reported, src, seen, draft, listed,
                         rivals, retries, faults>>
      BY <2>9 DEF Fetch, Handled
    <3>2. CASE IsDuplicate(ContentOf[i])
      BY <2>9, <3>1, <3>2 DEF Fetch
    <3>3. CASE ~IsDuplicate(ContentOf[i])
      <4>1. /\ pc' = [pc EXCEPT ![t] = "put"]
            /\ content' = [content EXCEPT ![t] = ContentOf[i]]
        BY <2>9, <3>3 DEF Fetch
      <4>2. QED
        BY <3>1, <4>1
    <3>4. QED
      BY <3>2, <3>3
  <2>10. CASE Put(t)
    BY <2>10 DEF Put, Document
  <2>11. CASE Insert(t)
    <3>1. source' \in [Sources -> SourceRow]
      BY <2>11, CommitType DEF Insert
    <3>2. rivals' \subseteq Contents \X Writers \X Writers
      BY <2>11, RivalsType DEF Insert
    <3>3. invoices' \subseteq Document /\ ocr' \subseteq invoices'
      BY <2>11 DEF Insert, Document
    <3>4. /\ lock' \in [Sources -> Syncs \cup {None}]
          /\ seen' \in [Sessions -> SourceRow \cup {None}]
          /\ pc' = [pc EXCEPT ![t] = "send"] /\ seen' = [seen EXCEPT ![t] = draft[t]]
          /\ InHand(t) \in invoices' /\ content[t] \in Contents
          /\ draft[t] \in SourceRow /\ src[t] \in Sources
      <4>1. content[t] \in Contents /\ draft[t] \in SourceRow /\ src[t] \in Sources
        BY <2>11 DEF Insert
      <4>2. lock' \in [Sources -> Syncs \cup {None}]
        BY <2>11 DEF Insert
      <4>3. QED
        BY <2>11, <4>1, <4>2 DEF Insert
    <3>5. /\ invoices \subseteq invoices'
          /\ UNCHANGED <<now, received, known, files, ocr, reported, src, draft, content,
                         todo, listed, newest, retries, faults>>
      BY <2>11 DEF Insert
    <3>6. TypeOK'
      BY <3>1, <3>2, <3>3, <3>4, <3>5
    <3>7. SessionsOK'
      BY <3>4, <3>5
    <3>8. QED
      BY <3>6, <3>7
  <2>12. CASE Enqueue(t)
    BY <2>12 DEF Enqueue
  <2>13. CASE Finish(t)
    <3>1. Leave(t, "done")
      BY <2>13 DEF Finish
    <3>2. QED
      BY <2>13, <3>1, FinishTypes, LeaveTypes DEF Finish
  <2>14. QED
    BY <1>5, <2>1, <2>2, <2>3, <2>4, <2>5, <2>6, <2>7, <2>8, <2>9, <2>10, <2>11, <2>12, <2>13
       DEF SyncStep
<1>6. ASSUME NEW t \in Syncs, Crash(t) PROVE TypeInv'
  <2>1. Leave(t, "queued") /\ src[t] \in Sources
    BY <1>6 DEF Crash
  <2>2. faults' \in 0..MaxFaults
    BY <1>6 DEF Crash, Fault
  <2>3. QED
    BY <1>6, <2>1, <2>2, LeaveTypes DEF Crash
<1>7. ASSUME NEW w \in Writers, Abort(w) PROVE TypeInv'
  <2>1. Leave(w, "done")
    BY <1>7 DEF Abort
  <2>2. faults' \in 0..MaxFaults
    BY <1>7 DEF Abort, Fault
  <2>3. QED
    BY <1>7, <2>1, <2>2, LeaveTypes DEF Abort
<1>8. ASSUME NEW u \in Uploads, UploadStep(u) PROVE TypeInv'
  <2>1. ASSUME NEW c \in Contents, UploadCheck(u, c) PROVE TypeInv'
    BY <2>1 DEF UploadCheck
  <2>2. CASE Put(u)
    BY <2>2 DEF Put, Document
  <2>3. CASE Insert(u)
    <3>1. rivals' \subseteq Contents \X Writers \X Writers
      BY <2>3, RivalsType DEF Insert
    <3>2. invoices' \subseteq Document /\ ocr' \subseteq invoices'
      BY <2>3 DEF Insert, Document
    <3>3. QED
      BY <2>3, <3>1, <3>2 DEF Insert
  <2>4. CASE UploadEnqueue(u)
    <3>1. Leave(u, "done") /\ u \in Sessions /\ InHand(u) \in invoices
      BY <2>4 DEF UploadEnqueue
    <3>2. /\ source' \in [Sources -> SourceRow] /\ known' \subseteq Sources
          /\ ocr' \subseteq invoices /\ faults' \in 0..MaxFaults
      BY <2>4, <3>1 DEF UploadEnqueue
    <3>3. UNCHANGED <<now, received, invoices, files, reported, src, rivals, retries>>
      BY <2>4 DEF UploadEnqueue
    <3>4. QED
      BY <3>1, <3>2, <3>3, LeaveTypes
  <2>5. QED
    BY <1>8, <2>1, <2>2, <2>3, <2>4 DEF UploadStep
<1>9. ASSUME NEW a \in Admins, AdminStep(a) PROVE TypeInv'
  <2>1. ASSUME NEW s \in Sources, NEW o \in {"connect", "disconnect"}, AdminLoad(a, s, o)
        PROVE  TypeInv'
    BY <2>1 DEF AdminLoad
  <2>2. CASE Connect(a)
    <3>1. Leave(a, "done") /\ src[a] \in Sources
      BY <2>2 DEF Connect
    <3>2. QED
      BY <2>2, <3>1, ConnectTypes, LeaveTypes DEF Connect
  <2>3. CASE Disconnect(a)
    <3>1. Leave(a, "done")
      BY <2>3 DEF Disconnect
    <3>2. QED
      BY <2>3, <3>1, DisconnectTypes, LeaveTypes DEF Disconnect
  <2>4. QED
    BY <1>9, <2>1, <2>2, <2>3 DEF AdminStep
<1>10. QED
  BY <1>1, <1>2, <1>3, <1>4, <1>5, <1>6, <1>7, <1>8, <1>9 DEF Next, Schedule, TriggerSync

\* Every variable keeps its type and no sync retries more often than it may.
THEOREM TypeCorrect == Spec => []TypeOK
<1>1. TypeInv => TypeOK
  BY DEF TypeInv
<1>2. QED
  BY <1>1, InitTypes, NextTypes, PTL DEF Spec

--------------------------------------------------------------------------------
(* What a step does to the documents: a writer checks one, puts it, inserts  *)
(* it, sends its message or ends with it in hand; every other step leaves    *)
(* the documents, and who holds them, alone.                                 *)

Same(w) == pc'[w] = pc[w] /\ content'[w] = content[w]

OthersSame(w) == \A x \in Writers \ {w} : Same(x)

Calm ==
  /\ UNCHANGED <<invoices, files, ocr, rivals, faults>>
  /\ \A w \in Writers : Same(w) \/ (pc[w] \notin InHandSteps /\ pc'[w] \notin InHandSteps)

Checked(w, c) ==
  /\ ~IsDuplicate(c) /\ pc[w] \notin InHandSteps
  /\ pc'[w] = "put" /\ content'[w] = c /\ OthersSame(w)
  /\ UNCHANGED <<invoices, files, ocr, rivals, faults>>

Sent(w) ==
  /\ pc[w] = "send" /\ pc'[w] \notin InHandSteps /\ OthersSame(w)
  /\ ocr' = ocr \cup {InHand(w)}
  /\ UNCHANGED <<invoices, files, rivals, faults>>

Ended(w) ==
  /\ pc'[w] \notin InHandSteps /\ OthersSame(w)
  /\ faults' = faults + 1
  /\ UNCHANGED <<invoices, files, ocr, rivals>>

Stored(w) ==
  /\ pc[w] = "put" /\ pc'[w] = "insert" /\ content'[w] = content[w] /\ OthersSame(w)
  /\ files' = files \cup {InHand(w)}
  /\ UNCHANGED <<invoices, ocr, rivals, faults>>

Inserted(w) ==
  /\ pc[w] = "insert" /\ pc'[w] = "send" /\ content'[w] = content[w] /\ OthersSame(w)
  /\ invoices' = invoices \cup {InHand(w)}
  /\ rivals' = rivals \cup {<<content[w], w, x>> : x \in InFlight(content[w])}
  /\ UNCHANGED <<files, ocr, faults>>

DocumentStep ==
  \/ Calm
  \/ \E w \in Writers, c \in Contents : Checked(w, c)
  \/ \E w \in Writers : Stored(w) \/ Inserted(w) \/ Sent(w) \/ Ended(w)

\* A session that leaves with nothing in hand, and commits no document
LEMMA LeaveCalm ==
  ASSUME TypeInv, NEW x \in Sessions, NEW step \in {"queued", "failing", "done"}, Leave(x, step),
         pc[x] \notin InHandSteps, UNCHANGED <<invoices, files, ocr, rivals, faults>>
  PROVE  Calm
BY LeaveOK DEF TypeInv, TypeOK, Steps, Sessions, Calm, Same, InHandSteps

LEMMA Documents == TypeInv /\ [Next]_vars => DocumentStep
<1> SUFFICES ASSUME TypeInv, [Next]_vars PROVE DocumentStep
  OBVIOUS
<1> USE DEF database, work
<1>a. /\ pc \in [Sessions -> Steps] /\ content \in [Writers -> Contents \cup {None}]
      /\ Writers \subseteq Sessions /\ Syncs \subseteq Writers /\ Uploads \subseteq Writers
      /\ ContentOf \in [Items -> Contents] /\ Admins \cap Writers = {} /\ Admins \subseteq Sessions
  BY ConstantsAssumption DEF TypeInv, TypeOK, Steps, Sessions, Writers
<1>1. CASE UNCHANGED vars
  BY <1>1 DEF vars, DocumentStep, Calm, Same
<1>2. CASE Tick
  BY <1>2 DEF Tick, DocumentStep, Calm, Same
<1>3. ASSUME NEW i \in Items, Receive(i) PROVE DocumentStep
  BY <1>3 DEF Receive, DocumentStep, Calm, Same
<1>4. ASSUME NEW t \in Syncs, NEW s \in Sources, Publish(t, s) PROVE DocumentStep
  BY <1>4, <1>a DEF Publish, DocumentStep, Calm, Same, InHandSteps
<1>5. ASSUME NEW t \in Syncs, SyncStep(t) PROVE DocumentStep
  <2>1. CASE Inactive(t)
    BY <2>1, <1>a, LeaveCalm DEF Inactive, DocumentStep, InHandSteps
  <2>2. CASE Start(t)
    BY <2>2, <1>a DEF Start, DocumentStep, Calm, Same, InHandSteps
  <2>3. CASE Refresh(t)
    BY <2>3, <1>a DEF Refresh, DocumentStep, Calm, Same
  <2>4. CASE List(t)
    BY <2>4, <1>a DEF List, DocumentStep, Calm, Same, InHandSteps
  <2>5. CASE ListUnauthorized(t)
    BY <2>5, <1>a, LeaveCalm DEF ListUnauthorized, Paging, DocumentStep, InHandSteps
  <2>6. CASE ListFails(t)
    BY <2>6, <1>a, LeaveCalm DEF ListFails, Paging, DocumentStep, InHandSteps
  <2>7. CASE RecordFailure(t)
    BY <2>7, <1>a DEF RecordFailure, DocumentStep, Calm, Same, InHandSteps
  <2>8. ASSUME NEW i \in Items, FetchFails(t, i) PROVE DocumentStep
    BY <2>8, <1>a DEF FetchFails, DocumentStep, Calm, Same
  <2>9. ASSUME NEW i \in Items, Fetch(t, i) PROVE DocumentStep
    <3>1. CASE IsDuplicate(ContentOf[i])
      BY <2>9, <3>1, <1>a DEF Fetch, DocumentStep, Calm, Same
    <3>2. CASE ~IsDuplicate(ContentOf[i])
      <4>1. Checked(t, ContentOf[i])
        BY <2>9, <3>2, <1>a DEF Fetch, Checked, OthersSame, Same, InHandSteps
      <4>2. QED
        BY <4>1, <1>a DEF DocumentStep
    <3>3. QED
      BY <3>1, <3>2
  <2>10. CASE Put(t)
    BY <2>10, <1>a DEF Put, Stored, DocumentStep, OthersSame, Same
  <2>11. CASE Insert(t)
    BY <2>11, <1>a DEF Insert, Inserted, DocumentStep, OthersSame, Same
  <2>12. CASE Enqueue(t)
    BY <2>12, <1>a DEF Enqueue, Sent, DocumentStep, OthersSame, Same, InHandSteps
  <2>13. CASE Finish(t)
    BY <2>13, <1>a, LeaveCalm DEF Finish, DocumentStep, InHandSteps
  <2>14. QED
    BY <1>5, <2>1, <2>2, <2>3, <2>4, <2>5, <2>6, <2>7, <2>8, <2>9, <2>10, <2>11, <2>12, <2>13
       DEF SyncStep
<1>6. ASSUME NEW t \in Syncs, Crash(t) PROVE DocumentStep
  <2>1. Leave(t, "queued") /\ t \in Sessions /\ "queued" \in Steps
    BY <1>6, <1>a DEF Crash, Steps
  <2>2. Ended(t)
    BY <1>6, <2>1, <1>a, LeaveOK DEF Crash, Fault, Ended, OthersSame, Same, InHandSteps
  <2>3. QED
    BY <2>2, <1>a DEF DocumentStep
<1>7. ASSUME NEW w \in Writers, Abort(w) PROVE DocumentStep
  <2>1. Leave(w, "done") /\ w \in Sessions /\ "done" \in Steps
    BY <1>7, <1>a DEF Abort, Steps
  <2>2. Ended(w)
    BY <1>7, <2>1, <1>a, LeaveOK DEF Abort, Fault, Ended, OthersSame, Same, InHandSteps
  <2>3. QED
    BY <2>2 DEF DocumentStep
<1>8. ASSUME NEW u \in Uploads, UploadStep(u) PROVE DocumentStep
  <2>1. ASSUME NEW c \in Contents, UploadCheck(u, c) PROVE DocumentStep
    <3>1. CASE IsDuplicate(c)
      BY <2>1, <3>1, <1>a DEF UploadCheck, DocumentStep, Calm, Same, InHandSteps
    <3>2. CASE ~IsDuplicate(c)
      <4>1. Checked(u, c)
        BY <2>1, <3>2, <1>a DEF UploadCheck, Checked, OthersSame, Same, InHandSteps
      <4>2. QED
        BY <4>1, <1>a DEF DocumentStep
    <3>3. QED
      BY <3>1, <3>2
  <2>2. CASE Put(u)
    BY <2>2, <1>a DEF Put, Stored, DocumentStep, OthersSame, Same
  <2>3. CASE Insert(u)
    BY <2>3, <1>a DEF Insert, Inserted, DocumentStep, OthersSame, Same
  <2>4. CASE UploadEnqueue(u)
    <3>1. Leave(u, "done") /\ u \in Sessions /\ "done" \in Steps
      BY <2>4, <1>a DEF UploadEnqueue, Steps
    <3>2. Sent(u)
      BY <2>4, <3>1, <1>a, LeaveOK DEF UploadEnqueue, Sent, OthersSame, Same, InHandSteps
    <3>3. QED
      BY <3>2, <1>a DEF DocumentStep
  <2>5. QED
    BY <1>8, <2>1, <2>2, <2>3, <2>4 DEF UploadStep
<1>9. ASSUME NEW a \in Admins, AdminStep(a) PROVE DocumentStep
  <2>1. ASSUME NEW s \in Sources, NEW o \in {"connect", "disconnect"}, AdminLoad(a, s, o)
        PROVE  DocumentStep
    BY <2>1, <1>a DEF AdminLoad, DocumentStep, Calm, Same
  <2>2. CASE Connect(a)
    BY <2>2, <1>a, LeaveCalm DEF Connect, DocumentStep, InHandSteps
  <2>3. CASE Disconnect(a)
    BY <2>3, <1>a, LeaveCalm DEF Disconnect, DocumentStep, InHandSteps
  <2>4. QED
    BY <1>9, <2>1, <2>2, <2>3 DEF AdminStep
<1>10. QED
  BY <1>1, <1>2, <1>3, <1>4, <1>5, <1>6, <1>7, <1>8, <1>9 DEF Next, Schedule, TriggerSync

--------------------------------------------------------------------------------
(* Files and copies *)

\* A writer about to insert has put its file; a row of the content a writer has
\* in hand was committed after the writer looked for one.
FilesOK ==
  /\ RowHasFile
  /\ \A w \in Writers : pc[w] = "insert" => InHand(w) \in files

CopiesOK ==
  /\ CopiesWereConcurrent
  /\ \A w \in Writers, v \in invoices :
       pc[w] \in {"put", "insert"} /\ v.content = content[w] => <<content[w], v.by, w>> \in rivals

DocumentsInv == TypeInv /\ FilesOK /\ CopiesOK

LEMMA InitDocuments == Init => DocumentsInv
<1> SUFFICES ASSUME Init PROVE FilesOK /\ CopiesOK
  BY InitTypes DEF DocumentsInv
<1>1. \A w \in Writers : pc[w] = "new"
  BY DEF Init, Sessions
<1>2. QED
  BY <1>1 DEF Init, FilesOK, CopiesOK, RowHasFile, CopiesWereConcurrent

LEMMA NextFiles == DocumentsInv /\ [Next]_vars => FilesOK'
<1> SUFFICES ASSUME DocumentsInv, [Next]_vars PROVE FilesOK'
  OBVIOUS
<1> USE DEF DocumentsInv, FilesOK, RowHasFile, InHand
<1>1. CASE Calm
  BY <1>1 DEF Calm, Same, InHandSteps
<1>2. ASSUME NEW w \in Writers, NEW c \in Contents, Checked(w, c) PROVE FilesOK'
  BY <1>2 DEF Checked, OthersSame, Same
<1>3. ASSUME NEW w \in Writers, Stored(w) PROVE FilesOK'
  BY <1>3 DEF Stored, OthersSame, Same
<1>4. ASSUME NEW w \in Writers, Inserted(w) PROVE FilesOK'
  BY <1>4 DEF Inserted, OthersSame, Same
<1>5. ASSUME NEW w \in Writers, Sent(w) PROVE FilesOK'
  BY <1>5 DEF Sent, OthersSame, Same, InHandSteps
<1>6. ASSUME NEW w \in Writers, Ended(w) PROVE FilesOK'
  BY <1>6 DEF Ended, OthersSame, Same, InHandSteps
<1>7. QED
  BY <1>1, <1>2, <1>3, <1>4, <1>5, <1>6, Documents DEF DocumentStep

LEMMA NextCopies == DocumentsInv /\ [Next]_vars => CopiesOK'
<1> SUFFICES ASSUME DocumentsInv, [Next]_vars PROVE CopiesOK'
  OBVIOUS
<1> USE DEF DocumentsInv, CopiesOK, CopiesWereConcurrent
<1>1. CASE Calm
  BY <1>1 DEF Calm, Same, InHandSteps
<1>2. ASSUME NEW w \in Writers, NEW c \in Contents, Checked(w, c) PROVE CopiesOK'
  BY <1>2 DEF Checked, OthersSame, Same, IsDuplicate
<1>3. ASSUME NEW w \in Writers, Stored(w) PROVE CopiesOK'
  BY <1>3 DEF Stored, OthersSame, Same
<1>4. ASSUME NEW w \in Writers, Inserted(w) PROVE CopiesOK'
  <2>1. /\ InHand(w).content = content[w] /\ InHand(w).by = w
        /\ invoices' = invoices \cup {InHand(w)} /\ rivals \subseteq rivals'
    BY <1>4 DEF Inserted, InHand
  <2>2. ASSUME NEW v \in invoices, v.content = content[w]
        PROVE  <<content[w], v.by, w>> \in rivals'
    BY <1>4, <2>1, <2>2 DEF Inserted
  <2>3. CopiesWereConcurrent'
    BY <2>1, <2>2
  <2>4. ASSUME NEW x \in Writers, NEW v \in invoices',
               pc'[x] \in {"put", "insert"}, v.content = content'[x]
        PROVE  <<content'[x], v.by, x>> \in rivals'
    <3>1. x # w /\ pc[x] \in {"put", "insert"} /\ content'[x] = content[x]
      BY <1>4, <2>4 DEF Inserted, OthersSame, Same
    <3>2. CASE v \in invoices
      BY <2>1, <2>4, <3>1, <3>2
    <3>3. CASE v = InHand(w)
      <4>1. x \in InFlight(content[w])
        BY <2>1, <2>4, <3>1, <3>3 DEF InFlight
      <4>2. QED
        BY <1>4, <2>1, <2>4, <3>1, <3>3, <4>1 DEF Inserted
    <3>4. QED
      BY <2>1, <3>2, <3>3
  <2>5. QED
    BY <2>3, <2>4
<1>5. ASSUME NEW w \in Writers, Sent(w) PROVE CopiesOK'
  BY <1>5 DEF Sent, OthersSame, Same, InHandSteps
<1>6. ASSUME NEW w \in Writers, Ended(w) PROVE CopiesOK'
  BY <1>6 DEF Ended, OthersSame, Same, InHandSteps
<1>7. QED
  BY <1>1, <1>2, <1>3, <1>4, <1>5, <1>6, Documents DEF DocumentStep

LEMMA NextDocuments == DocumentsInv /\ [Next]_vars => DocumentsInv'
BY NextTypes, NextFiles, NextCopies DEF DocumentsInv

\* No row without its file, whichever step of whichever writer fails.
THEOREM FilesThere == Spec => []RowHasFile
<1>1. DocumentsInv => RowHasFile
  BY DEF DocumentsInv, FilesOK
<1>2. QED
  BY <1>1, InitDocuments, NextDocuments, PTL DEF Spec

\* A document is copied only by writers that were past their checks together, for
\* any number of syncs, uploads, retries and redeliveries.
THEOREM CopiesConcurrent == Spec => []CopiesWereConcurrent
<1>1. DocumentsInv => CopiesWereConcurrent
  BY DEF DocumentsInv, CopiesOK
<1>2. QED
  BY <1>1, InitDocuments, NextDocuments, PTL DEF Spec

--------------------------------------------------------------------------------
(* Messages that were never sent *)

Unsent == {v \in invoices \ ocr : ~(pc[v.by] = "send" /\ content[v.by] = v.content)}

SendsInv == TypeInv /\ SendsAccounted

LEMMA UnsentFinite == ASSUME TypeInv PROVE IsFiniteSet(Unsent)
<1> DEFINE named == {[content |-> p[1], by |-> p[2]] : p \in Contents \X Writers}
<1>1. IsFiniteSet(Contents \X Writers)
  BY ConstantsAssumption, FS_Product
<1>2. IsFiniteSet(named)
  <2> DEFINE f == [p \in Contents \X Writers |-> [content |-> p[1], by |-> p[2]]]
  <2>1. f \in Surjection(Contents \X Writers, named)
    BY DEF Surjection
  <2>2. QED
    BY <1>1, <2>1, FS_Surjection
<1>3. ASSUME NEW v \in Unsent PROVE v \in named
  <2>1. v \in Document
    BY DEF Unsent, TypeInv, TypeOK
  <2>2. /\ <<v.content, v.by>> \in Contents \X Writers
        /\ v = [content |-> <<v.content, v.by>>[1], by |-> <<v.content, v.by>>[2]]
    BY <2>1 DEF Document
  <2>3. QED
    BY <2>2
<1>4. QED
  BY <1>2, <1>3, FS_Subset

\* Only a fault leaves one message more behind.
LEMMA UnsentGrows ==
  ASSUME TypeInv, TypeInv', [Next]_vars
  PROVE  \/ Unsent' \subseteq Unsent /\ faults' = faults
         \/ faults' = faults + 1 /\ \E v : Unsent' \subseteq Unsent \cup {v}
<1>a. /\ \A v \in invoices : v.by \in Writers /\ v = [content |-> v.content, by |-> v.by]
      /\ \A v \in invoices' : v.by \in Writers /\ v = [content |-> v.content, by |-> v.by]
  BY DEF TypeInv, TypeOK, Document
<1>1. CASE Calm
  BY <1>1, <1>a DEF Calm, Same, InHandSteps, Unsent
<1>2. ASSUME NEW w \in Writers, NEW c \in Contents, Checked(w, c)
      PROVE  Unsent' \subseteq Unsent /\ faults' = faults
  BY <1>2, <1>a DEF Checked, OthersSame, Same, InHandSteps, Unsent
<1>3. ASSUME NEW w \in Writers, Stored(w) PROVE Unsent' \subseteq Unsent /\ faults' = faults
  BY <1>3, <1>a DEF Stored, OthersSame, Same, Unsent
<1>4. ASSUME NEW w \in Writers, Inserted(w) PROVE Unsent' \subseteq Unsent /\ faults' = faults
  BY <1>4, <1>a DEF Inserted, OthersSame, Same, Unsent, InHand
<1>5. ASSUME NEW w \in Writers, Sent(w) PROVE Unsent' \subseteq Unsent /\ faults' = faults
  BY <1>5, <1>a DEF Sent, OthersSame, Same, Unsent, InHand
<1>6. ASSUME NEW w \in Writers, Ended(w)
      PROVE  faults' = faults + 1 /\ Unsent' \subseteq Unsent \cup {InHand(w)}
  BY <1>6, <1>a DEF Ended, OthersSame, Same, Unsent, InHand
<1>7. QED
  BY <1>1, <1>2, <1>3, <1>4, <1>5, <1>6, Documents DEF DocumentStep, Calm

LEMMA NextSends == SendsInv /\ [Next]_vars => SendsInv'
<1> SUFFICES ASSUME SendsInv, [Next]_vars PROVE SendsInv'
  OBVIOUS
<1>1. TypeInv /\ TypeInv' /\ Cardinality(Unsent) <= faults
  BY NextTypes DEF SendsInv, SendsAccounted, Unsent
<1>2. /\ IsFiniteSet(Unsent) /\ IsFiniteSet(Unsent')
      /\ Cardinality(Unsent) \in Nat /\ Cardinality(Unsent') \in Nat
      /\ faults \in Nat
  <2>1. IsFiniteSet(Unsent)
    BY <1>1, UnsentFinite
  <2>2. IsFiniteSet(Unsent)'
    BY <1>1, UnsentFinite, PTL
  <2>3. QED
    BY <1>1, <2>1, <2>2, FS_CardinalityType DEF TypeInv, TypeOK
<1>3. CASE Unsent' \subseteq Unsent /\ faults' = faults
  <2>1. Cardinality(Unsent') <= Cardinality(Unsent)
    BY <1>2, <1>3, FS_Subset
  <2>2. Cardinality(Unsent') <= faults'
    BY <1>1, <1>2, <1>3, <2>1
  <2>3. QED
    BY <1>1, <2>2 DEF SendsInv, SendsAccounted, Unsent
<1>4. CASE faults' = faults + 1 /\ \E v : Unsent' \subseteq Unsent \cup {v}
  <2>1. PICK v : Unsent' \subseteq Unsent \cup {v}
    BY <1>4
  <2>2. IsFiniteSet(Unsent \cup {v}) /\ Cardinality(Unsent \cup {v}) <= Cardinality(Unsent) + 1
    <3>1. CASE v \in Unsent
      <4>1. Unsent \cup {v} = Unsent
        BY <3>1
      <4>2. QED
        BY <1>2, <4>1
    <3>2. CASE v \notin Unsent
      <4>1. /\ IsFiniteSet(Unsent \cup {v})
            /\ Cardinality(Unsent \cup {v}) = Cardinality(Unsent) + 1
        BY <1>2, <3>2, FS_AddElement
      <4>2. QED
        BY <1>2, <4>1
    <3>3. QED
      BY <3>1, <3>2
  <2>3. Cardinality(Unsent') <= Cardinality(Unsent \cup {v}) /\ Cardinality(Unsent \cup {v}) \in Nat
    BY <2>1, <2>2, FS_Subset, FS_CardinalityType
  <2>4. Cardinality(Unsent') <= faults'
    BY <1>1, <1>2, <1>4, <2>2, <2>3
  <2>5. QED
    BY <1>1, <2>4 DEF SendsInv, SendsAccounted, Unsent
<1>5. QED
  BY <1>1, <1>3, <1>4, UnsentGrows

LEMMA InitSends == Init => SendsInv
<1> SUFFICES ASSUME Init PROVE SendsAccounted
  BY InitTypes DEF SendsInv
<1>1. Unsent = {} /\ faults = 0
  BY DEF Init, Unsent
<1>2. QED
  BY <1>1, FS_EmptySet DEF SendsAccounted, Unsent

\* One fault costs at most one OCR message, for any number of writers.
THEOREM SendsCounted == Spec => []SendsAccounted
<1>1. SendsInv => SendsAccounted
  BY DEF SendsInv
<1>2. QED
  BY <1>1, InitSends, NextSends, PTL DEF Spec

--------------------------------------------------------------------------------
(* Disconnections *)

\* A sync works on a source it found active, and does not touch the cursor of its
\* object before the end.
SnapshotsOK ==
  \A t \in Syncs : pc[t] \in Syncing =>
    /\ seen[t].is_active /\ draft[t].is_active
    /\ seen[t].last_sync_at = draft[t].last_sync_at

SnapshotsInv == TypeInv /\ SnapshotsOK

\* A sync that goes on with the objects it has, or is not in its transaction
Kept(t) ==
  \/ pc'[t] \notin Syncing
  \/ pc[t] \in Syncing /\ seen'[t] = seen[t] /\ draft'[t] = draft[t]

LEMMA NextSnapshots == SnapshotsInv /\ [Next]_vars => SnapshotsOK'
<1> SUFFICES ASSUME SnapshotsInv, [Next]_vars PROVE SnapshotsOK'
  OBVIOUS
<1> USE DEF database, work, Kept
<1>a. /\ pc \in [Sessions -> Steps] /\ seen \in [Sessions -> SourceRow \cup {None}]
      /\ draft \in [Sessions -> SourceRow \cup {None}]
      /\ Writers \subseteq Sessions /\ Syncs \subseteq Writers /\ Uploads \subseteq Writers
      /\ Admins \cap Writers = {} /\ Admins \subseteq Sessions /\ Syncs \cap Uploads = {}
      /\ TypeInv /\ SnapshotsOK
      /\ {"queued", "failing", "done"} \subseteq Steps
  BY ConstantsAssumption DEF SnapshotsInv, TypeInv, TypeOK, Steps, Sessions, Writers
<1>b. (\A t \in Syncs : Kept(t)) => SnapshotsOK'
  BY <1>a DEF SnapshotsOK
<1>c. ASSUME NEW x \in Sessions, NEW step \in {"queued", "failing", "done"}, Leave(x, step)
      PROVE  \A t \in Syncs : Kept(t)
  BY <1>a, <1>c, LeaveOK DEF Syncing
<1>1. CASE UNCHANGED vars
  BY <1>1, <1>b DEF vars
<1>2. CASE Tick
  BY <1>2, <1>b DEF Tick
<1>3. ASSUME NEW i \in Items, Receive(i) PROVE SnapshotsOK'
  BY <1>3, <1>b DEF Receive
<1>4. ASSUME NEW t \in Syncs, NEW s \in Sources, Publish(t, s) PROVE SnapshotsOK'
  BY <1>4, <1>a, <1>b DEF Publish, Syncing
<1>5. ASSUME NEW t \in Syncs, SyncStep(t) PROVE SnapshotsOK'
  <2>1. CASE Inactive(t) \/ ListUnauthorized(t) \/ ListFails(t) \/ Finish(t)
    BY <2>1, <1>a, <1>b, <1>c DEF Inactive, ListUnauthorized, ListFails, Finish
  <2>2. CASE Start(t)
    BY <2>2, <1>a DEF Start, SnapshotsOK, Syncing
  <2>3. CASE Refresh(t)
    <3>1. draft[t] \in SourceRow
      BY <2>3, <1>a DEF Refresh, TypeInv, SessionsOK, Syncing
    <3>2. draft'[t].is_active = draft[t].is_active /\ draft'[t].last_sync_at = draft[t].last_sync_at
      BY <2>3, <1>a, <3>1 DEF Refresh, SourceRow
    <3>3. QED
      BY <2>3, <1>a, <3>2 DEF Refresh, SnapshotsOK
  <2>4. CASE List(t)
    BY <2>4, <1>a, <1>b DEF List, Syncing
  <2>5. CASE RecordFailure(t)
    BY <2>5, <1>a, <1>b DEF RecordFailure, Syncing
  <2>6. ASSUME NEW i \in Items, FetchFails(t, i) \/ Fetch(t, i) PROVE SnapshotsOK'
    BY <2>6, <1>a, <1>b DEF FetchFails, Fetch, Syncing
  <2>7. CASE Put(t) \/ Enqueue(t)
    BY <2>7, <1>a, <1>b DEF Put, Enqueue, Syncing
  <2>8. CASE Insert(t)
    BY <2>8, <1>a DEF Insert, SnapshotsOK, Syncing
  <2>9. QED
    BY <1>5, <2>1, <2>2, <2>3, <2>4, <2>5, <2>6, <2>7, <2>8 DEF SyncStep
<1>6. ASSUME NEW t \in Syncs, Crash(t) PROVE SnapshotsOK'
  BY <1>6, <1>a, <1>b, <1>c DEF Crash
<1>7. ASSUME NEW w \in Writers, Abort(w) PROVE SnapshotsOK'
  BY <1>7, <1>a, <1>b, <1>c DEF Abort
<1>8. ASSUME NEW u \in Uploads, UploadStep(u) PROVE SnapshotsOK'
  <2>1. ASSUME NEW c \in Contents, UploadCheck(u, c) PROVE SnapshotsOK'
    BY <2>1, <1>a, <1>b DEF UploadCheck
  <2>2. CASE Put(u)
    BY <2>2, <1>a, <1>b DEF Put
  <2>3. CASE Insert(u)
    BY <2>3, <1>a, <1>b DEF Insert
  <2>4. CASE UploadEnqueue(u)
    BY <2>4, <1>a, <1>b, <1>c DEF UploadEnqueue
  <2>5. QED
    BY <1>8, <2>1, <2>2, <2>3, <2>4 DEF UploadStep
<1>9. ASSUME NEW a \in Admins, AdminStep(a) PROVE SnapshotsOK'
  <2>1. ASSUME NEW s \in Sources, NEW o \in {"connect", "disconnect"}, AdminLoad(a, s, o)
        PROVE  SnapshotsOK'
    BY <2>1, <1>a, <1>b DEF AdminLoad
  <2>2. CASE Connect(a) \/ Disconnect(a)
    BY <2>2, <1>a, <1>b, <1>c DEF Connect, Disconnect
  <2>3. QED
    BY <1>9, <2>1, <2>2 DEF AdminStep
<1>10. QED
  BY <1>1, <1>2, <1>3, <1>4, <1>5, <1>6, <1>7, <1>8, <1>9 DEF Next, Schedule, TriggerSync

LEMMA InitSnapshots == Init => SnapshotsInv
BY InitTypes, ConstantsAssumption DEF Init, SnapshotsInv, SnapshotsOK, Syncing, Sessions, Writers

\* Who a step of the sources may be
Connects(s) == \E a \in Admins : src[a] = s /\ pc[a] = "connect" /\ pc'[a] = "done"

Finishes(s) ==
  \E t \in Syncs : Finish(t) /\ src[t] = s
    /\ (newest[t] # 0 => source'[s].last_sync_at = newest[t])

RowStep(s) ==
  /\ source'[s].is_active /\ ~source[s].is_active => Connects(s)
  /\ source'[s].last_sync_at \in {source[s].last_sync_at, 0} \/ Finishes(s)

\* The commit of an object whose cursor and activity are those that were loaded
LEMMA PlainCommit ==
  ASSUME TypeInv, NEW x \in Sessions, NEW s \in Sources, seen[x] \in SourceRow,
         NEW wanted \in SourceRow, CommitSource(x, s, wanted),
         wanted.last_sync_at = seen[x].last_sync_at,
         wanted.is_active => seen[x].is_active
  PROVE  \A z \in Sources : RowStep(z)
<1>1. /\ source \in [Sources -> SourceRow]
      /\ source' = [source EXCEPT ![s] = Flush(source[s], seen[x], wanted)]
  BY DEF TypeInv, TypeOK, CommitSource
<1>2. /\ source'[s].is_active => source[s].is_active
      /\ source'[s].last_sync_at = source[s].last_sync_at
  BY <1>1, FlushType DEF SourceRow
<1>3. QED
  BY <1>1, <1>2 DEF RowStep

LEMMA RowSteps ==
  ASSUME SnapshotsInv, [Next]_vars
  PROVE  \A s \in Sources : RowStep(s)
<1> USE DEF database
<1>a. /\ source \in [Sources -> SourceRow] /\ TypeInv /\ SnapshotsOK
      /\ Writers \subseteq Sessions /\ Syncs \subseteq Writers /\ Uploads \subseteq Writers
      /\ Admins \subseteq Sessions /\ Syncs \cap Uploads = {} /\ Admins \cap Writers = {}
  BY ConstantsAssumption DEF SnapshotsInv, TypeInv, TypeOK, Sessions, Writers
<1>b. source' = source => \A s \in Sources : RowStep(s)
  BY DEF RowStep
<1>c. ASSUME NEW t \in Syncs, pc[t] \in Syncing
      PROVE  /\ src[t] \in Sources /\ seen[t] \in SourceRow /\ draft[t] \in SourceRow
             /\ seen[t].is_active /\ draft[t].is_active
             /\ seen[t].last_sync_at = draft[t].last_sync_at
  BY <1>a, <1>c DEF TypeInv, SessionsOK, SnapshotsOK
<1>1. CASE UNCHANGED vars
  BY <1>1, <1>b DEF vars
<1>2. CASE Tick
  BY <1>2, <1>b DEF Tick
<1>3. ASSUME NEW i \in Items, Receive(i) PROVE \A s \in Sources : RowStep(s)
  BY <1>3, <1>b DEF Receive
<1>4. ASSUME NEW t \in Syncs, NEW s \in Sources, Publish(t, s) PROVE \A z \in Sources : RowStep(z)
  BY <1>4, <1>b DEF Publish
<1>5. ASSUME NEW t \in Syncs, SyncStep(t) PROVE \A s \in Sources : RowStep(s)
  <2>1. CASE Inactive(t) \/ Start(t) \/ Refresh(t) \/ List(t) \/ ListFails(t)
             \/ Put(t) \/ Enqueue(t)
    BY <2>1, <1>b DEF Inactive, Start, Refresh, List, ListFails, Put, Enqueue
  <2>2. ASSUME NEW i \in Items, FetchFails(t, i) \/ Fetch(t, i) PROVE source' = source
    BY <2>2 DEF FetchFails, Fetch
  <2>3. CASE ListUnauthorized(t)
    <3> DEFINE off == [draft[t] EXCEPT !.is_active = FALSE, !.last_error = "auth_failed"]
    <3>1. pc[t] \in Syncing /\ CommitSource(t, src[t], off)
      BY <2>3 DEF ListUnauthorized, Paging, Syncing
    <3>2. t \in Sessions /\ draft[t] \in SourceRow
      BY <3>1, <1>a, <1>c
    <3>3. off \in SourceRow
      BY <3>2, RowTypes
    <3>4. off.last_sync_at = draft[t].last_sync_at /\ off.is_active = FALSE
      BY <3>2 DEF SourceRow
    <3> HIDE DEF off
    <3>5. QED
      BY <3>1, <3>2, <3>3, <3>4, <1>a, <1>c, PlainCommit
  <2>4. CASE RecordFailure(t)
    <3>1. /\ src[t] \in Sources
          /\ source' = [source EXCEPT ![src[t]] = [source[src[t]] EXCEPT !.last_error = "sync_failed"]]
      BY <2>4, <1>a DEF RecordFailure, TypeInv, SessionsOK
    <3>2. QED
      BY <3>1, <1>a DEF RowStep, SourceRow
  <2>5. CASE Insert(t)
    <3>1. pc[t] \in Syncing /\ CommitSource(t, src[t], draft[t])
      BY <2>5 DEF Insert, Syncing
    <3>2. QED
      BY <3>1, <1>a, <1>c, PlainCommit
  <2>6. CASE Finish(t)
    <3> DEFINE time == IF newest[t] # 0 THEN newest[t] ELSE now
    <3> DEFINE end == [draft[t] EXCEPT !.last_sync_at = time, !.last_error = "none"]
    <3>1. pc[t] \in Syncing /\ source' = [source EXCEPT ![src[t]] = Flush(source[src[t]], seen[t], end)]
      BY <2>6 DEF Finish, CommitSource, Syncing
    <3>2. time \in 0..MaxTime
      BY <1>a, ConstantsAssumption DEF TypeInv, TypeOK
    <3>3. end \in SourceRow /\ end.last_sync_at = time /\ end.is_active = draft[t].is_active
      <4> HIDE DEF time
      <4>1. QED
        BY <3>1, <3>2, <1>c, CursorType DEF SourceRow
    <3> HIDE DEF end
    <3>4. /\ source'[src[t]].is_active = source[src[t]].is_active
          /\ source'[src[t]].last_sync_at \in {source[src[t]].last_sync_at, time}
          /\ source'[src[t]].last_sync_at # time => time = seen[t].last_sync_at
      BY <3>1, <3>3, <1>a, <1>c, FlushType DEF SourceRow
    <3>5. ASSUME NEW s \in Sources, s # src[t] PROVE RowStep(s)
      BY <3>1, <3>5, <1>a, <1>c DEF RowStep
    <3>6. RowStep(src[t])
      <4>1. CASE source'[src[t]].last_sync_at = source[src[t]].last_sync_at
        BY <3>4, <4>1 DEF RowStep
      <4>2. CASE source'[src[t]].last_sync_at = time
        BY <2>6, <3>4, <4>2 DEF RowStep, Finishes
      <4>3. QED
        BY <3>4, <4>1, <4>2
    <3>7. QED
      BY <3>5, <3>6
  <2>7. QED
    BY <1>5, <1>b, <2>1, <2>2, <2>3, <2>4, <2>5, <2>6 DEF SyncStep
<1>6. ASSUME NEW t \in Syncs, Crash(t) PROVE source' = source
  BY <1>6 DEF Crash
<1>7. ASSUME NEW w \in Writers, Abort(w) PROVE source' = source
  BY <1>7 DEF Abort
<1>8. ASSUME NEW u \in Uploads, UploadStep(u) PROVE source' = source
  BY <1>8, <1>a DEF UploadStep, UploadCheck, Put, Insert, UploadEnqueue
<1>9. ASSUME NEW a \in Admins, AdminStep(a) PROVE \A s \in Sources : RowStep(s)
  <2>1. ASSUME NEW s \in Sources, NEW o \in {"connect", "disconnect"}, AdminLoad(a, s, o)
        PROVE  source' = source
    BY <2>1 DEF AdminLoad
  <2>2. CASE Connect(a)
    <3>1. /\ src[a] \in Sources /\ pc[a] = "connect" /\ pc'[a] = "done"
          /\ seen[a] \in SourceRow \cup {None} /\ a \in Sessions
      BY <2>2, <1>a DEF Connect, Leave, TypeInv, TypeOK, SessionsOK
    <3>2. Connects(src[a])
      BY <3>1 DEF Connects
    <3>3. CASE seen[a] = None
      <4>1. source' = source \/
              source' = [source EXCEPT ![src[a]] =
                [is_active |-> TRUE, token |-> a, last_sync_at |-> 0, last_error |-> "none"]]
        BY <2>2, <3>3 DEF Connect
      <4>2. QED
        BY <4>1, <3>1, <3>2, <1>a, <1>b DEF RowStep
    <3>4. CASE seen[a] # None
      <4> DEFINE on == [seen[a] EXCEPT !.token = a, !.is_active = TRUE, !.last_error = "none"]
      <4>1. source' = [source EXCEPT ![src[a]] = Flush(source[src[a]], seen[a], on)]
        BY <2>2, <3>4 DEF Connect, CommitSource
      <4>2. on \in SourceRow /\ on.last_sync_at = seen[a].last_sync_at
        BY <3>1, <3>4, RowTypes DEF SourceRow
      <4> HIDE DEF on
      <4>3. source'[src[a]].last_sync_at = source[src[a]].last_sync_at
        BY <4>1, <4>2, <3>1, <3>4, <1>a, FlushType
      <4>4. QED
        BY <4>1, <4>3, <3>1, <3>2, <1>a DEF RowStep
    <3>5. QED
      BY <3>3, <3>4
  <2>3. CASE Disconnect(a)
    <3> DEFINE off == [seen[a] EXCEPT !.token = None, !.is_active = FALSE]
    <3>1. /\ src[a] \in Sources /\ seen[a] \in SourceRow /\ a \in Sessions
          /\ CommitSource(a, src[a], off)
      BY <2>3, <1>a DEF Disconnect, TypeInv, SessionsOK
    <3>2. off \in SourceRow
      BY <3>1, RowTypes
    <3>3. off.last_sync_at = seen[a].last_sync_at /\ off.is_active = FALSE
      BY <3>1 DEF SourceRow
    <3> HIDE DEF off
    <3>4. QED
      BY <3>1, <3>2, <3>3, <1>a, PlainCommit
  <2>4. QED
    BY <1>9, <1>b, <2>1, <2>2, <2>3 DEF AdminStep
<1>10. QED
  BY <1>1, <1>2, <1>3, <1>4, <1>5, <1>6, <1>7, <1>8, <1>9, <1>b DEF Next, Schedule, TriggerSync

LEMMA NextSnapshotsInv == SnapshotsInv /\ [Next]_vars => SnapshotsInv'
BY NextTypes, NextSnapshots DEF SnapshotsInv

\* Only a reconnection switches a source on, whatever syncs run.
THEOREM Disconnected == Spec => DisconnectHolds
<1>1. SnapshotsInv /\ [Next]_vars =>
        [\A s \in Sources :
           source'[s].is_active /\ ~source[s].is_active =>
             \E a \in Admins : src[a] = s /\ pc[a] = "connect" /\ pc'[a] = "done"]_vars
  BY RowSteps DEF RowStep, Connects
<1>2. QED
  BY <1>1, InitSnapshots, NextSnapshotsInv, PTL DEF Spec, DisconnectHolds

--------------------------------------------------------------------------------
(* The cursor of Gmail *)

Settled(i) == Ingested(i) \/ i \in reported

\* What a sync of Gmail still has before it
Pending(t, i) ==
  \/ pc[t] = "listing" /\ seen[t].last_sync_at = 0
  \/ pc[t] # "listing" /\ i \in todo[t]
  \/ pc[t] \in {"put", "insert"} /\ content[t] = ContentOf[i]

\* A document before the cursor a sync will write is settled, or the sync has it
\* before it.
SyncCovers(t) ==
  pc[t] \in Syncing /\ src[t] \in Gmail =>
    /\ newest[t] \in 1..now
    /\ \A i \in Items :
         SourceOf[i] = src[t] /\ received[i] # 0 /\ received[i] < newest[t]
           => Settled(i) \/ Pending(t, i)

CursorInv ==
  /\ SnapshotsInv /\ GmailCursorIsSafe
  /\ \A s \in Gmail : source[s].last_sync_at <= now
  /\ \A t \in Syncs : SyncCovers(t)

\* What every step does to the time, the arrivals and the results
Grows ==
  /\ now \in Nat /\ now' \in Nat /\ now <= now'
  /\ invoices \subseteq invoices' /\ reported \subseteq reported'
  /\ \A i \in Items : received'[i] = received[i] \/ (received[i] = 0 /\ received'[i] = now)

\* A sync that is out of its transaction, or goes on as it was
Rests(t) ==
  \/ pc'[t] \notin Syncing
  \/ /\ pc'[t] = pc[t] /\ src'[t] = src[t] /\ seen'[t] = seen[t]
     /\ todo'[t] = todo[t] /\ listed'[t] = listed[t]
     /\ content'[t] = content[t] /\ newest'[t] = newest[t]

Moves(t) ==
  \/ Start(t) \/ List(t) \/ Put(t) \/ Insert(t) \/ Enqueue(t)
  \/ \E i \in Items : FetchFails(t, i) \/ Fetch(t, i)

LEMMA Growth ==
  ASSUME TypeInv, [Next]_vars
  PROVE  Grows
<1> USE DEF database, work, Grows
<1>a. /\ now \in Nat /\ received \in [Items -> 0..MaxTime] /\ TypeInv
      /\ Writers \subseteq Sessions /\ Syncs \subseteq Writers /\ Uploads \subseteq Writers
  BY ConstantsAssumption DEF TypeInv, TypeOK, Sessions, Writers
<1>b. UNCHANGED <<now, received>> /\ invoices \subseteq invoices' /\ reported \subseteq reported'
        => Grows
  BY <1>a
<1>1. CASE UNCHANGED vars
  BY <1>1, <1>b DEF vars
<1>2. CASE Tick
  BY <1>2, <1>a DEF Tick
<1>3. ASSUME NEW i \in Items, Receive(i) PROVE Grows
  BY <1>3, <1>a DEF Receive
<1>4. ASSUME NEW t \in Syncs, NEW s \in Sources, Publish(t, s) PROVE Grows
  BY <1>4, <1>b DEF Publish
<1>5. ASSUME NEW t \in Syncs, SyncStep(t) PROVE Grows
  <2>1. CASE Inactive(t) \/ Start(t) \/ Refresh(t) \/ List(t) \/ ListUnauthorized(t)
             \/ ListFails(t) \/ RecordFailure(t)
    BY <2>1, <1>b DEF Inactive, Start, Refresh, List, ListUnauthorized, ListFails, RecordFailure
  <2>2. ASSUME NEW i \in Items, FetchFails(t, i) \/ Fetch(t, i) PROVE Grows
    BY <2>2, <1>b DEF FetchFails, Fetch
  <2>3. CASE Put(t) \/ Insert(t) \/ Enqueue(t) \/ Finish(t)
    BY <2>3, <1>b DEF Put, Insert, Enqueue, Finish
  <2>4. QED
    BY <1>5, <2>1, <2>2, <2>3 DEF SyncStep
<1>6. ASSUME NEW t \in Syncs, Crash(t) PROVE Grows
  BY <1>6, <1>b DEF Crash
<1>7. ASSUME NEW w \in Writers, Abort(w) PROVE Grows
  BY <1>7, <1>b DEF Abort
<1>8. ASSUME NEW u \in Uploads, UploadStep(u) PROVE Grows
  BY <1>8, <1>b DEF UploadStep, UploadCheck, Put, Insert, UploadEnqueue
<1>9. ASSUME NEW a \in Admins, AdminStep(a) PROVE Grows
  BY <1>9, <1>b DEF AdminStep, AdminLoad, Connect, Disconnect
<1>10. QED
  BY <1>1, <1>2, <1>3, <1>4, <1>5, <1>6, <1>7, <1>8, <1>9 DEF Next, Schedule, TriggerSync

LEMMA SyncMoves ==
  ASSUME TypeInv, [Next]_vars
  PROVE  \A t \in Syncs : Rests(t) \/ Moves(t)
<1> USE DEF database, work
<1>a. /\ pc \in [Sessions -> Steps] /\ src \in [Sessions -> Sources \cup {None}]
      /\ seen \in [Sessions -> SourceRow \cup {None}]
      /\ todo \in [Syncs -> SUBSET Items] /\ newest \in [Syncs -> 0..MaxTime]
      /\ listed \in [Syncs -> SUBSET Items]
      /\ content \in [Writers -> Contents \cup {None}]
      /\ Writers \subseteq Sessions /\ Syncs \subseteq Writers /\ Uploads \subseteq Writers
      /\ Admins \cap Writers = {} /\ Admins \subseteq Sessions /\ Syncs \cap Uploads = {}
      /\ TypeInv /\ {"queued", "failing", "done"} \subseteq Steps
  BY ConstantsAssumption DEF TypeInv, TypeOK, Steps, Sessions, Writers
<1>b. UNCHANGED <<pc, src, seen, todo, listed, content, newest>> => \A t \in Syncs : Rests(t)
  BY DEF Rests
<1>c. ASSUME NEW x \in Sessions, NEW step \in {"queued", "failing", "done"}, Leave(x, step),
             src' = src
      PROVE  \A t \in Syncs : Rests(t)
  BY <1>a, <1>c, LeaveOK DEF Rests, Syncing
<1>1. CASE UNCHANGED vars
  BY <1>1, <1>b DEF vars
<1>2. CASE Tick
  BY <1>2, <1>b DEF Tick
<1>3. ASSUME NEW i \in Items, Receive(i) PROVE \A t \in Syncs : Rests(t)
  BY <1>3, <1>b DEF Receive
<1>4. ASSUME NEW t \in Syncs, NEW s \in Sources, Publish(t, s) PROVE \A z \in Syncs : Rests(z)
  BY <1>4, <1>a DEF Publish, Rests, Syncing
<1>5. ASSUME NEW t \in Syncs, SyncStep(t) PROVE \A z \in Syncs : Rests(z) \/ Moves(z)
  <2>1. CASE Inactive(t) \/ ListUnauthorized(t) \/ ListFails(t) \/ Finish(t)
    BY <2>1, <1>a, <1>c DEF Inactive, ListUnauthorized, ListFails, Finish
  <2>2. CASE Start(t) \/ List(t)
    <3>1. Moves(t)
      BY <2>2 DEF Moves
    <3>2. ASSUME NEW z \in Syncs, z # t PROVE Rests(z)
      BY <2>2, <3>2, <1>a DEF Start, List, Rests
    <3>3. QED
      BY <3>1, <3>2
  <2>3. CASE Refresh(t)
    BY <2>3, <1>b DEF Refresh
  <2>4. CASE RecordFailure(t)
    BY <2>4, <1>a DEF RecordFailure, Rests, Syncing
  <2>5. ASSUME NEW i \in Items, FetchFails(t, i) \/ Fetch(t, i)
        PROVE  \A z \in Syncs : Rests(z) \/ Moves(z)
    <3>1. Moves(t)
      BY <2>5 DEF Moves
    <3>2. ASSUME NEW z \in Syncs, z # t PROVE Rests(z)
      BY <2>5, <3>2, <1>a DEF FetchFails, Fetch, Handled, Rests
    <3>3. QED
      BY <3>1, <3>2
  <2>6. CASE Put(t) \/ Insert(t) \/ Enqueue(t)
    <3>1. Moves(t)
      BY <2>6 DEF Moves
    <3>2. ASSUME NEW z \in Syncs, z # t PROVE Rests(z)
      BY <2>6, <3>2, <1>a DEF Put, Insert, Enqueue, Rests
    <3>3. QED
      BY <3>1, <3>2
  <2>7. QED
    BY <1>5, <2>1, <2>2, <2>3, <2>4, <2>5, <2>6 DEF SyncStep
<1>6. ASSUME NEW t \in Syncs, Crash(t) PROVE \A z \in Syncs : Rests(z)
  BY <1>6, <1>a, <1>c DEF Crash
<1>7. ASSUME NEW w \in Writers, Abort(w) PROVE \A z \in Syncs : Rests(z)
  BY <1>7, <1>a, <1>c DEF Abort
<1>8. ASSUME NEW u \in Uploads, UploadStep(u) PROVE \A z \in Syncs : Rests(z)
  <2>1. ASSUME NEW c \in Contents, UploadCheck(u, c) PROVE \A z \in Syncs : Rests(z)
    BY <2>1, <1>a DEF UploadCheck, Rests
  <2>2. CASE Put(u) \/ Insert(u)
    BY <2>2, <1>a DEF Put, Insert, Rests
  <2>3. CASE UploadEnqueue(u)
    BY <2>3, <1>a, <1>c DEF UploadEnqueue
  <2>4. QED
    BY <1>8, <2>1, <2>2, <2>3 DEF UploadStep
<1>9. ASSUME NEW a \in Admins, AdminStep(a) PROVE \A z \in Syncs : Rests(z)
  <2>1. ASSUME NEW s \in Sources, NEW o \in {"connect", "disconnect"}, AdminLoad(a, s, o)
        PROVE  \A z \in Syncs : Rests(z)
    BY <2>1, <1>a DEF AdminLoad, Rests
  <2>2. CASE Connect(a) \/ Disconnect(a)
    BY <2>2, <1>a, <1>c DEF Connect, Disconnect
  <2>3. QED
    BY <1>9, <2>1, <2>2 DEF AdminStep
<1>10. QED
  BY <1>1, <1>2, <1>3, <1>4, <1>5, <1>6, <1>7, <1>8, <1>9 DEF Next, Schedule, TriggerSync

\* A sync keeps before it what its own step does not settle.
LEMMA Covering ==
  ASSUME CursorInv, Grows, NEW t \in Syncs, Rests(t) \/ Moves(t)
  PROVE  SyncCovers(t)'
<1>a. /\ pc \in [Sessions -> Steps] /\ src \in [Sessions -> Sources \cup {None}]
      /\ seen \in [Sessions -> SourceRow \cup {None}] /\ received \in [Items -> 0..MaxTime]
      /\ source \in [Sources -> SourceRow] /\ now \in 1..MaxTime
      /\ todo \in [Syncs -> SUBSET Items] /\ newest \in [Syncs -> 0..MaxTime]
      /\ content \in [Writers -> Contents \cup {None}] /\ t \in Writers /\ t \in Sessions
      /\ ContentOf \in [Items -> Contents]
  BY ConstantsAssumption DEF CursorInv, SnapshotsInv, TypeInv, TypeOK, Steps, Sessions, Writers
<1>b. SyncCovers(t) /\ GmailCursorIsSafe /\ \A s \in Gmail : source[s].last_sync_at <= now
  BY DEF CursorInv
<1>c. ASSUME NEW i \in Items, Settled(i) PROVE Settled(i)'
  BY <1>c DEF Settled, Ingested, IsDuplicate, Grows
<1>d. ASSUME NEW i \in Items, received'[i] # 0, NEW n \in 0..now, received'[i] < n
      PROVE  received[i] = received'[i]
  BY <1>a, <1>d DEF Grows
<1>1. CASE pc'[t] \notin Syncing
  BY <1>1 DEF SyncCovers
<1>2. CASE pc'[t] \in Syncing /\ Rests(t)
  BY <1>2, <1>a, <1>b, <1>c, <1>d DEF SyncCovers, Rests, Pending, Grows
<1>3. CASE Start(t)
  <2>1. /\ pc'[t] = "listing" /\ src' = src /\ seen'[t] = source[src[t]]
        /\ UNCHANGED <<now, received, invoices, reported>>
    BY <1>3, <1>a DEF Start, database
  <2>2. SUFFICES ASSUME src[t] \in Gmail PROVE SyncCovers(t)'
    BY <2>1 DEF SyncCovers
  <2>3. src[t] \in Sources /\ source[src[t]].last_sync_at \in 0..now
    BY <2>2, <1>a, <1>b DEF Sources, SourceRow
  <2>4. newest'[t] = IF source[src[t]].last_sync_at # 0 THEN source[src[t]].last_sync_at ELSE now
    BY <1>3, <2>2, <1>a DEF Start
  <2>5. newest'[t] \in 1..now
    BY <2>3, <2>4, <1>a
  <2>6. ASSUME NEW i \in Items, SourceOf[i] = src[t], received[i] # 0, received[i] < newest'[t]
        PROVE  Settled(i) \/ Pending(t, i)'
    <3>1. CASE source[src[t]].last_sync_at = 0
      BY <2>1, <3>1 DEF Pending
    <3>2. CASE source[src[t]].last_sync_at # 0
      BY <2>2, <2>4, <2>6, <3>2, <1>b DEF GmailCursorIsSafe, Settled
    <3>3. QED
      BY <3>1, <3>2
  <2>7. QED
    BY <2>1, <2>5, <2>6, <1>c DEF SyncCovers
<1>4. CASE List(t)
  <2>1. /\ pc[t] = "listing" /\ pc'[t] = "next" /\ src' = src /\ newest' = newest
        /\ todo'[t] = Listing(src[t], seen[t].last_sync_at)
        /\ UNCHANGED <<now, received, invoices, reported>>
    <3>1. listed'[t] = Listing(src[t], seen[t].last_sync_at)
      BY <1>4 DEF List, TypeOK, CursorInv, SnapshotsInv, TypeInv
    <3>2. QED
      BY <1>4, <3>1, <1>a DEF List, database
  <2>2. ASSUME NEW i \in Items, SourceOf[i] = src[t], received[i] # 0, Pending(t, i)
        PROVE  Pending(t, i)'
    BY <2>1, <2>2 DEF Pending, Listing
  <2>3. QED
    BY <2>1, <2>2, <1>b, <1>c DEF SyncCovers, Syncing
<1>5. ASSUME NEW j \in Items, FetchFails(t, j) \/ Fetch(t, j) PROVE SyncCovers(t)'
  <2>1. /\ pc[t] = "next" /\ src' = src /\ todo'[t] = todo[t] \ {j}
        /\ src[t] \in Gmail => newest'[t] = newest[t]
        /\ UNCHANGED <<now, received>>
    BY <1>5, <1>a DEF FetchFails, Fetch, Handled, database
  <2>2. Settled(j)' \/ Pending(t, j)'
    <3>1. CASE FetchFails(t, j)
      BY <3>1 DEF FetchFails, Settled
    <3>2. CASE Fetch(t, j) /\ Ingested(j)
      BY <3>2, <1>c DEF Settled
    <3>3. CASE Fetch(t, j) /\ ~Ingested(j)
      BY <3>3, <1>a DEF Fetch, Ingested, Pending
    <3>4. QED
      BY <1>5, <3>1, <3>2, <3>3
  <2>3. ASSUME NEW i \in Items, i # j, Pending(t, i)
        PROVE  Pending(t, i)'
    <3>1. pc'[t] # "listing"
      BY <1>5, <1>a DEF FetchFails, Fetch
    <3>2. QED
      BY <2>1, <2>3, <3>1 DEF Pending
  <2>4. QED
    BY <2>1, <2>2, <2>3, <1>b, <1>c DEF SyncCovers, Syncing
<1>6. CASE Put(t) \/ Insert(t) \/ Enqueue(t)
  <2>1. /\ pc[t] \in {"put", "insert", "send"} /\ pc'[t] \in {"insert", "send", "next"}
        /\ src' = src /\ todo' = todo /\ newest' = newest
        /\ UNCHANGED <<now, received>>
    BY <1>6, <1>a DEF Put, Insert, Enqueue, work, database
  <2>2. ASSUME NEW i \in Items, Pending(t, i) PROVE Settled(i)' \/ Pending(t, i)'
    <3>1. CASE i \in todo[t]
      BY <2>1, <3>1 DEF Pending
    <3>2. CASE Put(t) /\ content[t] = ContentOf[i]
      BY <3>2, <1>a DEF Put, Pending, work
    <3>3. CASE Insert(t) /\ content[t] = ContentOf[i]
      <4>1. InHand(t) \in invoices' /\ InHand(t).content = ContentOf[i]
        BY <3>3 DEF Insert, InHand
      <4>2. QED
        BY <4>1 DEF Settled, Ingested, IsDuplicate
    <3>4. CASE Enqueue(t)
      BY <2>1, <2>2, <3>1, <3>4 DEF Enqueue, Pending
    <3>5. QED
      BY <1>6, <2>1, <2>2, <3>1, <3>2, <3>3, <3>4 DEF Pending
  <2>3. QED
    BY <2>1, <2>2, <1>b, <1>c DEF SyncCovers, Syncing
<1>7. QED
  BY <1>1, <1>2, <1>3, <1>4, <1>5, <1>6 DEF Moves

\* The cursor a sync of Gmail ends with is covered.
LEMMA CursorMoves ==
  ASSUME CursorInv, Grows, \A s \in Sources : RowStep(s)
  PROVE  GmailCursorIsSafe' /\ \A s \in Gmail : source'[s].last_sync_at <= now'
<1>a. /\ source \in [Sources -> SourceRow] /\ received \in [Items -> 0..MaxTime]
      /\ now \in 1..MaxTime /\ Gmail \subseteq Sources
      /\ newest \in [Syncs -> 0..MaxTime]
  BY DEF CursorInv, SnapshotsInv, TypeInv, TypeOK, Sources
<1>b. ASSUME NEW i \in Items, Settled(i) PROVE Settled(i)'
  BY <1>b DEF Settled, Ingested, IsDuplicate, Grows
<1>1. ASSUME NEW s \in Gmail
      PROVE  /\ source'[s].last_sync_at \in 0..now
             /\ \A i \in Items :
                  SourceOf[i] = s /\ received[i] # 0 /\ received[i] < source'[s].last_sync_at
                    => Settled(i)
  <2>1. source[s].last_sync_at \in 0..now
    BY <1>a DEF CursorInv, SourceRow
  <2>2. CASE source'[s].last_sync_at = source[s].last_sync_at
    BY <2>1, <2>2 DEF CursorInv, GmailCursorIsSafe, Settled
  <2>3. CASE source'[s].last_sync_at = 0
    BY <2>3, <1>a
  <2>4. CASE Finishes(s)
    <3>1. PICK t \in Syncs : /\ Finish(t) /\ src[t] = s
                             /\ newest[t] # 0 => source'[s].last_sync_at = newest[t]
      BY <2>4 DEF Finishes
    <3>2. pc[t] = "next" /\ todo[t] = {} /\ SyncCovers(t)
      BY <3>1 DEF Finish, CursorInv
    <3>3. newest[t] \in 1..now
      BY <3>1, <3>2 DEF SyncCovers, Syncing
    <3>4. ASSUME NEW i \in Items PROVE ~Pending(t, i)
      BY <3>2 DEF Pending
    <3>5. QED
      BY <3>1, <3>2, <3>3, <3>4, <1>a DEF SyncCovers, Syncing
  <2>5. QED
    BY <1>a, <2>2, <2>3, <2>4 DEF RowStep
<1>2. ASSUME NEW i \in Items, SourceOf[i] \in Gmail, received'[i] # 0,
             received'[i] < source'[SourceOf[i]].last_sync_at
      PROVE  Settled(i)'
  <2>1. received'[i] = received[i]
    BY <1>1, <1>2, <1>a DEF Grows
  <2>2. QED
    BY <1>1, <1>2, <1>b, <2>1
<1>3. GmailCursorIsSafe'
  BY <1>2 DEF GmailCursorIsSafe, Settled
<1>4. \A s \in Gmail : source'[s].last_sync_at <= now'
  BY <1>1 DEF Grows
<1>5. QED
  BY <1>3, <1>4

LEMMA NextCursor == CursorInv /\ [Next]_vars => CursorInv'
<1> SUFFICES ASSUME CursorInv, [Next]_vars PROVE CursorInv'
  OBVIOUS
<1>1. SnapshotsInv /\ TypeInv
  BY DEF CursorInv, SnapshotsInv
<1>2. Grows /\ (\A t \in Syncs : Rests(t) \/ Moves(t)) /\ (\A s \in Sources : RowStep(s))
  BY <1>1, Growth, SyncMoves, RowSteps
<1>3. \A t \in Syncs : SyncCovers(t)'
  BY <1>2, Covering
<1>4. QED
  BY <1>1, <1>2, <1>3, CursorMoves, NextSnapshotsInv DEF CursorInv

LEMMA InitCursor == Init => CursorInv
<1> SUFFICES ASSUME Init PROVE CursorInv
  OBVIOUS
<1>1. GmailCursorIsSafe /\ \A s \in Gmail : source[s].last_sync_at <= now
  BY DEF Init, GmailCursorIsSafe, Sources
<1>2. \A t \in Syncs : SyncCovers(t)
  BY DEF Init, SyncCovers, Syncing, Sessions, Writers
<1>3. QED
  BY <1>1, <1>2, InitSnapshots DEF CursorInv

\* No document of a Gmail account is behind the cursor without being an invoice or
\* in an error report, for any number of overlapping, failing and dying syncs.
THEOREM GmailCursorSafe == Spec => []GmailCursorIsSafe
<1>1. CursorInv => GmailCursorIsSafe
  BY DEF CursorInv
<1>2. QED
  BY <1>1, InitCursor, NextCursor, PTL DEF Spec

--------------------------------------------------------------------------------
(* What the cursor passes *)

Listed == {"next", "put", "insert", "send"}

\* What a sync has listed and no longer has before it is settled, or in hand; what
\* it has not listed came when it had listed, in the second of the newest at most;
\* newest_received is set when the first document has been handled.
ListingOK(t) ==
  /\ pc[t] \in Syncing => newest[t] <= now
  /\ pc[t] \in Listed =>
       /\ todo[t] \subseteq listed[t]
       /\ newest[t] = 0 => todo[t] = listed[t] \/ src[t] \in Gmail
       /\ \A i \in listed[t] :
            /\ received[i] # 0
            /\ i \in todo[t] \/ Settled(i)
               \/ (pc[t] \in {"put", "insert"} /\ content[t] = ContentOf[i])
       /\ \A i \in Items \ listed[t] :
            SourceOf[i] = src[t] /\ received[i] > seen[t].last_sync_at =>
              /\ newest[t] <= received[i]
              /\ \A j \in listed[t] : received[j] <= received[i]

ArrivalsOK == \A i \in Items : received[i] <= now

ListingInv == CursorInv /\ ArrivalsOK /\ \A t \in Syncs : ListingOK(t)

LEMMA InitListing == Init => ListingInv
BY InitCursor DEF Init, ListingInv, ArrivalsOK, ListingOK, Listed, Syncing, Sessions, Writers

LEMMA NextListingOf ==
  ASSUME ListingInv, Grows, NEW t \in Syncs, Rests(t) \/ Moves(t)
  PROVE  ListingOK(t)'
<1>a. /\ pc \in [Sessions -> Steps] /\ src \in [Sessions -> Sources \cup {None}]
      /\ seen \in [Sessions -> SourceRow \cup {None}] /\ received \in [Items -> 0..MaxTime]
      /\ source \in [Sources -> SourceRow] /\ now \in 1..MaxTime
      /\ draft \in [Sessions -> SourceRow \cup {None}]
      /\ todo \in [Syncs -> SUBSET Items] /\ newest \in [Syncs -> 0..MaxTime]
      /\ listed \in [Syncs -> SUBSET Items]
      /\ content \in [Writers -> Contents \cup {None}] /\ t \in Writers /\ t \in Sessions
      /\ ContentOf \in [Items -> Contents]
  BY ConstantsAssumption
     DEF ListingInv, CursorInv, SnapshotsInv, TypeInv, TypeOK, Steps, Sessions, Writers
<1>b. /\ ListingOK(t) /\ \A i \in Items : received[i] <= now
      /\ pc[t] \in Syncing => seen[t] \in SourceRow /\ seen[t].last_sync_at = draft[t].last_sync_at
      /\ \A s \in Gmail : source[s].last_sync_at <= now
  BY DEF ListingInv, ArrivalsOK, CursorInv, SnapshotsInv, SnapshotsOK, TypeInv, SessionsOK
<1>c. ASSUME NEW i \in Items, Settled(i) PROVE Settled(i)'
  BY <1>c DEF Settled, Ingested, IsDuplicate, Grows
<1>d. /\ now' \in Nat /\ now <= now'
      /\ \A i \in Items : received'[i] = received[i] \/ (received[i] = 0 /\ received'[i] = now)
  BY DEF Grows
<1>1. CASE pc'[t] \notin Syncing
  BY <1>1 DEF ListingOK, Listed, Syncing
<1>2. CASE pc'[t] \in Syncing /\ Rests(t)
  <2>1. /\ pc'[t] = pc[t] /\ src'[t] = src[t] /\ seen'[t] = seen[t] /\ todo'[t] = todo[t]
        /\ listed'[t] = listed[t] /\ content'[t] = content[t] /\ newest'[t] = newest[t]
        /\ pc[t] \in Syncing
    BY <1>2 DEF Rests
  <2>2. newest'[t] <= now'
    BY <1>2, <2>1, <1>a, <1>b, <1>d DEF ListingOK
  <2>3. ASSUME pc[t] \in Listed, NEW i \in listed[t]
        PROVE  /\ received'[i] # 0
               /\ i \in todo[t] \/ Settled(i)'
                  \/ (pc[t] \in {"put", "insert"} /\ content[t] = ContentOf[i])
    BY <2>3, <1>a, <1>b, <1>c, <1>d DEF ListingOK
  <2>4. ASSUME pc[t] \in Listed, NEW i \in Items \ listed[t], SourceOf[i] = src[t],
               received'[i] > seen[t].last_sync_at
        PROVE  /\ newest[t] <= received'[i]
               /\ \A j \in listed[t] : received'[j] <= received'[i]
    <3>1. \A j \in listed[t] : received'[j] = received[j] /\ received[j] <= now
      BY <2>4, <1>a, <1>b, <1>d DEF ListingOK
    <3>2. CASE received'[i] = received[i]
      BY <2>4, <3>1, <3>2, <1>b DEF ListingOK
    <3>3. CASE received'[i] = now
      BY <2>1, <3>1, <3>3, <1>b DEF ListingOK
    <3>4. QED
      BY <3>2, <3>3, <1>d
  <2>5. QED
    BY <2>1, <2>2, <2>3, <2>4, <1>b DEF ListingOK
<1>3. CASE Start(t)
  <2>1. pc'[t] = "listing" /\ UNCHANGED now
    BY <1>3, <1>a DEF Start
  <2>2. newest'[t] = IF src[t] \notin Gmail THEN 0
                     ELSE IF source[src[t]].last_sync_at # 0 THEN source[src[t]].last_sync_at ELSE now
    BY <1>3, <1>a DEF Start
  <2>3. newest'[t] <= now
    BY <2>2, <1>a, <1>b
  <2>4. QED
    BY <2>1, <2>3 DEF ListingOK, Listed
<1>4. CASE List(t)
  <2>1. /\ pc[t] = "listing" /\ pc'[t] = "next" /\ src' = src /\ newest' = newest
        /\ todo'[t] = listed'[t] /\ seen' = seen /\ now' = now /\ received' = received
        /\ listed'[t] = Listing(src[t], seen[t].last_sync_at)
    BY <1>4, <1>a DEF List, database
  <2>2. newest'[t] <= now'
    BY <2>1, <1>b DEF ListingOK, Syncing
  <2>3. \A i \in Items \ listed'[t] :
          ~(SourceOf[i] = src[t] /\ received[i] > seen[t].last_sync_at)
    <3>1. seen[t].last_sync_at \in Nat
      BY <2>1, <1>b DEF Syncing, SourceRow
    <3>2. QED
      BY <2>1, <3>1, <1>a DEF Listing
  <2>4. \A i \in listed'[t] : received'[i] # 0 /\ i \in todo'[t]
    BY <2>1 DEF Listing
  <2>5. QED
    BY <2>1, <2>2, <2>3, <2>4 DEF ListingOK
<1>5. ASSUME NEW j \in Items, FetchFails(t, j) \/ Fetch(t, j) PROVE ListingOK(t)'
  <2>1. /\ pc[t] = "next" /\ j \in todo[t] /\ src' = src /\ todo'[t] = todo[t] \ {j}
        /\ newest'[t] = IF src[t] \notin Gmail /\ received[j] > newest[t]
                        THEN received[j] ELSE newest[t]
        /\ seen' = seen /\ listed' = listed /\ now' = now /\ received' = received
    BY <1>5, <1>a DEF FetchFails, Fetch, Handled, database
  <2>2. Settled(j)' \/ (pc'[t] = "put" /\ content'[t] = ContentOf[j])
    <3>1. CASE FetchFails(t, j)
      BY <3>1 DEF FetchFails, Settled
    <3>2. CASE Fetch(t, j) /\ Ingested(j)
      BY <3>2, <1>c DEF Settled
    <3>3. CASE Fetch(t, j) /\ ~Ingested(j)
      BY <3>3, <1>a DEF Fetch, Ingested
    <3>4. QED
      BY <1>5, <3>1, <3>2, <3>3
  <2>3. j \in listed[t] /\ received[j] # 0
    BY <2>1, <1>b DEF ListingOK, Listed
  <2>4. newest'[t] <= now
    BY <2>1, <1>a, <1>b DEF ListingOK, Syncing
  <2>5. newest'[t] = 0 => src[t] \in Gmail
    BY <2>1, <2>3, <1>a
  <2>6. \A i \in listed[t] : i \in todo'[t] \/ Settled(i)'
                             \/ (pc'[t] \in {"put", "insert"} /\ content'[t] = ContentOf[i])
    BY <2>1, <2>2, <1>a, <1>b, <1>c DEF ListingOK, Listed
  <2>7. \A i \in Items \ listed[t] :
          SourceOf[i] = src[t] /\ received[i] > seen[t].last_sync_at => newest'[t] <= received[i]
    BY <2>1, <2>3, <1>b DEF ListingOK, Listed
  <2>8. QED
    BY <2>1, <2>4, <2>5, <2>6, <2>7, <1>b DEF ListingOK, Listed
<1>6. CASE Put(t) \/ Insert(t) \/ Enqueue(t)
  <2>1. /\ pc[t] \in {"put", "insert", "send"} /\ pc'[t] \in {"insert", "send", "next"}
        /\ src' = src /\ todo' = todo /\ newest' = newest /\ listed' = listed
        /\ now' = now /\ received' = received /\ seen'[t].last_sync_at = seen[t].last_sync_at
    BY <1>6, <1>a, <1>b DEF Put, Insert, Enqueue, work, database, Syncing
  <2>2. ASSUME NEW i \in Items, pc[t] \in {"put", "insert"}, content[t] = ContentOf[i]
        PROVE  Settled(i)' \/ (pc'[t] \in {"put", "insert"} /\ content'[t] = ContentOf[i])
    <3>1. CASE Put(t)
      BY <2>2, <3>1, <1>a DEF Put, work
    <3>2. CASE Insert(t)
      <4>1. InHand(t) \in invoices' /\ InHand(t).content = ContentOf[i]
        BY <2>2, <3>2 DEF Insert, InHand
      <4>2. QED
        BY <4>1 DEF Settled, Ingested, IsDuplicate
    <3>3. QED
      BY <1>6, <2>2, <3>1, <3>2 DEF Enqueue
  <2>3. QED
    BY <2>1, <2>2, <1>a, <1>b, <1>c DEF ListingOK, Listed, Syncing
<1>7. QED
  BY <1>1, <1>2, <1>3, <1>4, <1>5, <1>6 DEF Moves

LEMMA NextListing == ListingInv /\ [Next]_vars => ListingInv'
<1> SUFFICES ASSUME ListingInv, [Next]_vars PROVE ListingInv'
  OBVIOUS
<1>1. TypeInv /\ CursorInv /\ CursorInv'
  BY NextCursor DEF ListingInv, CursorInv, SnapshotsInv
<1>2. Grows /\ \A t \in Syncs : Rests(t) \/ Moves(t)
  BY <1>1, Growth, SyncMoves
<1>3. \A t \in Syncs : ListingOK(t)'
  BY <1>2, NextListingOf
<1>4. ArrivalsOK'
  BY <1>1, <1>2 DEF Grows, ArrivalsOK, ListingInv, TypeInv, TypeOK
<1>5. QED
  BY <1>1, <1>3, <1>4 DEF ListingInv

\* A document the cursor first passes without an invoice or a report of it was not
\* there to be listed: for any number of overlapping, failing and dying syncs it
\* came after an empty listing, or in the second of the newest document listed
\* (sync_outlook_source, sync_gmail_source, sync_gdrive_source).
THEOREM CursorPasses == Spec => CursorSkips
<1>1. ASSUME ListingInv, Next, NEW t \in Syncs, NEW i \in Items,
             src[t] = SourceOf[i], pc[t] = "next", pc'[t] = "done", received[i] # 0,
             source[SourceOf[i]].last_sync_at < received[i],
             seen[t].last_sync_at < received[i],
             received[i] <= source'[SourceOf[i]].last_sync_at
      PROVE  \/ Ingested(i) \/ i \in reported
             \/ i \notin listed[t] /\ (listed[t] = {} \/ received[i] = newest[t])
  <2>a. /\ TypeInv /\ SnapshotsInv /\ CursorInv /\ ListingOK(t)
        /\ received \in [Items -> 0..MaxTime] /\ source \in [Sources -> SourceRow]
        /\ newest \in [Syncs -> 0..MaxTime] /\ SourceOf[i] \in Sources /\ received[i] \in Nat
        /\ source[SourceOf[i]].last_sync_at \in Nat /\ seen[t] \in SourceRow
        /\ pc \in [Sessions -> Steps] /\ \A z \in Syncs : z \in Sessions
    BY <1>1, ConstantsAssumption
       DEF ListingInv, CursorInv, SnapshotsInv, TypeInv, TypeOK, SessionsOK, SourceRow, Steps,
           Sessions, Writers, Syncing
  <2>1. Finishes(SourceOf[i])
    <3>1. RowStep(SourceOf[i])
      BY <1>1, <2>a, RowSteps
    <3>2. source'[SourceOf[i]].last_sync_at \notin {source[SourceOf[i]].last_sync_at, 0}
      BY <1>1, <2>a
    <3>3. QED
      BY <3>1, <3>2 DEF RowStep
  <2>2. PICK z \in Syncs :
           /\ Finish(z) /\ src[z] = SourceOf[i]
           /\ newest[z] # 0 => source'[SourceOf[i]].last_sync_at = newest[z]
    BY <2>1 DEF Finishes
  <2>3. z = t
    BY <1>1, <2>2, <2>a DEF Finish, Leave
  <2>4. todo[t] = {}
    BY <2>2, <2>3 DEF Finish
  <2>5. CASE i \in listed[t]
    BY <1>1, <2>a, <2>4, <2>5 DEF ListingOK, Listed, Settled
  <2>6. CASE i \notin listed[t] /\ newest[t] # 0
    <3>1. newest[t] <= received[i]
      BY <1>1, <2>a, <2>6 DEF ListingOK, Listed
    <3>2. QED
      BY <1>1, <2>2, <2>3, <2>6, <2>a, <3>1
  <2>7. CASE i \notin listed[t] /\ newest[t] = 0
    <3>1. src[t] \notin Gmail
      BY <1>1, <2>7, <2>a DEF CursorInv, SyncCovers, Syncing
    <3>2. listed[t] = {}
      BY <1>1, <2>4, <2>7, <2>a, <3>1 DEF ListingOK, Listed
    <3>3. QED
      BY <2>7, <3>2
  <2>8. QED
    BY <2>5, <2>6, <2>7
<1>2. ListingInv /\ [Next]_vars =>
        [\A t \in Syncs, i \in Items :
           LET s == SourceOf[i] IN
           /\ src[t] = s /\ pc[t] = "next" /\ pc'[t] = "done" /\ received[i] # 0
           /\ source[s].last_sync_at < received[i] /\ seen[t].last_sync_at < received[i]
           /\ received[i] <= source'[s].last_sync_at
           => \/ Ingested(i) \/ i \in reported
              \/ i \notin listed[t] /\ (listed[t] = {} \/ received[i] = newest[t])]_vars
  BY <1>1
<1>3. QED
  BY <1>2, InitListing, NextListing, PTL DEF Spec, CursorSkips

================================================================================
