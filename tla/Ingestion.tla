-------------------------------- MODULE Ingestion --------------------------------
(***************************************************************************)
(* How documents become rows of `invoices`: the Celery tasks that sync a   *)
(* mailbox (Outlook, Gmail) or a Drive folder, the upload endpoint, and    *)
(* the administrators who connect and disconnect sources.                  *)
(*                                                                         *)
(* A sync keeps one session: it loads the row of its source, lists what    *)
(* arrived after the cursor, and for each document downloads it, looks for *)
(* its checksum, puts the file into the bucket, inserts the row, commits,  *)
(* and sends the OCR message.  The cursor is written at the end.  Nothing  *)
(* keeps two syncs of one source, or a sync and an upload, apart: the      *)
(* checksum has no unique constraint and a commit writes the columns of    *)
(* the source that differ from what the session loaded.                    *)
(***************************************************************************)
EXTENDS Integers, FiniteSets

CONSTANTS
  Outlook, Gmail, Drive,  \* the sources of each provider
  Items,        \* the documents (supported, not empty) their owners receive
  SourceOf,     \* SourceOf[i]: where item i arrives
  Contents,     \* checksums
  ContentOf,    \* ContentOf[i]: the checksum of item i
  Syncs,        \* messages email.sync_outlook, email.sync_gmail, drive.sync_gdrive
  Uploads,      \* requests POST /invoices/upload
  Admins,       \* requests that connect or disconnect a source
  MaxRetries,   \* max_retries of the sync tasks, 3 in email_sync.py and google_sync.py
  MaxTime,      \* bound: the clock
  MaxFaults,    \* bound: crashes, kills and unexpected exceptions in a behaviour
  None

Sources  == Outlook \cup Gmail \cup Drive
Writers  == Syncs \cup Uploads
Sessions == Writers \cup Admins

ASSUME ConstantsAssumption ==
  /\ Syncs \cap Uploads = {} /\ Writers \cap Admins = {}
  /\ IsFiniteSet(Writers) /\ IsFiniteSet(Contents)
  /\ SourceOf \in [Items -> Sources] /\ ContentOf \in [Items -> Contents]
  /\ None \notin Sessions \cup Sources \cup Items \cup Contents
  /\ MaxRetries \in Nat /\ MaxTime \in Nat \ {0} /\ MaxFaults \in Nat

VARIABLES
  now,       \* the clock
  received,  \* receivedDateTime or modifiedTime of each item, 0 before it arrives
  known,     \* the sources that have a row
  source,    \* the committed row of each source
  lock,      \* the session that has flushed an UPDATE of the source
  invoices,  \* committed rows of invoices, each named by its content and writer
  files,     \* objects in the bucket, named alike
  ocr,       \* the rows whose OCR message was sent
  reported,  \* items in the `errors` of a sync's result
  pc,        \* the step each session has reached
  src,       \* the source it works on
  seen,      \* the row of the source as it was loaded
  draft,     \* the ORM object
  content,   \* the document in hand
  todo,      \* the items listed and not yet handled
  listed,    \* the items listed
  newest,    \* newest_received
  rivals,    \* <<c, w, x>>: x was past its check of content c when w committed it
  retries,   \* request.retries
  faults     \* crashes, kills and unexpected exceptions so far

database == <<known, source, lock, invoices, files>>
work     == <<src, seen, draft, content, todo, listed, newest>>
vars     == <<now, received, database, ocr, reported, pc, work, rivals,
              retries, faults>>

\* Tokens are named by the session that obtained them; last_sync_at is 0 when NULL
Error     == {"none", "auth_failed", "sync_failed"}
SourceRow == [is_active: BOOLEAN, token: Sessions \cup {None},
              last_sync_at: 0..MaxTime, last_error: Error]

Document == [content: Contents, by: Writers]

\* mutant: every column is written
FlushAll(current, loaded, changed) == changed
\* The unit of work: an UPDATE of the columns that differ from the loaded ones
Flush(current, loaded, changed) ==
  [c \in DOMAIN current |-> IF changed[c] # loaded[c] THEN changed[c] ELSE current[c]]

\* ingest_file and upload_invoice: the search by checksum sees committed rows
IsDuplicate(c) == \E v \in invoices : v.content = c

\* list_messages_with_attachments, list_files_in_folder: without a cursor all,
\* then what is newer; Gmail's after: is in whole seconds and inclusive
Listing(s, since) ==
  {i \in Items : /\ SourceOf[i] = s /\ received[i] # 0
                 /\ \/ since = 0 \/ received[i] > since
                    \/ s \in Gmail /\ received[i] = since}

Unlocked(x, s) == lock[s] \in {x, None}

--------------------------------------------------------------------------------

Init ==
  /\ now = 1 /\ received = [i \in Items |-> 0]
  /\ known \in SUBSET Sources
  /\ source = [s \in Sources |-> [is_active |-> s \in known, token |-> None,
                                  last_sync_at |-> 0, last_error |-> "none"]]
  /\ lock = [s \in Sources |-> None]
  /\ invoices = {} /\ files = {} /\ ocr = {} /\ reported = {}
  /\ pc = [x \in Sessions |-> "new"]
  /\ src = [x \in Sessions |-> None]
  /\ seen = [x \in Sessions |-> None] /\ draft = [x \in Sessions |-> None]
  /\ content = [w \in Writers |-> None]
  /\ todo = [t \in Syncs |-> {}] /\ listed = [t \in Syncs |-> {}]
  /\ newest = [t \in Syncs |-> 0]
  /\ rivals = {}
  /\ retries = [t \in Syncs |-> 0]
  /\ faults = 0

Tick ==
  /\ now < MaxTime /\ now' = now + 1
  /\ UNCHANGED <<received, database, ocr, reported, pc, work, rivals, retries, faults>>

\* A message with an attachment, or a file put into the folder
Receive(i) ==
  /\ received[i] = 0 /\ received' = [received EXCEPT ![i] = now]
  /\ UNCHANGED <<now, database, ocr, reported, pc, work, rivals, retries, faults>>

Publish(t, s) ==
  /\ pc[t] = "new"
  /\ pc' = [pc EXCEPT ![t] = "queued"] /\ src' = [src EXCEPT ![t] = s]
  /\ UNCHANGED <<now, received, database, ocr, reported, seen, draft, content,
                 todo, listed, newest, rivals, retries, faults>>

\* The scheduler: every 15 minutes a sync of each active source, whatever runs
Schedule(t, s) == s \in known /\ source[s].is_active /\ Publish(t, s)

\* POST /email-sources/:id/sync, POST /gdrive-sources/:id/sync
TriggerSync(t, s) == s \in known /\ Publish(t, s)

--------------------------------------------------------------------------------
(* The sync task *)

Syncing == {"listing", "next", "put", "insert", "send"}

\* mutant: an open transaction outlives its task
LeaveLocked(x, step) ==
  /\ pc' = [pc EXCEPT ![x] = step]
  /\ UNCHANGED lock
  /\ seen' = [seen EXCEPT ![x] = None] /\ draft' = [draft EXCEPT ![x] = None]
  /\ content' = [w \in Writers |-> IF w = x THEN None ELSE content[w]]
  /\ todo' = [t \in Syncs |-> IF t = x THEN {} ELSE todo[t]]
  /\ listed' = [t \in Syncs |-> IF t = x THEN {} ELSE listed[t]]
  /\ newest' = [t \in Syncs |-> IF t = x THEN 0 ELSE newest[t]]
\* The session of x is closed and what it did not commit is rolled back
Leave(x, step) ==
  /\ pc' = [pc EXCEPT ![x] = step]
  /\ lock' = [s \in Sources |-> IF lock[s] = x THEN None ELSE lock[s]]
  /\ seen' = [seen EXCEPT ![x] = None] /\ draft' = [draft EXCEPT ![x] = None]
  /\ content' = [w \in Writers |-> IF w = x THEN None ELSE content[w]]
  /\ todo' = [t \in Syncs |-> IF t = x THEN {} ELSE todo[t]]
  /\ listed' = [t \in Syncs |-> IF t = x THEN {} ELSE listed[t]]
  /\ newest' = [t \in Syncs |-> IF t = x THEN 0 ELSE newest[t]]

\* The session of x ends with a commit of `changed`, which waits for the lock of the
\* row when a column changes
CommitSource(x, s, changed) ==
  /\ changed = seen[x] \/ Unlocked(x, s)
  /\ source' = [source EXCEPT ![s] = Flush(@, seen[x], changed)]

Inactive(t) ==
  /\ pc[t] = "queued" /\ ~source[src[t]].is_active
  /\ Leave(t, "done")
  /\ UNCHANGED <<now, received, known, source, invoices, files, ocr, reported,
                 src, rivals, retries, faults>>

\* Gmail starts from `since or now`, the others from nothing
Start(t) ==
  LET s == src[t] IN
  /\ pc[t] = "queued" /\ source[s].is_active
  /\ pc' = [pc EXCEPT ![t] = "listing"]
  /\ seen' = [seen EXCEPT ![t] = source[s]] /\ draft' = [draft EXCEPT ![t] = source[s]]
  /\ newest' = [newest EXCEPT ![t] = IF s \notin Gmail THEN 0
                                     ELSE IF source[s].last_sync_at # 0
                                     THEN source[s].last_sync_at ELSE now]
  /\ UNCHANGED <<now, received, database, ocr, reported, src, content, todo, listed,
                 rivals, retries, faults>>

\* _refresh_if_needed: the new token is flushed, the row stays locked until the
\* next commit.  A token outlives a task, so a task refreshes once.
Refresh(t) ==
  /\ pc[t] \in {"listing", "next"} /\ draft[t].token # t
  /\ Unlocked(t, src[t])
  /\ lock' = [lock EXCEPT ![src[t]] = t]
  /\ draft' = [draft EXCEPT ![t].token = t]
  /\ UNCHANGED <<now, received, known, source, invoices, files, ocr, reported, pc,
                 src, seen, content, todo, listed, newest, rivals, retries, faults>>

List(t) ==
  /\ pc[t] = "listing"
  /\ pc' = [pc EXCEPT ![t] = "next"]
  /\ listed' = [listed EXCEPT ![t] = Listing(src[t], seen[t].last_sync_at)]
  /\ todo' = [todo EXCEPT ![t] = listed'[t]]
  /\ UNCHANGED <<now, received, database, ocr, reported, src, seen, draft, content,
                 newest, rivals, retries, faults>>

\* The first page, or a later one
Paging(t) == pc[t] = "listing" \/ (pc[t] = "next" /\ todo[t] # {})

\* 401, 403 or no way to refresh: the source is switched off, the task ends
ListUnauthorized(t) ==
  /\ Paging(t)
  /\ CommitSource(t, src[t], [draft[t] EXCEPT !.is_active = FALSE, !.last_error = "auth_failed"])
  /\ Leave(t, "done")
  /\ UNCHANGED <<now, received, known, invoices, files, ocr, reported, src, rivals,
                 retries, faults>>

\* GraphError, GmailError, DriveError: rollback
ListFails(t) ==
  /\ Paging(t)
  /\ Leave(t, "failing")
  /\ UNCHANGED <<now, received, known, source, invoices, files, ocr, reported, src,
                 rivals, retries, faults>>

\* mutant: one attempt more
RetriesLeftAlways(t) == TRUE
RetriesLeft(t) == retries[t] < MaxRetries

\* The second session stores last_error, and the task raises
RecordFailure(t) ==
  LET s == src[t] IN
  /\ pc[t] = "failing" /\ Unlocked(t, s)
  /\ source' = [source EXCEPT ![s].last_error = "sync_failed"]
  /\ IF RetriesLeft(t)
     THEN /\ retries' = [retries EXCEPT ![t] = @ + 1]
          /\ pc' = [pc EXCEPT ![t] = "queued"]
     ELSE /\ UNCHANGED retries
          /\ pc' = [pc EXCEPT ![t] = "done"]
  /\ UNCHANGED <<now, received, known, lock, invoices, files, ocr, reported, work,
                 rivals, faults>>

\* newest_received, which Gmail's sync does not move
Handled(t, i) ==
  /\ todo' = [todo EXCEPT ![t] = @ \ {i}]
  /\ newest' = [newest EXCEPT ![t] = IF src[t] \notin Gmail /\ received[i] > @
                                     THEN received[i] ELSE @]

\* mutant: the error of an item is logged and not reported
FetchFailsQuietly(t, i) ==
  /\ pc[t] = "next" /\ i \in todo[t]
  /\ Handled(t, i)
  /\ UNCHANGED <<now, received, database, ocr, reported, pc, src, seen, draft, content, listed,
                 rivals, retries, faults>>
\* An error of the client, of authorization too, while one item is read:
\* it goes into the result and the sync goes on
FetchFails(t, i) ==
  /\ pc[t] = "next" /\ i \in todo[t]
  /\ Handled(t, i)
  /\ reported' = reported \cup {i}
  /\ UNCHANGED <<now, received, database, ocr, pc, src, seen, draft, content, listed,
                 rivals, retries, faults>>

\* mutant: the search sees the rows of the same writer only
FetchOwn(t, i) ==
  LET c == ContentOf[i] IN
  /\ pc[t] = "next" /\ i \in todo[t]
  /\ Handled(t, i)
  /\ IF [content |-> c, by |-> t] \in invoices
     THEN UNCHANGED <<pc, content>>
     ELSE /\ pc' = [pc EXCEPT ![t] = "put"]
          /\ content' = [content EXCEPT ![t] = c]
  /\ UNCHANGED <<now, received, database, ocr, reported, src, seen, draft, listed,
                 rivals, retries, faults>>
\* The bytes are read and their checksum is looked up
Fetch(t, i) ==
  LET c == ContentOf[i] IN
  /\ pc[t] = "next" /\ i \in todo[t]
  /\ Handled(t, i)
  /\ IF IsDuplicate(c)
     THEN UNCHANGED <<pc, content>>
     ELSE /\ pc' = [pc EXCEPT ![t] = "put"]
          /\ content' = [content EXCEPT ![t] = c]
  /\ UNCHANGED <<now, received, database, ocr, reported, src, seen, draft, listed,
                 rivals, retries, faults>>

InHand(w) == [content |-> content[w], by |-> w]

\* mutant: the row is inserted before the file is there
PutLater(w) ==
  /\ pc[w] = "put"
  /\ pc' = [pc EXCEPT ![w] = "insert"]
  /\ UNCHANGED <<now, received, database, ocr, reported, work, rivals, retries, faults>>
\* put_object, under a new key
Put(w) ==
  /\ pc[w] = "put"
  /\ files' = files \cup {InHand(w)}
  /\ pc' = [pc EXCEPT ![w] = "insert"]
  /\ UNCHANGED <<now, received, known, source, lock, invoices, ocr, reported, work,
                 rivals, retries, faults>>

\* The writers between the check and the commit of content c
InFlight(c) == {w \in Writers : content[w] = c /\ pc[w] \in {"put", "insert"}}

\* The commit of the new row; the refreshed token of a sync goes with it
Insert(w) ==
  /\ pc[w] = "insert"
  /\ invoices' = invoices \cup {InHand(w)}
  /\ rivals' = rivals \cup {<<content[w], w, x>> : x \in InFlight(content[w])}
  /\ pc' = [pc EXCEPT ![w] = "send"]
  /\ IF w \in Syncs
     THEN /\ CommitSource(w, src[w], draft[w])
          /\ lock' = [lock EXCEPT ![src[w]] = IF @ = w THEN None ELSE @]
          /\ seen' = [seen EXCEPT ![w] = draft[w]]
     ELSE UNCHANGED <<source, lock, seen>>
  /\ UNCHANGED <<now, received, known, files, ocr, reported, src, draft, content,
                 todo, listed, newest, retries, faults>>

\* mutant: the message is sent when a broker connection is at hand
EnqueueMaybe(t) ==
  /\ pc[t] = "send"
  /\ ocr' \in {ocr, ocr \cup {InHand(t)}}
  /\ pc' = [pc EXCEPT ![t] = "next"] /\ content' = [content EXCEPT ![t] = None]
  /\ UNCHANGED <<now, received, database, reported, src, seen, draft, todo,
                 listed, newest, rivals, retries, faults>>
\* celery_app.send_task("invoice.process_ocr")
Enqueue(t) ==
  /\ pc[t] = "send"
  /\ ocr' = ocr \cup {InHand(t)}
  /\ pc' = [pc EXCEPT ![t] = "next"] /\ content' = [content EXCEPT ![t] = None]
  /\ UNCHANGED <<now, received, database, reported, src, seen, draft, todo,
                 listed, newest, rivals, retries, faults>>

\* mutant: the cursor is the time the sync ends
FinishNow(t) ==
  /\ pc[t] = "next" /\ todo[t] = {}
  /\ CommitSource(t, src[t],
       [draft[t] EXCEPT !.last_sync_at = now,
                        !.last_error = "none"])
  /\ Leave(t, "done")
  /\ UNCHANGED <<now, received, known, invoices, files, ocr, reported, src, rivals,
                 retries, faults>>
\* The cursor moves to the newest document seen, or to now when there was none
Finish(t) ==
  /\ pc[t] = "next" /\ todo[t] = {}
  /\ CommitSource(t, src[t],
       [draft[t] EXCEPT !.last_sync_at = IF newest[t] # 0 THEN newest[t] ELSE now,
                        !.last_error = "none"])
  /\ Leave(t, "done")
  /\ UNCHANGED <<now, received, known, invoices, files, ocr, reported, src, rivals,
                 retries, faults>>

--------------------------------------------------------------------------------
(* Faults *)

Fault == faults < MaxFaults /\ faults' = faults + 1

\* An exception that is not the client's own (a timeout of requests, the bucket,
\* the broker, no active user), the hard time limit: no retry, nothing recorded.
\* A request whose process dies ends in the same way.
Abort(w) ==
  /\ Fault /\ pc[w] \in Syncing
  /\ Leave(w, "done")
  /\ UNCHANGED <<now, received, known, source, invoices, files, ocr, reported, src,
                 rivals, retries>>

\* The worker dies: acks_late delivers the message again
Crash(t) ==
  /\ Fault /\ pc[t] \in Syncing \cup {"failing"}
  /\ Leave(t, "queued")
  /\ UNCHANGED <<now, received, known, source, invoices, files, ocr, reported, src,
                 rivals, retries>>

--------------------------------------------------------------------------------
(* Uploads and administrators *)

\* upload_invoice up to the search: a duplicate is refused
UploadCheck(u, c) ==
  /\ pc[u] = "new"
  /\ IF IsDuplicate(c)
     THEN pc' = [pc EXCEPT ![u] = "done"] /\ UNCHANGED content
     ELSE /\ pc' = [pc EXCEPT ![u] = "put"]
          /\ content' = [content EXCEPT ![u] = c]
  /\ UNCHANGED <<now, received, database, ocr, reported, src, seen, draft, todo,
                 listed, newest, rivals, retries, faults>>

\* The failure of the send is suppressed: Abort at "send" stands for it
UploadEnqueue(u) ==
  /\ pc[u] = "send"
  /\ ocr' = ocr \cup {InHand(u)}
  /\ Leave(u, "done")
  /\ UNCHANGED <<now, received, known, source, invoices, files, reported, src,
                 rivals, retries, faults>>

\* The callback of the provider, or DELETE on the source: the row is looked up
AdminLoad(a, s, op) ==
  /\ pc[a] = "new" /\ (op = "disconnect" => s \in known)
  /\ pc' = [pc EXCEPT ![a] = op] /\ src' = [src EXCEPT ![a] = s]
  /\ seen' = [seen EXCEPT ![a] = IF s \in known THEN source[s] ELSE None]
  /\ UNCHANGED <<now, received, database, ocr, reported, draft, content, todo,
                 listed, newest, rivals, retries, faults>>

\* upsert_email_source, upsert_gdrive_source
Connect(a) ==
  LET s == src[a] IN
  /\ pc[a] = "connect"
  /\ IF seen[a] = None
     THEN \* an INSERT, refused by the unique constraint when another was first
          IF s \in known THEN UNCHANGED <<known, source>>
          ELSE /\ known' = known \cup {s}
               /\ source' = [source EXCEPT ![s] =
                    [is_active |-> TRUE, token |-> a, last_sync_at |-> 0, last_error |-> "none"]]
     ELSE /\ CommitSource(a, s, [seen[a] EXCEPT !.token = a, !.is_active = TRUE,
                                                !.last_error = "none"])
          /\ UNCHANGED known
  /\ Leave(a, "done")
  /\ UNCHANGED <<now, received, invoices, files, ocr, reported, src, rivals,
                 retries, faults>>

\* disconnect_source, disconnect_gdrive_source
Disconnect(a) ==
  /\ pc[a] = "disconnect"
  /\ CommitSource(a, src[a], [seen[a] EXCEPT !.token = None, !.is_active = FALSE])
  /\ Leave(a, "done")
  /\ UNCHANGED <<now, received, known, invoices, files, ocr, reported, src, rivals,
                 retries, faults>>

--------------------------------------------------------------------------------

SyncStep(t) ==
  \/ Inactive(t) \/ Start(t) \/ Refresh(t) \/ List(t)
  \/ ListUnauthorized(t) \/ ListFails(t) \/ RecordFailure(t)
  \/ \E i \in Items : FetchFails(t, i) \/ Fetch(t, i)
  \/ Put(t) \/ Insert(t) \/ Enqueue(t) \/ Finish(t)

UploadStep(u) ==
  \/ \E c \in Contents : UploadCheck(u, c)
  \/ Put(u) \/ Insert(u) \/ UploadEnqueue(u)

AdminStep(a) ==
  \/ \E s \in Sources, op \in {"connect", "disconnect"} : AdminLoad(a, s, op)
  \/ Connect(a) \/ Disconnect(a)

Next ==
  \/ Tick
  \/ \E i \in Items : Receive(i)
  \/ \E t \in Syncs, s \in Sources : Schedule(t, s) \/ TriggerSync(t, s)
  \/ \E t \in Syncs : SyncStep(t) \/ Crash(t)
  \/ \E w \in Writers : Abort(w)
  \/ \E u \in Uploads : UploadStep(u)
  \/ \E a \in Admins : AdminStep(a)

Spec == Init /\ [][Next]_vars

\* A worker goes on with the message it has
Fairness == \A t \in Syncs : WF_vars(SyncStep(t))

FairSpec == Spec /\ Fairness

--------------------------------------------------------------------------------
(* Properties *)

TypeOK ==
  /\ now \in 1..MaxTime /\ received \in [Items -> 0..MaxTime]
  /\ known \subseteq Sources /\ source \in [Sources -> SourceRow]
  /\ lock \in [Sources -> Syncs \cup {None}]
  /\ invoices \subseteq Document /\ files \subseteq Document /\ ocr \subseteq invoices
  /\ reported \subseteq Items
  /\ pc \in [Sessions -> Syncing \cup {"new", "queued", "failing", "connect",
                                      "disconnect", "done"}]
  /\ src \in [Sessions -> Sources \cup {None}]
  /\ seen \in [Sessions -> SourceRow \cup {None}]
  /\ draft \in [Sessions -> SourceRow \cup {None}]
  /\ content \in [Writers -> Contents \cup {None}]
  /\ todo \in [Syncs -> SUBSET Items] /\ listed \in [Syncs -> SUBSET Items]
  /\ newest \in [Syncs -> 0..MaxTime]
  /\ rivals \subseteq Contents \X Writers \X Writers
  /\ retries \in [Syncs -> 0..MaxRetries] /\ faults \in 0..MaxFaults

\* No row of invoices refers to a file that is not in the bucket, whichever step
\* fails or dies (ingest_file and upload_invoice put the file first).
RowHasFile == invoices \subseteq files

\* Two rows of one document come from two writers of which one was past its
\* check when the other made its own: retries, redeliveries, a second mailbox
\* and a later upload never copy a document.
CopiesWereConcurrent ==
  \A v, w \in invoices :
    v # w /\ v.content = w.content =>
      \/ <<v.content, v.by, w.by>> \in rivals
      \/ <<v.content, w.by, v.by>> \in rivals

\* A committed row whose OCR message is not sent, and not about to be, is the
\* price of one fault: no ordinary path of ingest_file forgets the message.
SendsAccounted ==
  Cardinality({v \in invoices \ ocr : ~(pc[v.by] = "send" /\ content[v.by] = v.content)})
    <= faults

Ingested(i) == IsDuplicate(ContentOf[i])

\* Every document a Gmail account received before the cursor of its source is an
\* invoice or was reported as failed, whatever syncs overlap, fail or die.
GmailCursorIsSafe ==
  \A i \in Items :
    LET s == SourceOf[i] IN
    s \in Gmail /\ received[i] # 0 /\ received[i] < source[s].last_sync_at
      => Ingested(i) \/ i \in reported

\* When the cursor of a mailbox or a folder first passes a document that is neither
\* an invoice nor in an error report, the sync that moves it has listed nothing and
\* sets the cursor to the time it ends, or the document came in the very second of
\* the newest one listed.  Failures of single documents, retries and deaths lose
\* none.  Overlapping syncs lose no other: one may set the cursor back, and another
\* that had loaded it before passes a second time what was lost then.
CursorSkips ==
  [][\A t \in Syncs, i \in Items :
       LET s == SourceOf[i] IN
       /\ src[t] = s /\ pc[t] = "next" /\ pc'[t] = "done" /\ received[i] # 0
       /\ source[s].last_sync_at < received[i] /\ seen[t].last_sync_at < received[i]
       /\ received[i] <= source'[s].last_sync_at
       => \/ Ingested(i) \/ i \in reported
          \/ i \notin listed[t] /\ (listed[t] = {} \/ received[i] = newest[t])]_vars

\* Only a reconnection switches a source on: a sync that loaded an active source
\* and commits after its disconnection leaves it disconnected.
DisconnectHolds ==
  [][\A s \in Sources :
       source'[s].is_active /\ ~source[s].is_active =>
         \E a \in Admins : src[a] = s /\ pc[a] = "connect" /\ pc'[a] = "done"]_vars

\* Every sync message is acknowledged, through retries, redeliveries and waits
\* for the row of the source.
SyncEnds == \A t \in Syncs : pc[t] = "queued" ~> pc[t] = "done"
=============================================================================
