------------------------------ MODULE Submission ------------------------------
(***************************************************************************)
(* The Celery tasks mydata.submit_invoice and erp.export_invoice.  They    *)
(* have one structure, so one module stands for either: a task loads the   *)
(* invoice, the tenant's connector and the submission row of the invoice,  *)
(* calls an external service in the middle of its transaction, and commits *)
(* the service's answer.                                                   *)
(*                                                                         *)
(* The service registers the invoice when it handles the call.  The answer *)
(* may be lost (timeout, 5xx after the fact, a dying worker): the          *)
(* registration stays, the transaction is rolled back.  Nothing stops a    *)
(* second task for the same invoice: a submission row is looked up by its  *)
(* invoice, without a unique constraint, a lock or a version, and a commit *)
(* writes the columns that differ from what the task loaded.               *)
(***************************************************************************)
EXTENDS Integers, FiniteSets

CONSTANTS
  Invoices,     \* ids of the confirmed invoices of a tenant
  Shared,       \* those that may have several tasks at a time
  Tasks,        \* ids of the messages
  MaxRetries,   \* max_retries of the tasks, 5 in tasks/mydata.py and tasks/erp.py
  MaxFaults,    \* bound: crashes, kills and lost answers in a behaviour
  None

ASSUME ConstantsAssumption ==
  /\ Invoices # {} /\ Shared \subseteq Invoices
  /\ IsFiniteSet(Tasks)
  /\ None \notin Invoices \cup Tasks
  /\ MaxRetries \in Nat /\ MaxFaults \in Nat

VARIABLES
  stored,      \* the invoices in the table
  active,      \* connector.is_active
  rows,        \* the submission rows, each named by the task that inserted it
  row,         \* their committed content
  notes,       \* notifications: <<invoice, kind>>
  registered,  \* at the service: how often each invoice was registered
  pc,          \* the step each task has reached
  inv,         \* the invoice it was sent for
  retries,     \* request.retries
  target,      \* the row it works on
  seen,        \* that row as it was loaded
  mark,        \* the number of the registration it has made
  result,      \* what the task returned
  faults       \* crashes, kills and lost answers so far

database == <<stored, active, rows, row, notes>>
work     == <<pc, inv, retries, target, seen, mark, result>>
vars     == <<database, registered, work, faults>>

Status == {"pending", "submitted", "acknowledged", "failed", "cancelled"}

\* aade_mark and acknowledged_at are named by the registration they came with,
\* 0 when NULL.  Payloads, wording, submitted_at and retry_count decide nothing.
Row == [invoice: Invoices, status: Status, mark: Nat, acknowledged_at: Nat]

NewRow(i) == [invoice |-> i, status |-> "pending", mark |-> 0, acknowledged_at |-> 0]

RowsOf(i) == {r \in rows : row[r].invoice = i}

Working == {"loaded", "registered"}

\* A row inserted by a task that has not committed
Inserting(t) == pc[t] \in Working /\ seen[t].status = "pending"

--------------------------------------------------------------------------------

Init ==
  /\ stored = Invoices
  /\ active \in BOOLEAN
  /\ rows = {} /\ row = [t \in Tasks |-> NewRow(CHOOSE i \in Invoices : TRUE)]
  /\ notes = {}
  /\ registered = [i \in Invoices |-> 0]
  /\ pc = [t \in Tasks |-> "unsent"]
  /\ inv = [t \in Tasks |-> None]
  /\ retries = [t \in Tasks |-> 0]
  /\ target = [t \in Tasks |-> None]
  /\ seen = [t \in Tasks |-> None]
  /\ mark = [t \in Tasks |-> 0]
  /\ result = [t \in Tasks |-> None]
  /\ faults = 0

\* The confirmation of an invoice, a bulk action or POST /:id/mydata/submit
MaySend(i) ==
  i \in Shared \/ \A t \in Tasks : inv[t] = i => pc[t] = "gone"

Send(t, i) ==
  /\ pc[t] = "unsent" /\ i \in stored /\ MaySend(i)
  /\ pc' = [pc EXCEPT ![t] = "queued"]
  /\ inv' = [inv EXCEPT ![t] = i]
  /\ UNCHANGED <<database, registered, retries, target, seen, mark, result, faults>>

\* upsert_connector and delete_connector
SetActive(b) ==
  /\ active' = b
  /\ UNCHANGED <<stored, rows, row, notes, registered, work, faults>>

\* mutant: the insertion takes no lock
DeleteUnlocked(i) ==
  /\ i \in stored
  /\ stored' = stored \ {i}
  /\ rows' = rows \ RowsOf(i)
  /\ UNCHANGED <<active, row, notes, registered, work, faults>>
\* An uncommitted submission row holds a key share lock on its invoice
Delete(i) ==
  /\ i \in stored
  /\ \A t \in Tasks : Inserting(t) => inv[t] # i
  /\ stored' = stored \ {i}
  /\ rows' = rows \ RowsOf(i)
  /\ UNCHANGED <<active, row, notes, registered, work, faults>>

--------------------------------------------------------------------------------
(* The task *)

\* The transaction of t ends
Leave(t, step, value) ==
  /\ pc' = [pc EXCEPT ![t] = step]
  /\ target' = [target EXCEPT ![t] = None]
  /\ seen' = [seen EXCEPT ![t] = None]
  /\ mark' = [mark EXCEPT ![t] = 0]
  /\ result' = [result EXCEPT ![t] = value]

\* ConnectorMissingError
Skip(t) ==
  /\ pc[t] = "queued" /\ inv[t] \in stored /\ ~active
  /\ Leave(t, "done", "skipped")
  /\ UNCHANGED <<database, registered, inv, retries, faults>>

\* invoice_not_found
Missing(t) ==
  /\ pc[t] = "queued" /\ inv[t] \notin stored
  /\ Leave(t, "failing", None)
  /\ UNCHANGED <<database, registered, inv, retries, faults>>

\* mutant: a new row for each task
LoadInserts(t) ==
  /\ pc[t] = "queued" /\ inv[t] \in stored /\ active
  /\ pc' = [pc EXCEPT ![t] = "loaded"]
  /\ target' = [target EXCEPT ![t] = t]
  /\ seen' = [seen EXCEPT ![t] = NewRow(inv[t])]
  /\ UNCHANGED <<database, registered, inv, retries, mark, result, faults>>
\* The first row of the invoice, or a new one, flushed and not committed
Load(t) ==
  /\ pc[t] = "queued" /\ inv[t] \in stored /\ active
  /\ pc' = [pc EXCEPT ![t] = "loaded"]
  /\ IF RowsOf(inv[t]) = {}
     THEN /\ target' = [target EXCEPT ![t] = t]
          /\ seen' = [seen EXCEPT ![t] = NewRow(inv[t])]
     ELSE \E r \in RowsOf(inv[t]) :
          /\ target' = [target EXCEPT ![t] = r]
          /\ seen' = [seen EXCEPT ![t] = row[r]]
  /\ UNCHANGED <<database, registered, inv, retries, mark, result, faults>>

\* mutant: the date of an earlier acknowledgement stays
AnsweredKeepsDate(loaded, status, m) ==
  [loaded EXCEPT
     !.status = status, !.mark = m,
     !.acknowledged_at = IF status = "acknowledged" THEN m ELSE @]
\* The row as the answer of the service changes it
Answered(loaded, status, m) ==
  [loaded EXCEPT
     !.status = status, !.mark = m,
     !.acknowledged_at =
        CASE status = "acknowledged" -> m
          [] status = "submitted"    -> 0
          [] OTHER                   -> @]

\* The UPDATE of the unit of work: the columns that differ from what was loaded
Flush(current, loaded, wanted) ==
  [c \in DOMAIN current |-> IF wanted[c] # loaded[c] THEN wanted[c] ELSE current[c]]

Commit(t, wanted) ==
  /\ Inserting(t) \/ target[t] \in rows
  /\ rows' = rows \cup {target[t]}
  /\ row' = [row EXCEPT ![target[t]] =
               IF Inserting(t) THEN wanted ELSE Flush(@, seen[t], wanted)]
  /\ UNCHANGED <<stored, active>>

\* map_invoice_to_mydata or an ERP mapper refuses: FAILED is committed at once
MappingFails(t) ==
  /\ pc[t] = "loaded"
  /\ Commit(t, [seen[t] EXCEPT !.status = "failed"])
  /\ Leave(t, "failing", None)
  /\ UNCHANGED <<notes, registered, inv, retries, faults>>

\* The service handles the call
Register(t) ==
  /\ pc[t] = "loaded"
  /\ registered' = [registered EXCEPT ![inv[t]] = @ + 1]
  /\ mark' = [mark EXCEPT ![t] = registered[inv[t]] + 1]
  /\ pc' = [pc EXCEPT ![t] = "registered"]
  /\ UNCHANGED <<database, inv, retries, target, seen, result, faults>>

\* result.success, with or without a mark
StoreSuccess(t, marked) ==
  /\ pc[t] = "registered"
  /\ Commit(t, IF marked THEN Answered(seen[t], "acknowledged", mark[t])
                         ELSE Answered(seen[t], "submitted", 0))
  /\ notes' = notes \cup {<<inv[t], "submitted">>}
  /\ Leave(t, "done", IF marked THEN "acknowledged" ELSE "submitted")
  /\ UNCHANGED <<registered, inv, retries, faults>>

\* The service answers that it refuses the invoice
StoreRefusal(t) ==
  /\ pc[t] = "loaded"
  /\ Commit(t, Answered(seen[t], "failed", 0))
  /\ notes' = notes \cup {<<inv[t], "integration_error">>}
  /\ Leave(t, "done", "failed")
  /\ UNCHANGED <<registered, inv, retries, faults>>

\* mutant: any exception is retried
FailRetries(t) ==
  /\ pc[t] \in Working
  /\ Leave(t, "queued", None)
  /\ UNCHANGED <<database, registered, inv, retries, faults>>
\* Missing credentials, a 4xx, an answer that cannot be parsed, a row that is
\* gone, a soft time limit, any other exception: rolled back
Fail(t) ==
  /\ pc[t] \in Working
  /\ Leave(t, "failing", None)
  /\ UNCHANGED <<database, registered, inv, retries, faults>>

RetriesLeftOneMore(t) == retries[t] <= MaxRetries                  \* mutant
RetriesLeft(t) == retries[t] < MaxRetries

\* mutant: the retry starts from the first attempt
RetryUncounted(t) ==
  /\ Leave(t, "queued", None)
  /\ UNCHANGED <<database, registered, inv, retries>>
\* MyDataTransientError, ErpTransientError: rolled back; the retry is published,
\* or the exception is raised and the message acknowledged
Retry(t) ==
  /\ IF RetriesLeft(t)
     THEN Leave(t, "queued", None) /\ retries' = [retries EXCEPT ![t] = @ + 1]
     ELSE Leave(t, "done", "raised") /\ UNCHANGED retries
  /\ UNCHANGED <<database, registered, inv>>

\* The service did not handle the call
Transient(t) ==
  /\ pc[t] = "loaded"
  /\ Retry(t)
  /\ UNCHANGED faults

\* It did, and its answer is lost
LoseAnswer(t) ==
  /\ pc[t] = "registered" /\ faults < MaxFaults
  /\ Retry(t)
  /\ faults' = faults + 1

\* mark_submission_failed, in a session of its own
MarkFailed(t) ==
  /\ pc[t] = "failing"
  /\ \/ /\ RowsOf(inv[t]) = {} /\ UNCHANGED row
     \/ \E r \in RowsOf(inv[t]) : row' = [row EXCEPT ![r].status = "failed"]
  /\ Leave(t, "done", "failed")
  /\ UNCHANGED <<stored, active, rows, notes, registered, inv, retries, faults>>

\* acks_late: the message leaves the broker when the task has ended
Ack(t) ==
  /\ pc[t] = "done"
  /\ pc' = [pc EXCEPT ![t] = "gone"]
  /\ UNCHANGED <<database, registered, inv, retries, target, seen, mark, result, faults>>

\* The worker dies and the broker delivers the message again
Crash(t) ==
  /\ pc[t] \in Working \cup {"failing", "done"} /\ faults < MaxFaults
  /\ Leave(t, "queued", None)
  /\ faults' = faults + 1
  /\ UNCHANGED <<database, registered, inv, retries>>

\* The hard time limit, or a lost child process: rolled back and acknowledged
Kill(t) ==
  /\ pc[t] \in Working \cup {"failing"} /\ faults < MaxFaults
  /\ Leave(t, "done", "raised")
  /\ faults' = faults + 1
  /\ UNCHANGED <<database, registered, inv, retries>>

\* The worker dies after it published the retry, as message e, and before the ack
CrashAfterRetry(t, e) ==
  /\ pc[t] \in Working /\ RetriesLeft(t) /\ faults < MaxFaults
  /\ inv[t] \in Shared /\ pc[e] = "unsent"
  /\ pc' = [pc EXCEPT ![t] = "queued", ![e] = "queued"]
  /\ inv' = [inv EXCEPT ![e] = inv[t]]
  /\ retries' = [retries EXCEPT ![e] = retries[t] + 1]
  /\ target' = [target EXCEPT ![t] = None]
  /\ seen' = [seen EXCEPT ![t] = None]
  /\ mark' = [mark EXCEPT ![t] = 0]
  /\ faults' = faults + 1
  /\ UNCHANGED <<database, registered, result>>

--------------------------------------------------------------------------------

Task(t) ==
  \/ Skip(t) \/ Missing(t) \/ Load(t) \/ MappingFails(t) \/ Register(t)
  \/ \E marked \in BOOLEAN : StoreSuccess(t, marked)
  \/ StoreRefusal(t) \/ Fail(t) \/ Transient(t) \/ LoseAnswer(t)
  \/ MarkFailed(t) \/ Ack(t) \/ Crash(t) \/ Kill(t)
  \/ \E e \in Tasks : CrashAfterRetry(t, e)

Next ==
  \/ \E t \in Tasks : Task(t)
  \/ \E t \in Tasks, i \in Invoices : Send(t, i)
  \/ \E b \in BOOLEAN : SetActive(b)
  \/ \E i \in Invoices : Delete(i)

Spec == Init /\ [][Next]_vars

(* Fairness.  A free worker takes the next message, a call returns or times out
   (30 s), the task ends what it began.  Nothing makes users act, workers die or
   the service accept an invoice. *)
TaskFairness(t) ==
  /\ WF_vars(Skip(t) \/ Missing(t) \/ Load(t) \/ MarkFailed(t) \/ Ack(t))
  /\ WF_vars(Fail(t) \/ Transient(t) \/ StoreRefusal(t) \/ \E m \in BOOLEAN : StoreSuccess(t, m))

FairSpec == Spec /\ \A t \in Tasks : TaskFairness(t)

--------------------------------------------------------------------------------
(* Properties *)

Steps == {"unsent", "queued", "loaded", "registered", "failing", "done", "gone"}

Results == {None, "skipped", "failed", "submitted", "acknowledged", "raised"}

\* Every variable keeps its type; retries never pass max_retries.
TypeOK ==
  /\ stored \subseteq Invoices /\ active \in BOOLEAN
  /\ rows \subseteq Tasks /\ row \in [Tasks -> Row]
  /\ notes \subseteq Invoices \X {"submitted", "integration_error"}
  /\ registered \in [Invoices -> Nat]
  /\ pc \in [Tasks -> Steps]
  /\ inv \in [Tasks -> Invoices \cup {None}]
  /\ retries \in [Tasks -> 0 .. MaxRetries]
  /\ target \in [Tasks -> Tasks \cup {None}]
  /\ seen \in [Tasks -> Row \cup {None}]
  /\ mark \in [Tasks -> Nat]
  /\ result \in [Tasks -> Results]
  /\ faults \in 0 .. MaxFaults

\* A row is first committed with an outcome (mydata_submission.py:137): what
\* the task flushed before the call is never seen, however it ends.
PendingNeverStored == \A r \in rows : row[r].status # "pending"

\* No submission row outlives its invoice: the first submission holds the
\* invoice (foreign key, key share lock), a later one finds its row gone.
RowsHaveInvoice == \A r \in rows : row[r].invoice \in stored

\* With one task at a time an invoice has one row, over retries, redeliveries
\* and re-submissions (_get_or_create_submission has no unique constraint).
OneRowPerInvoice ==
  \A r, q \in rows :
    row[r].invoice = row[q].invoice /\ row[r].invoice \notin Shared => r = q

\* With one task at a time what the row says of its mark agrees: an
\* acknowledged row has the mark of a registration that took place, and its
\* date; a row that waits for its mark has neither.
StatusMatchesMark ==
  \A r \in rows : LET s == row[r] IN
    s.invoice \notin Shared =>
      /\ s.status = "acknowledged" =>
           s.mark \in 1 .. registered[s.invoice] /\ s.acknowledged_at = s.mark
      /\ s.status = "submitted" => s.mark = 0 /\ s.acknowledged_at = 0

\* An invoice is registered again only for another message, or after a crash or
\* a lost answer: no error path of the task repeats a call that was handled.
RegistrationsAccounted ==
  \A i \in Invoices :
    registered[i] <= Cardinality({t \in Tasks : inv[t] = i}) + faults

\* Whoever finds a submitted or acknowledged row was told of a submission,
\* tasks that overwrite each other included.
SuccessIsAnnounced ==
  \A r \in rows :
    row[r].status \in {"submitted", "acknowledged"} =>
      <<row[r].invoice, "submitted">> \in notes

\* A committed row is in order for whoever finds it: it has an outcome, its
\* invoice is there, and its success was announced, over rollbacks, crashes,
\* deletions and tasks that overwrite each other.
RowsAreSettled == PendingNeverStored /\ RowsHaveInvoice /\ SuccessIsAnnounced

\* Every message is acknowledged in the end, whatever the service answers.
TaskEnds == \A t \in Tasks : pc[t] = "queued" ~> pc[t] = "gone"
===============================================================================
