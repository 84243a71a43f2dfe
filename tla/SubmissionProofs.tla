--------------------------- MODULE SubmissionProofs ---------------------------
(***************************************************************************)
(* Proofs about Submission, for any invoices, messages, retries and faults *)
(***************************************************************************)
EXTENDS Submission, FiniteSetTheorems, TLAPS

--------------------------------------------------------------------------------
(* Types *)

\* TypeOK, and what a task in a transaction has
TypeInv ==
  /\ TypeOK
  /\ \A t \in Tasks :
       /\ pc[t] = "unsent" <=> inv[t] = None
       /\ pc[t] \in Working =>
            seen[t] \in Row /\ target[t] \in Tasks /\ seen[t].invoice = inv[t]

LEMMA NewRowType == ASSUME NEW i \in Invoices PROVE NewRow(i) \in Row
BY DEF NewRow, Row, Status

LEMMA RefusedType ==
  ASSUME NEW s \in Row
  PROVE  /\ Answered(s, "failed", 0) \in Row
         /\ Answered(s, "failed", 0).invoice = s.invoice
         /\ Answered(s, "failed", 0).status = "failed"
BY DEF Answered, Row, Status

LEMMA AcknowledgedType ==
  ASSUME NEW s \in Row, NEW m \in Nat
  PROVE  /\ Answered(s, "acknowledged", m) \in Row
         /\ Answered(s, "acknowledged", m).invoice = s.invoice
         /\ Answered(s, "acknowledged", m).status = "acknowledged"
BY DEF Answered, Row, Status

LEMMA SubmittedType ==
  ASSUME NEW s \in Row
  PROVE  /\ Answered(s, "submitted", 0) \in Row
         /\ Answered(s, "submitted", 0).invoice = s.invoice
         /\ Answered(s, "submitted", 0).status = "submitted"
BY DEF Answered, Row, Status

LEMMA FlushType ==
  ASSUME NEW current \in Row, NEW loaded \in Row, NEW wanted \in Row
  PROVE  /\ Flush(current, loaded, wanted) \in Row
         /\ Flush(current, loaded, wanted).status \in {wanted.status, current.status}
         /\ wanted.invoice = loaded.invoice =>
              Flush(current, loaded, wanted).invoice = current.invoice
         /\ current = loaded => Flush(current, loaded, wanted) = wanted
BY DEF Flush, Row

\* A commit leaves rows of the right type.
LEMMA CommitType ==
  ASSUME TypeInv, NEW t \in Tasks, pc[t] \in Working, NEW wanted \in Row, Commit(t, wanted)
  PROVE  rows' \subseteq Tasks /\ row' \in [Tasks -> Row]
BY FlushType DEF TypeInv, TypeOK, Commit

LEMMA InitTypes == Init => TypeInv
<1> SUFFICES ASSUME Init PROVE TypeInv
  OBVIOUS
<1>1. (CHOOSE i \in Invoices : TRUE) \in Invoices
  BY ConstantsAssumption
<1>2. QED
  BY <1>1, NewRowType, ConstantsAssumption
     DEF Init, TypeInv, TypeOK, Steps, Results, Working

LEMMA NextTypes == TypeInv /\ [Next]_vars => TypeInv'
<1> SUFFICES ASSUME TypeInv, [Next]_vars PROVE TypeInv'
  OBVIOUS
<1> USE ConstantsAssumption DEF TypeInv, TypeOK, Steps, Results, Working, database, work
<1>1. CASE UNCHANGED vars
  BY <1>1 DEF vars
<1>2. ASSUME NEW t \in Tasks, NEW i \in Invoices, Send(t, i) PROVE TypeInv'
  BY <1>2 DEF Send
<1>3. ASSUME NEW b \in BOOLEAN, SetActive(b) PROVE TypeInv'
  BY <1>3 DEF SetActive
<1>4. ASSUME NEW i \in Invoices, Delete(i) PROVE TypeInv'
  BY <1>4 DEF Delete
<1>5. ASSUME NEW t \in Tasks, Task(t) PROVE TypeInv'
  <2>1. CASE Skip(t) \/ Missing(t) \/ Fail(t) \/ Crash(t) \/ Kill(t) \/ Ack(t)
    BY <2>1 DEF Skip, Missing, Fail, Crash, Kill, Ack, Leave
  <2>2. CASE Load(t)
    BY <2>2, NewRowType DEF Load, RowsOf, NewRow
  <2>3. CASE MappingFails(t)
    <3>1. pc[t] \in Working /\ [seen[t] EXCEPT !.status = "failed"] \in Row
      BY <2>3 DEF MappingFails, Row, Status
    <3>2. rows' \subseteq Tasks /\ row' \in [Tasks -> Row]
      BY <2>3, <3>1, CommitType DEF MappingFails
    <3>3. QED
      BY <2>3, <3>2 DEF MappingFails, Commit, Leave
  <2>4. CASE Register(t)
    BY <2>4 DEF Register
  <2>5. ASSUME NEW marked \in BOOLEAN, StoreSuccess(t, marked) PROVE TypeInv'
    <3> DEFINE wanted == IF marked THEN Answered(seen[t], "acknowledged", mark[t])
                                   ELSE Answered(seen[t], "submitted", 0)
    <3>1. pc[t] \in Working /\ wanted \in Row
      BY <2>5, AcknowledgedType, SubmittedType DEF StoreSuccess
    <3>2. rows' \subseteq Tasks /\ row' \in [Tasks -> Row]
      BY <2>5, <3>1, CommitType DEF StoreSuccess
    <3>3. QED
      BY <2>5, <3>2 DEF StoreSuccess, Commit, Leave
  <2>6. CASE StoreRefusal(t)
    <3>1. pc[t] \in Working /\ Answered(seen[t], "failed", 0) \in Row
      BY <2>6, RefusedType DEF StoreRefusal
    <3>2. rows' \subseteq Tasks /\ row' \in [Tasks -> Row]
      BY <2>6, <3>1, CommitType DEF StoreRefusal
    <3>3. QED
      BY <2>6, <3>2 DEF StoreRefusal, Commit, Leave
  <2>7. CASE Transient(t) \/ LoseAnswer(t)
    <3>1. /\ pc[t] \in Working /\ Retry(t) /\ faults' \in 0..MaxFaults
      BY <2>7 DEF Transient, LoseAnswer, Working
    <3>2. CASE RetriesLeft(t)
      BY <3>1, <3>2 DEF Retry, RetriesLeft, Leave
    <3>3. CASE ~RetriesLeft(t)
      BY <3>1, <3>3 DEF Retry, Leave
    <3>4. QED
      BY <3>2, <3>3
  <2>8. CASE MarkFailed(t)
    <3>1. row' \in [Tasks -> Row]
      <4>1. CASE UNCHANGED row
        BY <4>1
      <4>2. ASSUME NEW r \in RowsOf(inv[t]), row' = [row EXCEPT ![r].status = "failed"]
            PROVE  row' \in [Tasks -> Row]
        <5>1. r \in Tasks /\ row[r] \in Row
          BY DEF RowsOf
        <5>2. [row[r] EXCEPT !.status = "failed"] \in Row
          BY <5>1 DEF Row, Status
        <5>3. QED
          BY <4>2, <5>1, <5>2
      <4>3. QED
        BY <2>8, <4>1, <4>2 DEF MarkFailed
    <3>2. QED
      BY <2>8, <3>1 DEF MarkFailed, Leave
  <2>9. ASSUME NEW e \in Tasks, CrashAfterRetry(t, e) PROVE TypeInv'
    BY <2>9 DEF CrashAfterRetry, RetriesLeft
  <2>10. QED
    BY <1>5, <2>1, <2>2, <2>3, <2>4, <2>5, <2>6, <2>7, <2>8, <2>9 DEF Task
<1>6. QED
  BY <1>1, <1>2, <1>3, <1>4, <1>5 DEF Next

\* The variables of Submission keep their types, and retries their limit.
THEOREM TypeCorrect == Spec => []TypeOK
<1>1. TypeInv => TypeOK
  BY DEF TypeInv
<1>2. QED
  BY <1>1, InitTypes, NextTypes, PTL DEF Spec

--------------------------------------------------------------------------------
(* What holds of the rows, however tasks overlap *)

Outcomes == {"submitted", "acknowledged"}

\* A stored row has an outcome, belongs to the invoice its task was sent for,
\* which is stored, and a success was announced
RowsOK ==
  \A r \in rows :
    /\ row[r].status # "pending"
    /\ row[r].invoice = inv[r]
    /\ inv[r] \in stored
    /\ row[r].status \in Outcomes => <<inv[r], "submitted">> \in notes

\* A task inserts a row under its own name and holds the invoice; otherwise it
\* works on a row of the same invoice
TasksOK ==
  \A t \in Tasks : pc[t] \in Working =>
    IF Inserting(t) THEN target[t] = t /\ inv[t] \in stored
                    ELSE inv[target[t]] = inv[t]

RowsInv == TypeInv /\ RowsOK /\ TasksOK

\* A commit of an outcome, announced when it is a success, keeps the rows good.
LEMMA CommitOK ==
  ASSUME RowsInv, NEW t \in Tasks, pc[t] \in Working, NEW wanted \in Row,
         Commit(t, wanted), wanted.invoice = inv[t], wanted.status # "pending",
         notes \subseteq notes', inv' = inv,
         wanted.status \in Outcomes => <<inv[t], "submitted">> \in notes'
  PROVE  RowsOK'
<1> USE DEF RowsInv, TypeInv, TypeOK
<1> SUFFICES ASSUME NEW r \in rows'
             PROVE  /\ row'[r].status # "pending"
                    /\ row'[r].invoice = inv[r]
                    /\ inv[r] \in stored
                    /\ row'[r].status \in Outcomes => <<inv[r], "submitted">> \in notes'
  BY DEF Commit, RowsOK
<1>1. CASE r # target[t]
  BY <1>1 DEF Commit, RowsOK
<1>2. CASE r = target[t] /\ Inserting(t)
  <2>1. row'[r] = wanted
    BY <1>2 DEF Commit
  <2>2. r = t /\ inv[t] \in stored
    BY <1>2 DEF TasksOK
  <2>3. QED
    BY <2>1, <2>2
<1>3. CASE r = target[t] /\ ~Inserting(t)
  <2>1. r \in rows /\ row'[r] = Flush(row[r], seen[t], wanted)
    BY <1>3 DEF Commit
  <2>2. inv[r] = inv[t]
    BY <1>3 DEF TasksOK
  <2>3. /\ row[r].status # "pending" /\ row[r].invoice = inv[r] /\ inv[r] \in stored
        /\ row[r].status \in Outcomes => <<inv[r], "submitted">> \in notes
    BY <2>1 DEF RowsOK
  <2>4. /\ row'[r].status \in {wanted.status, row[r].status}
        /\ row'[r].invoice = row[r].invoice
    BY <2>1, FlushType
  <2>5. QED
    BY <2>2, <2>3, <2>4
<1>4. QED
  BY <1>1, <1>2, <1>3

\* A step that takes t out of its transaction leaves the other tasks as they are.
LEMMA LeaveOK ==
  ASSUME RowsInv, NEW t \in Tasks, NEW step, NEW value, Leave(t, step, value),
         step \notin Working, inv' = inv, stored' = stored
  PROVE  TasksOK'
BY DEF RowsInv, TypeInv, TypeOK, TasksOK, Leave, Inserting

LEMMA InitRows == Init => RowsInv
BY InitTypes DEF Init, RowsInv, RowsOK, TasksOK, Working

LEMMA NextRows == RowsInv /\ [Next]_vars => RowsInv'
<1> SUFFICES ASSUME RowsInv, [Next]_vars PROVE RowsOK' /\ TasksOK'
  BY NextTypes DEF RowsInv
<1> USE DEF RowsInv, TypeInv, TypeOK, database, work
<1>1. CASE UNCHANGED vars
  BY <1>1 DEF vars, RowsOK, TasksOK, Inserting
<1>2. ASSUME NEW t \in Tasks, NEW i \in Invoices, Send(t, i) PROVE RowsOK' /\ TasksOK'
  <2>1. t \notin rows
    <3>1. inv[t] = None /\ stored \subseteq Invoices /\ None \notin Invoices
      BY <1>2, ConstantsAssumption DEF Send
    <3>2. QED
      BY <3>1 DEF RowsOK
  <2>2. \A u \in Tasks : pc[u] \in Working => u # t /\ (~Inserting(u) => target[u] # t)
    BY <1>2, ConstantsAssumption DEF Send, TasksOK, Working
  <2>3. QED
    BY <1>2, <2>1, <2>2 DEF Send, RowsOK, TasksOK, Inserting, Working
<1>3. ASSUME NEW b \in BOOLEAN, SetActive(b) PROVE RowsOK' /\ TasksOK'
  BY <1>3 DEF SetActive, RowsOK, TasksOK, Inserting
<1>4. ASSUME NEW i \in Invoices, Delete(i) PROVE RowsOK' /\ TasksOK'
  BY <1>4 DEF Delete, RowsOK, RowsOf, TasksOK, Inserting
<1>5. ASSUME NEW t \in Tasks, Task(t) PROVE RowsOK' /\ TasksOK'
  <2>1. CASE Skip(t) \/ Missing(t) \/ Fail(t) \/ Crash(t) \/ Kill(t)
             \/ Transient(t) \/ LoseAnswer(t)
    <3>1. UNCHANGED <<database, inv>> /\ \E step, value : Leave(t, step, value) /\ step \notin Working
      BY <2>1 DEF Skip, Missing, Fail, Crash, Kill, Transient, LoseAnswer, Retry, Working
    <3>2. QED
      BY <3>1, LeaveOK DEF RowsOK
  <2>2. CASE Ack(t)
    BY <2>2 DEF Ack, RowsOK, TasksOK, Inserting, Working
  <2>3. CASE Load(t)
    <3>1. UNCHANGED <<database, inv>>
      BY <2>3 DEF Load
    <3>2. ASSUME NEW u \in Tasks, u # t, pc'[u] \in Working
          PROVE  IF Inserting(u)' THEN target'[u] = u /\ inv[u] \in stored
                                  ELSE inv[target'[u]] = inv[u]
      BY <2>3, <3>2 DEF Load, TasksOK, Inserting
    <3>3. IF Inserting(t)' THEN target'[t] = t /\ inv[t] \in stored
                           ELSE inv[target'[t]] = inv[t]
      <4>1. CASE RowsOf(inv[t]) = {}
        BY <2>3, <4>1 DEF Load, Inserting, NewRow
      <4>2. ASSUME NEW r \in RowsOf(inv[t]),
                   target' = [target EXCEPT ![t] = r], seen' = [seen EXCEPT ![t] = row[r]]
            PROVE  ~Inserting(t)' /\ inv[target'[t]] = inv[t]
        BY <4>2 DEF RowsOf, RowsOK, Inserting
      <4>3. QED
        BY <2>3, <4>1, <4>2 DEF Load
    <3>4. QED
      BY <3>1, <3>2, <3>3 DEF RowsOK, TasksOK
  <2>4. CASE MappingFails(t)
    <3> DEFINE wanted == [seen[t] EXCEPT !.status = "failed"]
    <3>1. wanted \in Row /\ wanted.invoice = inv[t] /\ wanted.status = "failed"
      BY <2>4 DEF MappingFails, Working, Row, Status
    <3>2. RowsOK'
      BY <2>4, <3>1, CommitOK DEF MappingFails, Working, Outcomes
    <3>3. TasksOK'
      BY <2>4, LeaveOK DEF MappingFails, Commit, Working
    <3>4. QED
      BY <3>2, <3>3
  <2>5. CASE Register(t)
    BY <2>5 DEF Register, RowsOK, TasksOK, Inserting, Working
  <2>6. ASSUME NEW marked \in BOOLEAN, StoreSuccess(t, marked) PROVE RowsOK' /\ TasksOK'
    <3> DEFINE wanted == IF marked THEN Answered(seen[t], "acknowledged", mark[t])
                                   ELSE Answered(seen[t], "submitted", 0)
    <3>1. wanted \in Row /\ wanted.invoice = inv[t] /\ wanted.status \in Outcomes
      <4>1. seen[t] \in Row /\ seen[t].invoice = inv[t] /\ mark[t] \in Nat
        BY <2>6 DEF StoreSuccess, Working
      <4>2. QED
        BY <4>1, AcknowledgedType, SubmittedType DEF Outcomes
    <3>2. RowsOK'
      BY <2>6, <3>1, CommitOK DEF StoreSuccess, Working, Outcomes
    <3>3. TasksOK'
      BY <2>6, LeaveOK DEF StoreSuccess, Commit, Working
    <3>4. QED
      BY <3>2, <3>3
  <2>7. CASE StoreRefusal(t)
    <3>1. /\ Answered(seen[t], "failed", 0) \in Row
          /\ Answered(seen[t], "failed", 0).invoice = inv[t]
          /\ Answered(seen[t], "failed", 0).status = "failed"
      <4>1. seen[t] \in Row /\ seen[t].invoice = inv[t]
        BY <2>7 DEF StoreRefusal, Working
      <4>2. QED
        BY <4>1, RefusedType
    <3>2. RowsOK'
      BY <2>7, <3>1, CommitOK DEF StoreRefusal, Working, Outcomes
    <3>3. TasksOK'
      BY <2>7, LeaveOK DEF StoreRefusal, Commit, Working
    <3>4. QED
      BY <3>2, <3>3
  <2>8. CASE MarkFailed(t)
    <3>1. RowsOK'
      BY <2>8, SMTT(30) DEF MarkFailed, RowsOK, RowsOf, Outcomes, Row
    <3>2. TasksOK'
      BY <2>8, LeaveOK DEF MarkFailed, Working
    <3>3. QED
      BY <3>1, <3>2
  <2>9. ASSUME NEW e \in Tasks, CrashAfterRetry(t, e) PROVE RowsOK' /\ TasksOK'
    <3>1. e \notin rows /\ inv[e] = None /\ inv[t] # None
      BY <2>9, ConstantsAssumption DEF CrashAfterRetry, RowsOK, Working
    <3>2. \A u \in Tasks : pc[u] \in Working => u # e /\ (~Inserting(u) => target[u] # e)
      BY <2>9, <3>1, ConstantsAssumption DEF CrashAfterRetry, TasksOK, Working
    <3>3. QED
      BY <2>9, <3>1, <3>2 DEF CrashAfterRetry, RowsOK, TasksOK, Inserting, Working
  <2>10. QED
    BY <1>5, <2>1, <2>2, <2>3, <2>4, <2>5, <2>6, <2>7, <2>8, <2>9 DEF Task
<1>6. QED
  BY <1>1, <1>2, <1>3, <1>4, <1>5 DEF Next

\* No interleaving, rollback or crash leaves a pending submission behind.
THEOREM PendingHidden == Spec => []PendingNeverStored
<1>1. RowsInv => PendingNeverStored
  BY DEF RowsInv, RowsOK, PendingNeverStored
<1>2. QED
  BY <1>1, InitRows, NextRows, PTL DEF Spec

\* No submission row outlives its invoice, for any tasks and deletions.
THEOREM NoOrphanRow == Spec => []RowsHaveInvoice
<1>1. RowsInv => RowsHaveInvoice
  BY DEF RowsInv, RowsOK, RowsHaveInvoice
<1>2. QED
  BY <1>1, InitRows, NextRows, PTL DEF Spec

\* A submitted or acknowledged row was announced, for any overlapping tasks.
THEOREM Announced == Spec => []SuccessIsAnnounced
<1>1. RowsInv => SuccessIsAnnounced
  BY DEF RowsInv, RowsOK, SuccessIsAnnounced, Outcomes
<1>2. QED
  BY <1>1, InitRows, NextRows, PTL DEF Spec

\* A committed row has an outcome, an invoice and an announcement, for any tasks,
\* faults and deletions.
THEOREM RowsSettled == Spec => []RowsAreSettled
<1>1. PendingNeverStored /\ RowsHaveInvoice /\ SuccessIsAnnounced => RowsAreSettled
  BY DEF RowsAreSettled
<1>2. QED
  BY <1>1, PendingHidden, NoOrphanRow, Announced, PTL

--------------------------------------------------------------------------------
(* How often an invoice is registered *)

Sent(i) == {t \in Tasks : inv[t] = i}

\* The tasks that may still register i
Waiting(i) == {t \in Tasks : inv[t] = i /\ pc[t] \in {"queued", "loaded"}}

CountOK ==
  \A i \in Invoices : registered[i] + Cardinality(Waiting(i)) <= Cardinality(Sent(i)) + faults

\* Both sets are finite.
LEMMA Counts ==
  ASSUME NEW i
  PROVE  /\ IsFiniteSet(Waiting(i)) /\ Cardinality(Waiting(i)) \in Nat
         /\ IsFiniteSet(Sent(i)) /\ Cardinality(Sent(i)) \in Nat
<1>1. Waiting(i) \subseteq Tasks /\ Sent(i) \subseteq Tasks
  BY DEF Waiting, Sent
<1>2. QED
  BY <1>1, ConstantsAssumption, FS_Subset, FS_CardinalityType

\* A task that no longer waits makes the set of waiting tasks smaller by one.
LEMMA Removed ==
  ASSUME NEW S, NEW t \in S, IsFiniteSet(S)
  PROVE  Cardinality(S \ {t}) + 1 = Cardinality(S)
<1>1. Cardinality(S \ {t}) = Cardinality(S) - 1
  BY FS_RemoveElement
<1>2. Cardinality(S) \in Nat
  BY FS_CardinalityType
<1>3. QED
  BY <1>1, <1>2

\* A task that waits again makes it larger by at most one.
LEMMA Added ==
  ASSUME NEW S, NEW T, NEW t, IsFiniteSet(S), T \subseteq S \cup {t}
  PROVE  Cardinality(T) <= Cardinality(S) + 1
<1>1. IsFiniteSet(S \cup {t}) /\ Cardinality(S \cup {t}) <= Cardinality(S) + 1
  <2>1. /\ IsFiniteSet(S \cup {t})
        /\ Cardinality(S \cup {t}) = IF t \in S THEN Cardinality(S) ELSE Cardinality(S) + 1
    BY FS_AddElement
  <2>2. Cardinality(S) \in Nat
    BY FS_CardinalityType
  <2>3. QED
    BY <2>1, <2>2
<1>2. Cardinality(T) <= Cardinality(S \cup {t})
  BY <1>1, FS_Subset
<1>3. Cardinality(S) \in Nat /\ Cardinality(T) \in Nat /\ Cardinality(S \cup {t}) \in Nat
  BY <1>1, FS_CardinalityType, FS_Subset
<1>4. QED
  BY <1>1, <1>2, <1>3

\* A step that registers nothing, sends nothing, and adds no waiting task.
LEMMA FewerWait ==
  ASSUME TypeInv, CountOK, registered' = registered, inv' = inv, faults' = faults,
         \A i \in Invoices : Waiting(i)' \subseteq Waiting(i)
  PROVE  CountOK'
<1> SUFFICES ASSUME NEW i \in Invoices
             PROVE  (registered[i] + Cardinality(Waiting(i)) <= Cardinality(Sent(i)) + faults)'
  BY DEF CountOK
<1>1. Cardinality(Waiting(i)') <= Cardinality(Waiting(i)) /\ Cardinality(Waiting(i)') \in Nat
  BY Counts, FS_Subset, FS_CardinalityType
<1>2. Sent(i)' = Sent(i)
  BY DEF Sent
<1>3. QED
  BY <1>1, <1>2, Counts DEF CountOK, TypeInv, TypeOK

\* A fault that makes one task wait again.
LEMMA OneMoreWaits ==
  ASSUME TypeInv, CountOK, registered' = registered, inv' = inv, faults' = faults + 1,
         NEW t, \A i \in Invoices : Waiting(i)' \subseteq Waiting(i) \cup {t}
  PROVE  CountOK'
<1> SUFFICES ASSUME NEW i \in Invoices
             PROVE  (registered[i] + Cardinality(Waiting(i)) <= Cardinality(Sent(i)) + faults)'
  BY DEF CountOK
<1>1. Cardinality(Waiting(i)') <= Cardinality(Waiting(i)) + 1
  BY Counts, Added
<1>2. IsFiniteSet(Waiting(i)') /\ Cardinality(Waiting(i)') \in Nat
  BY Counts, FS_AddElement, FS_Subset, FS_CardinalityType
<1>3. Sent(i)' = Sent(i)
  BY DEF Sent
<1>4. QED
  BY <1>1, <1>2, <1>3, Counts DEF CountOK, TypeInv, TypeOK

\* A new message t waits, and was sent.
LEMMA OneMoreSent ==
  ASSUME TypeInv, CountOK, NEW i \in Invoices, NEW t \in Tasks, inv[t] = None,
         inv' = [inv EXCEPT ![t] = i], registered' = registered,
         NEW W, IsFiniteSet(W), Waiting(i)' \subseteq W \cup {t},
         faults' \in Nat, faults <= faults',
         Cardinality(W) + faults <= Cardinality(Waiting(i)) + faults',
         \A j \in Invoices \ {i} : Waiting(j)' \subseteq Waiting(j)
  PROVE  CountOK'
<1> USE DEF TypeInv, TypeOK
<1>1. i # None
  BY ConstantsAssumption
<1>2. ASSUME NEW j \in Invoices, j # i
      PROVE  (registered[j] + Cardinality(Waiting(j)) <= Cardinality(Sent(j)) + faults)'
  <2>1. Sent(j)' = Sent(j)
    BY <1>2, ConstantsAssumption DEF Sent
  <2>2. Cardinality(Waiting(j)') <= Cardinality(Waiting(j)) /\ Cardinality(Waiting(j)') \in Nat
    BY <1>2, Counts, FS_Subset, FS_CardinalityType
  <2>3. QED
    BY <2>1, <2>2, Counts DEF CountOK
<1>3. (registered[i] + Cardinality(Waiting(i)) <= Cardinality(Sent(i)) + faults)'
  <2>1. Sent(i)' = Sent(i) \cup {t} /\ t \notin Sent(i)
    <3>1. inv \in [Tasks -> Invoices \cup {None}]
      OBVIOUS
    <3>2. \A u \in Tasks : inv'[u] = i <=> inv[u] = i \/ u = t
      BY <1>1, <3>1
    <3>3. QED
      BY <1>1, <3>2 DEF Sent
  <2>2. Cardinality(Sent(i)') = Cardinality(Sent(i)) + 1
    <3>1. IsFiniteSet(Sent(i))
      BY Counts
    <3>2. Cardinality(Sent(i) \cup {t}) = Cardinality(Sent(i)) + 1
      BY <2>1, <3>1, FS_AddElement
    <3>3. QED
      BY <2>1, <3>2
  <2>3. Cardinality(W) \in Nat
    BY FS_CardinalityType
  <2>4. IsFiniteSet(W \cup {t})
    BY FS_AddElement
  <2>5. Cardinality(Waiting(i)') <= Cardinality(W) + 1
    BY Added
  <2>6. Cardinality(Waiting(i)') \in Nat
    BY <2>4, FS_Subset, FS_CardinalityType
  <2>7. registered'[i] = registered[i] /\ registered[i] \in Nat /\ faults \in Nat
    BY ConstantsAssumption
  <2>8. QED
    BY <2>2, <2>3, <2>5, <2>6, <2>7, Counts DEF CountOK
<1>4. QED
  BY <1>2, <1>3 DEF CountOK

CountInv == RowsInv /\ CountOK

LEMMA InitCount == Init => CountInv
<1> SUFFICES ASSUME Init, NEW i \in Invoices
             PROVE  registered[i] + Cardinality(Waiting(i)) <= Cardinality(Sent(i)) + faults
  BY InitRows DEF CountInv, CountOK
<1>1. Waiting(i) = {} /\ registered[i] = 0 /\ faults = 0
  BY DEF Init, Waiting
<1>2. QED
  BY <1>1, Counts, FS_EmptySet

LEMMA NextCount == CountInv /\ [Next]_vars => CountInv'
<1> SUFFICES ASSUME CountInv, [Next]_vars PROVE CountOK'
  BY NextRows DEF CountInv
<1>0. TypeInv /\ CountOK
  BY DEF CountInv, RowsInv
<1> USE <1>0 DEF TypeInv, TypeOK, database, work
<1>1. CASE UNCHANGED vars
  BY <1>1, FewerWait DEF vars, Waiting
<1>2. ASSUME NEW t \in Tasks, NEW i \in Invoices, Send(t, i) PROVE CountOK'
  <2>1. /\ inv[t] = None /\ inv' = [inv EXCEPT ![t] = i] /\ registered' = registered
        /\ faults' = faults /\ faults' \in Nat /\ faults <= faults'
    BY <1>2 DEF Send
  <2>2. /\ Waiting(i)' \subseteq Waiting(i) \cup {t}
        /\ \A j \in Invoices \ {i} : Waiting(j)' \subseteq Waiting(j)
    BY <1>2, ConstantsAssumption DEF Send, Waiting
  <2>3. IsFiniteSet(Waiting(i)) /\ Cardinality(Waiting(i)) + faults <= Cardinality(Waiting(i)) + faults'
    BY <2>1, Counts
  <2>4. QED
    BY <2>1, <2>2, <2>3, OneMoreSent
<1>3. ASSUME NEW b \in BOOLEAN, SetActive(b) PROVE CountOK'
  BY <1>3, FewerWait DEF SetActive, Waiting
<1>4. ASSUME NEW i \in Invoices, Delete(i) PROVE CountOK'
  BY <1>4, FewerWait DEF Delete, Waiting
<1>5. ASSUME NEW t \in Tasks, Task(t) PROVE CountOK'
  <2>1. CASE Skip(t) \/ Missing(t) \/ Fail(t) \/ MarkFailed(t) \/ Ack(t) \/ Load(t)
    <3>1. /\ registered' = registered /\ inv' = inv /\ faults' = faults
          /\ \A i \in Invoices : Waiting(i)' \subseteq Waiting(i)
      BY <2>1 DEF Skip, Missing, Fail, MarkFailed, Ack, Load, Leave, Waiting
    <3>2. QED
      BY <3>1, FewerWait
  <2>2. CASE MappingFails(t) \/ StoreRefusal(t) \/ (\E marked \in BOOLEAN : StoreSuccess(t, marked))
    <3>1. /\ registered' = registered /\ inv' = inv /\ faults' = faults
          /\ \E step, value : Leave(t, step, value) /\ step \in {"done", "failing"}
      BY <2>2 DEF MappingFails, StoreRefusal, StoreSuccess
    <3>2. \A i \in Invoices : Waiting(i)' \subseteq Waiting(i)
      BY <3>1 DEF Leave, Waiting
    <3>3. QED
      BY <3>1, <3>2, FewerWait
  <2>3. CASE Transient(t)
    <3>1. /\ registered' = registered /\ inv' = inv /\ faults' = faults
          /\ \A i \in Invoices : Waiting(i)' \subseteq Waiting(i)
      BY <2>3 DEF Transient, Retry, Leave, Waiting
    <3>2. QED
      BY <3>1, FewerWait
  <2>4. CASE LoseAnswer(t) \/ Crash(t) \/ Kill(t)
    <3>1. /\ registered' = registered /\ inv' = inv /\ faults' = faults + 1
          /\ \A i \in Invoices : Waiting(i)' \subseteq Waiting(i) \cup {t}
      BY <2>4 DEF LoseAnswer, Retry, Crash, Kill, Leave, Waiting
    <3>2. QED
      BY <3>1, OneMoreWaits
  <2>5. CASE Register(t)
    <3> SUFFICES ASSUME NEW i \in Invoices
                 PROVE  (registered[i] + Cardinality(Waiting(i)) <= Cardinality(Sent(i)) + faults)'
      BY DEF CountOK
    <3>1. Sent(i)' = Sent(i) /\ faults' = faults
      BY <2>5 DEF Register, Sent
    <3>2. CASE i = inv[t]
      <4>1. t \in Waiting(i) /\ Waiting(i)' = Waiting(i) \ {t}
        BY <2>5, <3>2 DEF Register, Waiting
      <4>2. Cardinality(Waiting(i)') + 1 = Cardinality(Waiting(i))
        BY <4>1, Counts, Removed
      <4>3. IsFiniteSet(Waiting(i)') /\ Cardinality(Waiting(i)') \in Nat
        BY <4>1, Counts, FS_Subset, FS_CardinalityType
      <4>4. registered'[i] = registered[i] + 1
        BY <2>5, <3>2 DEF Register
      <4>5. QED
        BY <3>1, <4>2, <4>3, <4>4, Counts DEF CountOK
    <3>3. CASE i # inv[t]
      <4>1. Waiting(i)' = Waiting(i) /\ registered'[i] = registered[i]
        BY <2>5, <3>3 DEF Register, Waiting
      <4>2. QED
        BY <3>1, <4>1 DEF CountOK
    <3>4. QED
      BY <3>2, <3>3
  <2>6. ASSUME NEW e \in Tasks, CrashAfterRetry(t, e) PROVE CountOK'
    <3>1. inv[t] \in Invoices /\ inv[e] = None /\ t # e
      BY <2>6, ConstantsAssumption DEF CrashAfterRetry, Working
    <3>2. /\ inv' = [inv EXCEPT ![e] = inv[t]] /\ registered' = registered
          /\ faults' = faults + 1 /\ faults' \in Nat /\ faults <= faults'
      BY <2>6 DEF CrashAfterRetry
    <3>3. PICK i \in Invoices : i = inv[t]
      BY <3>1
    <3>4. PICK W : W = Waiting(i) \cup {t}
      OBVIOUS
    <3>5. /\ Waiting(i)' \subseteq W \cup {e}
          /\ \A j \in Invoices \ {i} : Waiting(j)' \subseteq Waiting(j)
      BY <2>6, <3>1, <3>3, <3>4, ConstantsAssumption DEF CrashAfterRetry, Waiting
    <3>6. IsFiniteSet(W) /\ Cardinality(W) <= Cardinality(Waiting(i)) + 1 /\ Cardinality(W) \in Nat
      <4>1. IsFiniteSet(W)
        BY <3>4, Counts, FS_AddElement
      <4>2. Cardinality(W) <= Cardinality(Waiting(i)) + 1
        BY <3>4, Counts, Added
      <4>3. QED
        BY <4>1, <4>2, FS_CardinalityType
    <3>7. Cardinality(W) + faults <= Cardinality(Waiting(i)) + faults'
      BY <3>2, <3>6, Counts
    <3>8. QED
      BY <3>1, <3>2, <3>3, <3>5, <3>6, <3>7, OneMoreSent
  <2>7. QED
    BY <1>5, <2>1, <2>2, <2>3, <2>4, <2>5, <2>6 DEF Task
<1>6. QED
  BY <1>1, <1>2, <1>3, <1>4, <1>5 DEF Next

\* An invoice is registered no more often than messages were sent for it and
\* faults occurred, for any number of either.
THEOREM Accounted == Spec => []RegistrationsAccounted
<1>1. CountInv => RegistrationsAccounted
  <2> SUFFICES ASSUME CountInv, NEW i \in Invoices
               PROVE  registered[i] <= Cardinality({t \in Tasks : inv[t] = i}) + faults
    BY DEF RegistrationsAccounted
  <2>1. registered[i] \in Nat /\ faults \in Nat
    BY ConstantsAssumption DEF CountInv, RowsInv, TypeInv, TypeOK
  <2>2. QED
    BY <2>1, Counts DEF CountInv, CountOK, Sent
<1>2. QED
  BY <1>1, InitCount, NextCount, PTL DEF Spec

--------------------------------------------------------------------------------
(* One task at a time: what the row says is what the service did *)

\* What the columns of a row must say when the invoice was registered n times
Agrees(s, n) ==
  /\ s.status = "acknowledged" => s.mark \in 1 .. n /\ s.acknowledged_at = s.mark
  /\ s.status = "submitted" => s.mark = 0 /\ s.acknowledged_at = 0

\* An invoice that is not shared has one task at most
Alone ==
  \A t, u \in Tasks :
    inv[t] = inv[u] /\ inv[t] \in Invoices \ Shared /\ pc[t] # "gone" /\ pc[u] # "gone" => t = u

\* What a task has loaded is what is stored, unless the invoice was deleted
SnapshotOK(t) ==
  /\ Agrees(seen[t], registered[inv[t]])
  /\ IF Inserting(t) THEN \A r \in rows : row[r].invoice # inv[t]
                     ELSE target[t] \in rows => row[target[t]] = seen[t]
  /\ pc[t] = "registered" => mark[t] \in 1 .. registered[inv[t]]

SnapshotsOK ==
  \A t \in Tasks : pc[t] \in Working /\ inv[t] \notin Shared => SnapshotOK(t)

ExclusiveInv ==
  RowsInv /\ Alone /\ SnapshotsOK /\ OneRowPerInvoice /\ StatusMatchesMark

\* A row still agrees when its invoice is registered again.
LEMMA AgreesMonotone ==
  ASSUME NEW s \in Row, NEW n \in Nat, NEW m \in Nat, n <= m, Agrees(s, n)
  PROVE  Agrees(s, m)
BY DEF Agrees, Row

\* The rows of the invoices other than i stay as they are
OthersKept(i) ==
  \A r \in Tasks : inv[r] # i =>
    (r \in rows <=> r \in rows') /\ (r \in rows => row'[r] = row[r])

\* A task that ends its transaction and touches only rows of its own invoice
\* leaves the snapshots of the others true.
LEMMA OthersOK ==
  ASSUME ExclusiveInv, RowsInv', NEW t \in Tasks, NEW step, NEW value, Leave(t, step, value),
         step \notin Working, pc[t] \notin {"unsent", "gone"},
         inv' = inv, registered' = registered, OthersKept(inv[t])
  PROVE  SnapshotsOK'
<1> USE DEF ExclusiveInv, RowsInv, TypeInv, TypeOK
<1> SUFFICES ASSUME NEW u \in Tasks, pc'[u] \in Working, inv[u] \notin Shared
             PROVE  SnapshotOK(u)'
  BY DEF SnapshotsOK
<1>1. u # t /\ pc'[u] = pc[u] /\ seen'[u] = seen[u] /\ target'[u] = target[u] /\ mark'[u] = mark[u]
  BY DEF Leave
<1>2. SnapshotOK(u)
  BY <1>1 DEF SnapshotsOK
<1>3. inv[u] # inv[t]
  BY <1>1, ConstantsAssumption DEF Alone, Working
<1>4. Inserting(u)' <=> Inserting(u)
  BY <1>1 DEF Inserting
<1>5. CASE Inserting(u)
  <2>1. ASSUME NEW r \in rows' PROVE row'[r].invoice # inv[u]
    <3>1. row'[r].invoice = inv[r] /\ r \in Tasks
      BY DEF RowsOK
    <3>2. CASE inv[r] = inv[t]
      BY <1>3, <3>1, <3>2
    <3>3. CASE inv[r] # inv[t]
      BY <1>2, <1>5, <3>1, <3>3 DEF SnapshotOK, OthersKept
    <3>4. QED
      BY <3>2, <3>3
  <2>2. QED
    BY <1>1, <1>2, <1>4, <1>5, <2>1 DEF SnapshotOK
<1>6. CASE ~Inserting(u)
  <2>1. inv[target[u]] = inv[u] /\ target[u] \in Tasks
    BY <1>1, <1>6 DEF TasksOK
  <2>2. target[u] \in rows' => row'[target[u]] = seen[u]
    BY <1>2, <1>3, <1>6, <2>1 DEF OthersKept, SnapshotOK
  <2>3. QED
    BY <1>1, <1>2, <1>4, <1>6, <2>2 DEF SnapshotOK
<1>7. QED
  BY <1>5, <1>6

\* A commit touches only rows of the invoice of its task.
LEMMA CommitKeepsOthers ==
  ASSUME RowsInv, NEW t \in Tasks, pc[t] \in Working, NEW wanted, Commit(t, wanted)
  PROVE  OthersKept(inv[t])
<1>1. target[t] \in Tasks /\ inv[target[t]] = inv[t]
  BY DEF RowsInv, TypeInv, TasksOK
<1>2. row \in [Tasks -> Row]
  BY DEF RowsInv, TypeInv, TypeOK
<1>3. QED
  BY <1>1, <1>2 DEF Commit, OthersKept

\* Rows of other invoices kept, and the one row of t's invoice agrees.
LEMMA CommitExclusive ==
  ASSUME ExclusiveInv, RowsInv', NEW t \in Tasks, pc[t] \in Working, NEW wanted \in Row,
         Commit(t, wanted), wanted.invoice = inv[t], inv' = inv, registered' = registered,
         inv[t] \notin Shared => Agrees(wanted, registered[inv[t]])
  PROVE  OneRowPerInvoice' /\ StatusMatchesMark'
<1> USE DEF ExclusiveInv, RowsInv, TypeInv, TypeOK
<1>1. OthersKept(inv[t])
  BY CommitKeepsOthers
<1>2. target[t] \in Tasks /\ inv[target[t]] = inv[t]
  BY DEF TasksOK
<1>3. \A r \in rows' : r \in Tasks /\ row'[r].invoice = inv[r]
  BY DEF RowsOK
<1>4. ASSUME inv[t] \notin Shared, NEW r \in rows', inv[r] = inv[t]
      PROVE  r = target[t] /\ row'[r] = wanted
  <2>1. SnapshotOK(t)
    BY <1>4 DEF SnapshotsOK
  <2>2. CASE Inserting(t)
    <3>1. row' = [row EXCEPT ![target[t]] = wanted] /\ rows' = rows \cup {target[t]}
      BY <2>2 DEF Commit
    <3>2. r \notin rows
      <4>1. \A q \in rows : row[q].invoice # inv[t]
        BY <2>1, <2>2 DEF SnapshotOK
      <4>2. \A q \in rows : row[q].invoice = inv[q]
        BY DEF RowsOK
      <4>3. QED
        BY <1>4, <4>1, <4>2
    <3>3. QED
      BY <1>2, <3>1, <3>2
  <2>3. CASE ~Inserting(t)
    <3>1. target[t] \in rows /\ rows' = rows /\ row[target[t]] = seen[t]
      BY <2>1, <2>3 DEF Commit, SnapshotOK
    <3>2. row[r].invoice = row[target[t]].invoice /\ row[r].invoice \notin Shared
      BY <1>2, <1>4, <3>1 DEF RowsOK
    <3>3. r = target[t]
      BY <1>4, <3>1, <3>2 DEF OneRowPerInvoice
    <3>4. row'[r] = Flush(row[r], seen[t], wanted)
      BY <1>2, <2>3, <3>3 DEF Commit
    <3>5. row[r] = seen[t] /\ seen[t] \in Row
      BY <3>1, <3>3
    <3>6. QED
      BY <3>3, <3>4, <3>5, FlushType
  <2>4. QED
    BY <2>2, <2>3
<1>5. OneRowPerInvoice'
  <2> SUFFICES ASSUME NEW r \in rows', NEW q \in rows', inv[r] = inv[q], inv[r] \notin Shared
               PROVE  r = q
    BY <1>3 DEF OneRowPerInvoice
  <2>1. CASE inv[r] = inv[t]
    BY <1>4, <2>1
  <2>2. CASE inv[r] # inv[t]
    BY <1>1, <1>3, <2>2 DEF OthersKept, OneRowPerInvoice, RowsOK
  <2>3. QED
    BY <2>1, <2>2
<1>6. StatusMatchesMark'
  <2> SUFFICES ASSUME NEW r \in rows', inv[r] \notin Shared
               PROVE  Agrees(row'[r], registered[inv[r]])
    BY <1>3 DEF StatusMatchesMark, Agrees
  <2>1. CASE inv[r] = inv[t]
    BY <1>4, <2>1
  <2>2. CASE inv[r] # inv[t]
    <3>1. r \in rows /\ row'[r] = row[r] /\ row[r].invoice = inv[r]
      BY <1>1, <1>3, <2>2 DEF OthersKept, RowsOK
    <3>2. QED
      BY <3>1 DEF StatusMatchesMark, Agrees
  <2>3. QED
    BY <2>1, <2>2
<1>7. QED
  BY <1>5, <1>6

LEMMA InitExclusive == Init => ExclusiveInv
BY InitRows, ConstantsAssumption
   DEF Init, ExclusiveInv, Alone, SnapshotsOK, OneRowPerInvoice, StatusMatchesMark, Working

LEMMA NextExclusive == ExclusiveInv /\ [Next]_vars => ExclusiveInv'
<1> SUFFICES ASSUME ExclusiveInv, [Next]_vars
             PROVE  Alone' /\ SnapshotsOK' /\ OneRowPerInvoice' /\ StatusMatchesMark'
  BY NextRows DEF ExclusiveInv
<1>0. RowsInv /\ RowsInv' /\ TypeInv /\ TypeOK
  BY NextRows DEF ExclusiveInv, RowsInv, TypeInv
<1> USE <1>0 DEF ExclusiveInv, TypeInv, TypeOK, database, work
<1>1. CASE UNCHANGED vars
  BY <1>1 DEF vars, Alone, SnapshotsOK, SnapshotOK, Inserting, OneRowPerInvoice, StatusMatchesMark
<1>2. ASSUME NEW t \in Tasks, NEW i \in Invoices, Send(t, i)
      PROVE  Alone' /\ SnapshotsOK' /\ OneRowPerInvoice' /\ StatusMatchesMark'
  <2>1. Alone'
    BY <1>2, ConstantsAssumption DEF Send, MaySend, Alone
  <2>2. ASSUME NEW u \in Tasks, pc[u] \in Working PROVE u # t
    BY <1>2, <2>2 DEF Send, Working
  <2>3. SnapshotsOK'
    BY <1>2, <2>2 DEF Send, SnapshotsOK, SnapshotOK, Inserting, Working
  <2>4. OneRowPerInvoice' /\ StatusMatchesMark'
    BY <1>2 DEF Send, OneRowPerInvoice, StatusMatchesMark
  <2>5. QED
    BY <2>1, <2>3, <2>4
<1>3. ASSUME NEW b \in BOOLEAN, SetActive(b)
      PROVE  Alone' /\ SnapshotsOK' /\ OneRowPerInvoice' /\ StatusMatchesMark'
  BY <1>3 DEF SetActive, Alone, SnapshotsOK, SnapshotOK, Inserting, OneRowPerInvoice, StatusMatchesMark
<1>4. ASSUME NEW i \in Invoices, Delete(i)
      PROVE  Alone' /\ SnapshotsOK' /\ OneRowPerInvoice' /\ StatusMatchesMark'
  BY <1>4 DEF Delete, RowsOf, Alone, SnapshotsOK, SnapshotOK, Inserting, OneRowPerInvoice,
              StatusMatchesMark
<1>5. ASSUME NEW t \in Tasks, Task(t)
      PROVE  Alone' /\ SnapshotsOK' /\ OneRowPerInvoice' /\ StatusMatchesMark'
  <2>1. CASE Skip(t) \/ Missing(t) \/ Fail(t) \/ Crash(t) \/ Kill(t)
             \/ Transient(t) \/ LoseAnswer(t)
    <3>1. /\ UNCHANGED <<database, inv, registered>> /\ pc[t] \notin {"unsent", "gone"}
          /\ \E step, value : Leave(t, step, value) /\ step \notin Working
      BY <2>1 DEF Skip, Missing, Fail, Crash, Kill, Transient, LoseAnswer, Retry, Working
    <3>2. OthersKept(inv[t])
      BY <3>1 DEF OthersKept
    <3>3. SnapshotsOK'
      BY <3>1, <3>2, OthersOK
    <3>4. Alone' /\ OneRowPerInvoice' /\ StatusMatchesMark'
      BY <3>1 DEF Leave, Alone, OneRowPerInvoice, StatusMatchesMark
    <3>5. QED
      BY <3>3, <3>4
  <2>2. CASE Ack(t)
    BY <2>2 DEF Ack, Alone, SnapshotsOK, SnapshotOK, Inserting, Working, OneRowPerInvoice,
                StatusMatchesMark
  <2>3. CASE Load(t)
    <3>1. UNCHANGED <<database, inv, registered, mark>> /\ pc' = [pc EXCEPT ![t] = "loaded"]
      BY <2>3 DEF Load
    <3>2. ASSUME NEW u \in Tasks, u # t, pc'[u] \in Working, inv[u] \notin Shared
          PROVE  SnapshotOK(u)'
      <4>1. SnapshotOK(u)
        BY <3>1, <3>2 DEF SnapshotsOK
      <4>2. /\ pc'[u] = pc[u] /\ seen'[u] = seen[u] /\ target'[u] = target[u]
            /\ mark'[u] = mark[u]
        BY <2>3, <3>2 DEF Load
      <4>3. QED
        BY <3>1, <4>1, <4>2 DEF SnapshotOK, Inserting
    <3>3. ASSUME inv[t] \notin Shared PROVE SnapshotOK(t)'
      <4>1. CASE RowsOf(inv[t]) = {}
        <5>1. seen'[t] = NewRow(inv[t]) /\ pc'[t] = "loaded"
          BY <2>3, <4>1 DEF Load
        <5>2. \A r \in rows : row[r].invoice # inv[t]
          BY <4>1 DEF RowsOf
        <5>3. QED
          BY <3>1, <5>1, <5>2 DEF SnapshotOK, Inserting, NewRow, Agrees, Working
      <4>2. ASSUME NEW r \in RowsOf(inv[t]),
                   target' = [target EXCEPT ![t] = r], seen' = [seen EXCEPT ![t] = row[r]]
            PROVE  SnapshotOK(t)'
        <5>1. r \in rows /\ row[r].invoice = inv[t] /\ row[r].status # "pending"
          BY DEF RowsOf, RowsInv, RowsOK
        <5>2. Agrees(row[r], registered[inv[t]])
          BY <3>3, <5>1 DEF StatusMatchesMark, Agrees
        <5>3. seen'[t] = row[r] /\ target'[t] = r /\ pc'[t] = "loaded"
          BY <3>1, <4>2, <5>1
        <5>4. QED
          BY <3>1, <5>1, <5>2, <5>3 DEF SnapshotOK, Inserting
      <4>3. QED
        BY <2>3, <4>1, <4>2 DEF Load
    <3>4. SnapshotsOK'
      BY <3>1, <3>2, <3>3 DEF SnapshotsOK
    <3>5. Alone' /\ OneRowPerInvoice' /\ StatusMatchesMark'
      BY <2>3, <3>1 DEF Load, Alone, OneRowPerInvoice, StatusMatchesMark
    <3>6. QED
      BY <3>4, <3>5
  <2>4. CASE MappingFails(t)
    <3> DEFINE wanted == [seen[t] EXCEPT !.status = "failed"]
    <3>1. wanted \in Row /\ wanted.invoice = inv[t] /\ Agrees(wanted, registered[inv[t]])
      BY <2>4 DEF MappingFails, Working, Row, Status, Agrees
    <3>2. /\ pc[t] \in Working /\ Commit(t, wanted) /\ Leave(t, "failing", None)
          /\ inv' = inv /\ registered' = registered
      BY <2>4 DEF MappingFails, Working
    <3> HIDE DEF wanted
    <3>3. OneRowPerInvoice' /\ StatusMatchesMark'
      BY <3>1, <3>2, CommitExclusive
    <3>4. SnapshotsOK'
      BY <3>2, CommitKeepsOthers, OthersOK DEF Working
    <3>5. Alone'
      BY <3>2 DEF Leave, Alone, Working
    <3>6. QED
      BY <3>3, <3>4, <3>5
  <2>5. CASE Register(t)
    <3>1. ASSUME NEW u \in Tasks, pc'[u] \in Working, inv[u] \notin Shared PROVE SnapshotOK(u)'
      <4>1. /\ pc[u] \in Working /\ seen[u] \in Row /\ inv[u] \in Invoices
            /\ registered[inv[u]] \in Nat /\ registered[inv[u]] <= registered'[inv[u]]
        BY <2>5, <3>1, ConstantsAssumption DEF Register, Working
      <4>2. SnapshotOK(u)
        BY <3>1, <4>1 DEF SnapshotsOK
      <4>3. Agrees(seen[u], registered'[inv[u]])
        BY <2>5, <4>1, <4>2, AgreesMonotone DEF SnapshotOK, Register
      <4>4. pc'[u] = "registered" => mark'[u] \in 1 .. registered'[inv[u]]
        BY <2>5, <4>1, <4>2 DEF SnapshotOK, Register
      <4>5. Inserting(u)' <=> Inserting(u)
        BY <2>5, <4>1 DEF Register, Inserting, Working
      <4>6. QED
        BY <2>5, <4>2, <4>3, <4>4, <4>5 DEF SnapshotOK, Register
    <3>2. StatusMatchesMark'
      <4> SUFFICES ASSUME NEW r \in rows, row[r].invoice \notin Shared
                   PROVE  Agrees(row[r], registered'[row[r].invoice])
        BY <2>5 DEF Register, StatusMatchesMark, Agrees
      <4>1. /\ row[r] \in Row /\ registered[row[r].invoice] \in Nat
            /\ registered'[row[r].invoice] \in Nat
            /\ registered[row[r].invoice] <= registered'[row[r].invoice]
        BY <2>5 DEF Register, Row
      <4>2. Agrees(row[r], registered[row[r].invoice])
        BY DEF StatusMatchesMark, Agrees
      <4>3. QED
        BY <4>1, <4>2, AgreesMonotone
    <3>3. Alone' /\ OneRowPerInvoice'
      BY <2>5 DEF Register, Alone, OneRowPerInvoice
    <3>4. QED
      BY <2>5, <3>1, <3>2, <3>3 DEF SnapshotsOK, Register
  <2>6. ASSUME NEW marked \in BOOLEAN, StoreSuccess(t, marked)
        PROVE  Alone' /\ SnapshotsOK' /\ OneRowPerInvoice' /\ StatusMatchesMark'
    <3> DEFINE wanted == IF marked THEN Answered(seen[t], "acknowledged", mark[t])
                                   ELSE Answered(seen[t], "submitted", 0)
               value  == IF marked THEN "acknowledged" ELSE "submitted"
    <3>1. /\ pc[t] = "registered" /\ pc[t] \in Working
          /\ seen[t] \in Row /\ seen[t].invoice = inv[t] /\ mark[t] \in Nat
      BY <2>6 DEF StoreSuccess, Working
    <3>2. wanted \in Row /\ wanted.invoice = inv[t]
      BY <3>1, AcknowledgedType, SubmittedType
    <3>3. inv[t] \notin Shared => Agrees(wanted, registered[inv[t]])
      <4>1. inv[t] \notin Shared => mark[t] \in 1 .. registered[inv[t]]
        BY <3>1 DEF SnapshotsOK, SnapshotOK
      <4>2. QED
        BY <3>1, <4>1 DEF Answered, Agrees, Row
    <3>4. /\ Commit(t, wanted) /\ Leave(t, "done", value)
          /\ inv' = inv /\ registered' = registered
      BY <2>6 DEF StoreSuccess
    <3> HIDE DEF wanted, value
    <3>5. OneRowPerInvoice' /\ StatusMatchesMark'
      BY <3>1, <3>2, <3>3, <3>4, CommitExclusive
    <3>6. SnapshotsOK'
      BY <3>1, <3>4, CommitKeepsOthers, OthersOK DEF Working
    <3>7. Alone'
      BY <3>1, <3>4 DEF Leave, Alone, Working
    <3>8. QED
      BY <3>5, <3>6, <3>7
  <2>7. CASE StoreRefusal(t)
    <3> DEFINE wanted == Answered(seen[t], "failed", 0)
    <3>1. pc[t] \in Working /\ seen[t] \in Row /\ seen[t].invoice = inv[t]
      BY <2>7 DEF StoreRefusal, Working
    <3>2. wanted \in Row /\ wanted.invoice = inv[t] /\ Agrees(wanted, registered[inv[t]])
      BY <3>1, RefusedType DEF Agrees
    <3>3. /\ Commit(t, wanted) /\ Leave(t, "done", "failed")
          /\ inv' = inv /\ registered' = registered
      BY <2>7 DEF StoreRefusal
    <3> HIDE DEF wanted
    <3>4. OneRowPerInvoice' /\ StatusMatchesMark'
      BY <3>1, <3>2, <3>3, CommitExclusive
    <3>5. SnapshotsOK'
      BY <3>1, <3>3, CommitKeepsOthers, OthersOK DEF Working
    <3>6. Alone'
      BY <3>1, <3>3 DEF Leave, Alone, Working
    <3>7. QED
      BY <3>4, <3>5, <3>6
  <2>8. CASE MarkFailed(t)
    <3>1. /\ pc[t] = "failing" /\ rows' = rows /\ inv' = inv /\ registered' = registered
          /\ Leave(t, "done", "failed")
      BY <2>8 DEF MarkFailed
    <3>2. \A r \in rows :
            /\ row'[r].invoice = row[r].invoice
            /\ row'[r] # row[r] => row[r].invoice = inv[t] /\ row'[r].status = "failed"
      <4>1. CASE UNCHANGED row
        BY <4>1
      <4>2. ASSUME NEW q \in RowsOf(inv[t]), row' = [row EXCEPT ![q].status = "failed"], NEW r \in rows
            PROVE  /\ row'[r].invoice = row[r].invoice
                   /\ row'[r] # row[r] => row[r].invoice = inv[t] /\ row'[r].status = "failed"
        <5>1. row[r] \in Row /\ row[q].invoice = inv[t]
          BY DEF RowsOf
        <5>2. row'[r] = IF r = q THEN [row[r] EXCEPT !.status = "failed"] ELSE row[r]
          BY <4>2
        <5>3. QED
          BY <5>1, <5>2 DEF Row
      <4>3. QED
        BY <2>8, <4>1, <4>2 DEF MarkFailed
    <3>3. OthersKept(inv[t])
      <4>1. \A r \in rows : row[r].invoice = inv[r]
        BY DEF RowsInv, RowsOK
      <4>2. QED
        BY <3>1, <3>2, <4>1 DEF OthersKept
    <3>4. SnapshotsOK'
      BY <3>1, <3>3, OthersOK DEF Working
    <3>5. OneRowPerInvoice' /\ StatusMatchesMark'
      BY <3>1, <3>2 DEF OneRowPerInvoice, StatusMatchesMark
    <3>6. Alone'
      BY <3>1 DEF Leave, Alone
    <3>7. QED
      BY <3>4, <3>5, <3>6
  <2>9. ASSUME NEW e \in Tasks, CrashAfterRetry(t, e)
        PROVE  Alone' /\ SnapshotsOK' /\ OneRowPerInvoice' /\ StatusMatchesMark'
    <3>1. /\ UNCHANGED <<rows, row, registered>> /\ inv[t] \in Shared
          /\ \A u \in Tasks : u # e => inv'[u] = inv[u]
          /\ inv'[e] = inv[t] /\ pc'[e] = "queued" /\ pc'[t] = "queued" /\ pc[t] # "gone"
          /\ \A u \in Tasks \ {e, t} : pc'[u] = pc[u] /\ seen'[u] = seen[u]
                                      /\ target'[u] = target[u] /\ mark'[u] = mark[u]
      BY <2>9 DEF CrashAfterRetry, Working
    <3>2. Alone'
      BY <3>1 DEF Alone
    <3>3. SnapshotsOK'
      BY <3>1 DEF SnapshotsOK, SnapshotOK, Inserting, Working
    <3>4. QED
      BY <3>1, <3>2, <3>3 DEF OneRowPerInvoice, StatusMatchesMark
  <2>10. QED
    BY <1>5, <2>1, <2>2, <2>3, <2>4, <2>5, <2>6, <2>7, <2>8, <2>9 DEF Task
<1>6. QED
  BY <1>1, <1>2, <1>3, <1>4, <1>5 DEF Next

\* With one task at a time, retries, redeliveries, deletions and re-submissions
\* never leave an invoice with two submission rows.
THEOREM OneRow == Spec => []OneRowPerInvoice
<1>1. ExclusiveInv => OneRowPerInvoice
  BY DEF ExclusiveInv
<1>2. QED
  BY <1>1, InitExclusive, NextExclusive, PTL DEF Spec

\* With one task at a time an acknowledged row has the mark of a registration
\* that took place, for any number of messages, retries and faults.
THEOREM MarksAgree == Spec => []StatusMatchesMark
<1>1. ExclusiveInv => StatusMatchesMark
  BY DEF ExclusiveInv
<1>2. QED
  BY <1>1, InitExclusive, NextExclusive, PTL DEF Spec
===============================================================================
