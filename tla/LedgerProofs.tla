------------------------------ MODULE LedgerProofs ------------------------------
(***************************************************************************)
(* Proofs about Ledger, for any number of actors, suppliers and invoices   *)
(* and any statement: its types, that an invoice keeps its supplier, that  *)
(* a supplier is not doubled and that an invoice is not paid twice, but by *)
(* transactions that overlapped.                                           *)
(*                                                                         *)
(* The three arguments have one shape.  A transaction reads, and what it   *)
(* will write was right when it read: no row had that name, no line had    *)
(* that invoice.  If that is no longer so, the transaction that changed it *)
(* committed in between, and the pair is in overlaps for good.             *)
(***************************************************************************)
EXTENDS Ledger, TLAPS

--------------------------------------------------------------------------------
(* Type correctness.  TypeOK is not inductive: a commit writes what the actor  *)
(* found before, which depends on the step it has reached.                     *)

Attaching == {"again", "resolved", "insert", "inserted", "flushed"}

\* What an actor knows at each of its steps
Knows(x) ==
  /\ pc[x] = "new" => kind[x] = "none" /\ found[x] = None /\ matched[x] = <<>>
  /\ pc[x] \in Attaching => kind[x] = "ocr" /\ invoice[x] \in Invoices
  /\ pc[x] = "again" => found[x] = None
  /\ pc[x] \in {"insert", "inserted"} =>
       found[x] = x /\ value[x] = Extracted[invoice[x]] /\ value[x] # Nothing
  /\ pc[x] \in {"resolved", "flushed"} => (Named(invoice[x]) => found[x] # None)
  /\ pc[x] \in Attaching \cup {"new"} => value[x].vat # Kept
  /\ pc[x] = "update" => kind[x] = "update" /\ found[x] \in Suppliers
  /\ pc[x] \in {"move", "moved"} =>
       kind[x] = "merge" /\ found[x] \in Suppliers /\ goal[x] \in Suppliers /\ found[x] # goal[x]
  /\ pc[x] = "pay" => kind[x] \in {"pay", "unpay", "delete"} /\ invoice[x] \in Invoices
  /\ pc[x] = "import" => kind[x] = "import" /\ Len(matched[x]) <= Len(Statement)

TypeInv == TypeOK /\ \A x \in Actors : Knows(x)

LEMMA TypeInit == Init => TypeInv
<1> SUFFICES ASSUME Init PROVE TypeInv
  OBVIOUS
<1>1. <<>> \in Seq(Invoices \cup {None})
  OBVIOUS
<1>2. [x \in Actors |-> <<>>] \in [Actors -> Seq(Invoices \cup {None})]
  BY <1>1
<1>3. TypeOK
  BY <1>2, ConstantsAssumption DEF Init, TypeOK, Suppliers, Nothing
<1>4. \A x \in Actors : Knows(x)
  BY ConstantsAssumption DEF Init, Knows, Attaching, Nothing
<1>5. QED
  BY <1>3, <1>4 DEF TypeInv

\* The parts of the state one actor owns
Same(x) ==
  /\ pc'[x] = pc[x] /\ kind'[x] = kind[x] /\ invoice'[x] = invoice[x]
  /\ found'[x] = found[x] /\ goal'[x] = goal[x] /\ value'[x] = value[x]
  /\ moved'[x] = moved[x] /\ matched'[x] = matched[x]

Step(x) == Ocr(x) \/ SupplierRequest(x) \/ Payment(x)

LEMMA KnowsSame ==
  ASSUME NEW x, Knows(x), Same(x)
  PROVE  Knows(x)'
BY DEF Knows, Same, Attaching, Named

LEMMA OthersSame ==
  ASSUME TypeOK, NEW x \in Actors, Step(x)
  PROVE  \A y \in Actors \ {x} : Same(y)
<1> USE DEF TypeOK, Same, work, tables, Committed, RolledBack, Is, DatabaseError
<1>1. CASE Ocr(x)
  BY <1>1 DEF Ocr, Resolve, Refused, InsertSupplier, Attach, AttachCommit
<1>2. CASE SupplierRequest(x)
  BY <1>2 DEF SupplierRequest, Create, UpdateLoad, UpdateCommit, MergeLoad, Move, MergeCommit,
              MergeVictim
<1>3. CASE Payment(x)
  BY <1>3 DEF Payment, PayLoad, PayCommit, ImportLoad, MatchLine, ImportFails, ImportCommit
<1>4. QED
  BY <1>1, <1>2, <1>3 DEF Step

\* TypeOK in three parts: the tables, the work of the actors, their steps
TablesOK ==
  /\ suppliers \subseteq Suppliers
  /\ vat \in [Suppliers -> Vats \cup {None}] /\ name \in [Suppliers -> Names]
  /\ invoices \subseteq Invoices /\ extracted \subseteq Invoices
  /\ supplier \in [Invoices -> Suppliers \cup {None}] /\ paid \in [Invoices -> Actors \cup {None}]
  /\ transactions \subseteq [by: Actors, line: 1..Len(Statement), invoice: Invoices \cup {None}]

WorkOK ==
  /\ kind \in [Actors -> AllKinds \cup {"none"}]
  /\ invoice \in [Actors -> Invoices \cup {None}]
  /\ found \in [Actors -> Suppliers \cup {None}] /\ goal \in [Actors -> Suppliers \cup {None}]
  /\ value \in [Actors -> [vat: Vats \cup {None, Kept}, name: Names \cup {None}]]
  /\ moved \in [Actors -> SUBSET Invoices] /\ loaded \in [Actors -> SUBSET Invoices]
  /\ matched \in [Actors -> Seq(Invoices \cup {None})]

Steps == {"new", "again", "resolved", "insert", "inserted", "flushed", "update", "move",
          "moved", "pay", "import", "done"}

StepsOK ==
  /\ pc \in [Actors -> Steps]
  /\ retries \in [Actors -> 0..MaxRetries] /\ overlaps \subseteq Actors \X Actors

LEMMA TypeParts ==
  /\ TypeOK <=> TablesOK /\ WorkOK /\ StepsOK
  /\ TypeOK' <=> TablesOK' /\ WorkOK' /\ StepsOK'
BY DEF TypeOK, TablesOK, WorkOK, StepsOK, Steps

LEMMA Unchanged ==
  /\ TablesOK /\ UNCHANGED tables => TablesOK'
  /\ WorkOK /\ UNCHANGED work => WorkOK'
BY DEF TablesOK, tables, WorkOK, work

LEMMA Ends ==
  ASSUME StepsOK, NEW x \in Actors, UNCHANGED retries, Committed(x) \/ RolledBack(x)
  PROVE  StepsOK' /\ pc'[x] = "done"
BY DEF StepsOK, Steps, Committed, RolledBack, Working

\* What the assumptions say of the constants a proof about types needs
LEMMA Constants ==
  /\ Kept \notin Vats \cup {None} /\ Nothing.vat # Kept
  /\ None \notin Suppliers /\ None \notin Invoices /\ None \notin Names
  /\ UnknownName \in Names /\ Len(Statement) \in Nat /\ MaxRetries \in Nat
  /\ \A i \in Invoices : Extracted[i] \in [vat: Vats \cup {None}, name: Names \cup {None}]
  /\ Nothing \in [vat: Vats \cup {None}, name: Names \cup {None}]
BY ConstantsAssumption DEF Nothing

LEMMA TypeDatabaseError ==
  ASSUME TypeInv, NEW x \in Actors, pc[x] \in Attaching, DatabaseError(x)
  PROVE  TypeOK' /\ Knows(x)'
<1>1. TablesOK /\ WorkOK /\ StepsOK /\ Knows(x)
  BY TypeParts DEF TypeInv
<1>2. /\ UNCHANGED tables /\ pc'[x] \in {"again", "done"} /\ found'[x] = None
      /\ kind' = kind /\ invoice' = invoice
  BY <1>1 DEF DatabaseError, StepsOK, WorkOK
<1>3. WorkOK'
  BY <1>1, Constants DEF WorkOK, DatabaseError
<1>4. StepsOK'
  <2>1. CASE RetriesLeft(x)
    <3>1. retries[x] + 1 \in 0..MaxRetries
      BY <1>1, <2>1, Constants DEF StepsOK, RetriesLeft
    <3>2. retries' = [retries EXCEPT ![x] = retries[x] + 1] /\ pc' = [pc EXCEPT ![x] = "again"]
      BY <2>1 DEF DatabaseError
    <3>3. QED
      BY <1>1, <3>1, <3>2 DEF StepsOK, Steps, DatabaseError
  <2>2. CASE ~RetriesLeft(x)
    BY <1>1, <2>2 DEF StepsOK, Steps, DatabaseError
  <2>3. QED
    BY <2>1, <2>2
<1>5. Knows(x)'
  <2>1. value'[x].vat # Kept
    BY <1>1, Constants DEF DatabaseError, WorkOK
  <2>2. QED
    BY <1>1, <1>2, <2>1 DEF Knows, Attaching
<1>6. QED
  BY <1>1, <1>2, <1>3, <1>4, <1>5, TypeParts, Unchanged

\* The steps of the OCR task
LEMMA TypeResolve ==
  ASSUME TypeInv, NEW x \in Actors, NEW i \in Invoices, Resolve(x, i)
  PROVE  TypeOK' /\ Knows(x)'
<1> DEFINE e == Extracted[i]
<1>1. TablesOK /\ WorkOK /\ StepsOK /\ Knows(x)
  BY TypeParts DEF TypeInv
<1>2. /\ pc[x] \in {"new", "again"} /\ kind' \in [Actors -> AllKinds \cup {"none"}]
      /\ kind'[x] = "ocr" /\ found[x] = None
      /\ invoice' = [invoice EXCEPT ![x] = i]
      /\ UNCHANGED <<tables, goal, moved, matched, loaded, retries, overlaps>>
  BY <1>1 DEF Resolve, Is, AllKinds, Knows, Attaching, WorkOK
<1>3. /\ e \in [vat: Vats \cup {None}, name: Names \cup {None}] /\ e.vat # Kept
      /\ value[x].vat # Kept
  BY <1>1, <1>2, Constants DEF Knows, Attaching
<1> HIDE DEF e
<1>4. /\ found' \in [Actors -> Suppliers \cup {None}]
      /\ value' \in [Actors -> [vat: Vats \cup {None, Kept}, name: Names \cup {None}]]
      /\ pc' \in [Actors -> Steps] /\ pc'[x] \in {"resolved", "insert"}
      /\ pc'[x] = "insert" => found'[x] = x /\ value'[x] = e /\ e # Nothing
      /\ e # Nothing => found'[x] # None
      /\ value'[x].vat # Kept
  <2> USE <1>1 DEF WorkOK, StepsOK, Steps
  <2>1. CASE ByVat(e.vat) # {}
    <3>1. (CHOOSE s \in ByVat(e.vat) : TRUE) \in suppliers
      BY <2>1 DEF ByVat
    <3>2. PICK s \in suppliers : found' = [found EXCEPT ![x] = s]
      BY <2>1, <3>1 DEF Resolve, e
    <3>3. value' = [value EXCEPT ![x] = Nothing] /\ pc' = [pc EXCEPT ![x] = "resolved"]
      BY <2>1 DEF Resolve, e
    <3>4. s \in Suppliers /\ s # None
      BY Constants DEF TablesOK
    <3>5. QED
      BY <3>2, <3>3, <3>4, Constants
  <2>2. CASE ByVat(e.vat) = {} /\ ByName(e.name) # {}
    <3>1. PICK s \in ByName(e.name) :
             /\ found' = [found EXCEPT ![x] = s]
             /\ value' = [value EXCEPT ![x].vat = IF vat[s] = None THEN e.vat ELSE None]
             /\ pc' = [pc EXCEPT ![x] = "resolved"]
      BY <2>2 DEF Resolve, e
    <3>2. s \in Suppliers /\ s # None
      BY Constants DEF ByName, TablesOK
    <3>3. LET v == [value[x] EXCEPT !.vat = IF vat[s] = None THEN e.vat ELSE None]
          IN  /\ v \in [vat: Vats \cup {None, Kept}, name: Names \cup {None}]
              /\ v.vat # Kept
      <4>1. value[x] \in [vat: Vats \cup {None, Kept}, name: Names \cup {None}]
        OBVIOUS
      <4>2. QED
        BY <1>3, <4>1, Constants
    <3>4. QED
      BY <3>1, <3>2, <3>3
  <2>3. CASE ByVat(e.vat) = {} /\ ByName(e.name) = {} /\ e # Nothing
    <3>1. /\ found' = [found EXCEPT ![x] = x] /\ value' = [value EXCEPT ![x] = e]
          /\ pc' = [pc EXCEPT ![x] = "insert"]
      BY <2>3 DEF Resolve, e
    <3>2. x \in Suppliers /\ x # None
      BY Constants DEF Suppliers
    <3>3. QED
      BY <1>3, <2>3, <3>1, <3>2
  <2>4. CASE ByVat(e.vat) = {} /\ ByName(e.name) = {} /\ e = Nothing
    <3>1. UNCHANGED <<found, value>> /\ pc' = [pc EXCEPT ![x] = "resolved"]
      BY <2>4 DEF Resolve, e
    <3>2. QED
      BY <1>3, <2>4, <3>1
  <2>5. QED
    BY <2>1, <2>2, <2>3, <2>4
<1>5. WorkOK' /\ StepsOK'
  BY <1>1, <1>2, <1>4 DEF WorkOK, StepsOK
<1>6. invoice'[x] = i
  BY <1>1, <1>2 DEF WorkOK
<1>7. Knows(x)'
  BY <1>2, <1>4, <1>6 DEF Knows, Attaching, Named, e
<1>8. QED
  BY <1>1, <1>2, <1>5, <1>7, TypeParts, Unchanged

LEMMA TypeOcr ==
  ASSUME TypeInv, NEW x \in Actors, Ocr(x)
  PROVE  TypeOK' /\ Knows(x)'
<1>1. TablesOK /\ WorkOK /\ StepsOK /\ Knows(x)
  BY TypeParts DEF TypeInv
<1>2. CASE Refused(x)
  <2>1. UNCHANGED <<tables, work>> /\ StepsOK' /\ pc'[x] = "done"
    BY <1>1, <1>2, Ends DEF Refused, RolledBack
  <2>2. QED
    BY <1>1, <2>1, TypeParts, Unchanged DEF Knows, Attaching
<1>3. CASE DatabaseError(x) /\ pc[x] \in Attaching
  BY <1>3, TypeDatabaseError
<1>4. CASE /\ UNCHANGED <<tables, work, retries, overlaps>>
           /\ \/ pc[x] = "insert" /\ pc' = [pc EXCEPT ![x] = "inserted"]
              \/ pc[x] \in {"resolved", "inserted"} /\ pc' = [pc EXCEPT ![x] = "flushed"]
  <2>1. StepsOK'
    BY <1>1, <1>4 DEF StepsOK, Steps
  <2>2. \/ pc[x] = "insert" /\ pc'[x] = "inserted"
        \/ pc[x] \in {"resolved", "inserted"} /\ pc'[x] = "flushed"
    BY <1>1, <1>4 DEF StepsOK
  <2>3. Knows(x)'
    BY <1>1, <1>4, <2>2, Constants DEF Knows, Attaching, Named, work, Suppliers
  <2>4. QED
    BY <1>1, <1>4, <2>1, <2>3, TypeParts, Unchanged
<1>5. CASE AttachCommit(x)
  <2>1. /\ StepsOK' /\ pc'[x] = "done" /\ UNCHANGED work
        /\ invoice[x] \in Invoices /\ found[x] \in Suppliers \cup {None}
        /\ value[x].vat \in Vats \cup {None} /\ value[x].name \in Names \cup {None}
    BY <1>1, <1>5, Ends DEF AttachCommit, Knows, Attaching, WorkOK
  <2>2. TablesOK'
    BY <1>1, <1>5, <2>1, Constants DEF AttachCommit, TablesOK, Suppliers
  <2>3. QED
    BY <1>1, <2>1, <2>2, TypeParts, Unchanged DEF Knows, Attaching
<1>6. QED
  BY <1>2, <1>3, <1>4, <1>5, TypeResolve DEF Ocr, InsertSupplier, Attach, Attaching

\* The requests about suppliers
LEMMA TypeSupplierRequest ==
  ASSUME TypeInv, NEW x \in Actors, SupplierRequest(x)
  PROVE  TypeOK' /\ Knows(x)'
<1>1. TablesOK /\ WorkOK /\ StepsOK /\ Knows(x)
  BY TypeParts DEF TypeInv
<1>2. ASSUME RolledBack(x), UNCHANGED retries, WorkOK'
      PROVE  TypeOK' /\ Knows(x)'
  <2>1. UNCHANGED tables /\ StepsOK' /\ pc'[x] = "done"
    BY <1>1, <1>2, Ends DEF RolledBack
  <2>2. QED
    BY <1>1, <1>2, <2>1, TypeParts, Unchanged DEF Knows, Attaching
<1>3. ASSUME Committed(x), UNCHANGED retries, TablesOK', WorkOK'
      PROVE  TypeOK' /\ Knows(x)'
  <2>1. StepsOK' /\ pc'[x] = "done"
    BY <1>1, <1>3, Ends
  <2>2. QED
    BY <1>3, <2>1, TypeParts DEF Knows, Attaching
<1>4. ASSUME NEW v \in Vats \cup {None}, NEW n \in Names, Create(x, v, n)
      PROVE  TypeOK' /\ Knows(x)'
  <2>1. WorkOK'
    BY <1>1, <1>4 DEF Create, Is, WorkOK, AllKinds
  <2>2. CASE VatTaken(v, x)
    BY <1>2, <1>4, <2>1, <2>2 DEF Create
  <2>3. CASE ~VatTaken(v, x)
    <3>1. TablesOK'
      BY <1>1, <1>4, <2>3 DEF Create, TablesOK, Suppliers
    <3>2. QED
      BY <1>3, <1>4, <2>1, <2>3, <3>1 DEF Create
  <2>4. QED
    BY <2>2, <2>3
<1>5. ASSUME NEW s \in Suppliers, NEW v \in Vats \cup {None}, NEW n \in Names, UpdateLoad(x, s, v, n)
      PROVE  TypeOK' /\ Knows(x)'
  <2>1. WorkOK' /\ StepsOK' /\ UNCHANGED tables
    BY <1>1, <1>5 DEF UpdateLoad, Is, WorkOK, AllKinds, StepsOK, Steps
  <2>2. pc'[x] = "update" /\ kind'[x] = "update" /\ found'[x] = s
    BY <1>1, <1>5 DEF UpdateLoad, Is, WorkOK, StepsOK
  <2>3. QED
    BY <1>1, <2>1, <2>2, TypeParts, Unchanged DEF Knows, Attaching
<1>6. CASE UpdateCommit(x)
  <2>1. WorkOK'
    BY <1>1, <1>6, Unchanged DEF UpdateCommit
  <2>2. CASE found[x] \notin suppliers \/ VatTaken(value[x].vat, found[x])
    BY <1>2, <1>6, <2>1, <2>2 DEF UpdateCommit
  <2>3. CASE ~(found[x] \notin suppliers \/ VatTaken(value[x].vat, found[x]))
    <3>1. value[x].vat \in Vats \cup {None, Kept} /\ value[x].name \in Names \cup {None}
      BY <1>1, <1>6 DEF UpdateCommit, WorkOK, Knows
    <3>2. TablesOK'
      BY <1>1, <1>6, <2>3, <3>1 DEF UpdateCommit, TablesOK
    <3>3. QED
      BY <1>3, <1>6, <2>1, <2>3, <3>2 DEF UpdateCommit
  <2>4. QED
    BY <2>2, <2>3
<1>7. ASSUME NEW s \in Suppliers, NEW t \in Suppliers, MergeLoad(x, s, t)
      PROVE  TypeOK' /\ Knows(x)'
  <2>1. WorkOK' /\ StepsOK' /\ UNCHANGED tables
    BY <1>1, <1>7 DEF MergeLoad, Is, WorkOK, AllKinds, StepsOK, Steps
  <2>2. pc'[x] = "move" /\ kind'[x] = "merge" /\ found'[x] = s /\ goal'[x] = t /\ s # t
    BY <1>1, <1>7 DEF MergeLoad, Is, WorkOK, StepsOK
  <2>3. QED
    BY <1>1, <2>1, <2>2, TypeParts, Unchanged DEF Knows, Attaching
<1>8. CASE Move(x)
  <2>1. WorkOK'
    <3>1. OfSupplier(found[x]) \in SUBSET Invoices
      BY <1>1 DEF OfSupplier, TablesOK
    <3>2. moved' = moved \/ moved' = [moved EXCEPT ![x] = OfSupplier(found[x])]
      BY <1>8 DEF Move
    <3>3. UNCHANGED <<kind, invoice, found, goal, value, matched, loaded>>
      BY <1>8 DEF Move
    <3>4. QED
      BY <1>1, <3>1, <3>2, <3>3 DEF WorkOK
  <2>2. CASE RolledBack(x)
    BY <1>2, <1>8, <2>1, <2>2 DEF Move
  <2>3. CASE ~RolledBack(x)
    <3>1. /\ pc[x] = "move" /\ pc' = [pc EXCEPT ![x] = "moved"]
          /\ UNCHANGED <<tables, kind, found, goal, retries, overlaps>>
      BY <1>8, <2>3 DEF Move
    <3>2. StepsOK' /\ pc'[x] = "moved"
      BY <1>1, <3>1 DEF StepsOK, Steps
    <3>3. QED
      BY <1>1, <2>1, <3>1, <3>2, TypeParts, Unchanged DEF Knows, Attaching
  <2>4. QED
    BY <2>2, <2>3
<1>9. CASE MergeCommit(x)
  <2>1. WorkOK'
    BY <1>1, <1>9, Unchanged DEF MergeCommit
  <2>2. goal[x] \in Suppliers
    BY <1>1, <1>9 DEF MergeCommit, Knows
  <2>3. TablesOK'
    BY <1>1, <1>9, <2>2 DEF MergeCommit, TablesOK
  <2>4. QED
    BY <1>3, <1>9, <2>1, <2>3 DEF MergeCommit
<1>10. CASE MergeVictim(x)
  <2>1. WorkOK'
    BY <1>1, <1>10 DEF MergeVictim, WorkOK
  <2>2. QED
    BY <1>2, <1>10, <2>1 DEF MergeVictim
<1>11. QED
  BY <1>4, <1>5, <1>6, <1>7, <1>8, <1>9, <1>10 DEF SupplierRequest

\* The invoice a line is matched with is unpaid
LEMMA LineMatched ==
  ASSUME NEW x, MatchLine(x)
  PROVE  \E i : /\ i = None \/ (i \in invoices /\ paid[i] = None)
                /\ matched' = [matched EXCEPT ![x] = Append(matched[x], i)]
<1> DEFINE C == Candidates(Statement[Len(matched[x]) + 1])
<1>1. PICK i \in IF C = {} THEN {None} ELSE Newest(C) :
               matched' = [matched EXCEPT ![x] = Append(matched[x], i)]
  BY DEF MatchLine
<1>2. i = None \/ i \in C
  BY <1>1 DEF Newest
<1>3. QED
  BY <1>1, <1>2 DEF Candidates

\* The payments and the imports
LEMMA TypePayment ==
  ASSUME TypeInv, NEW x \in Actors, Payment(x)
  PROVE  TypeOK' /\ Knows(x)'
<1>1. TablesOK /\ WorkOK /\ StepsOK /\ Knows(x)
  BY TypeParts DEF TypeInv
<1>2. ASSUME RolledBack(x), UNCHANGED <<work, retries>>
      PROVE  TypeOK' /\ Knows(x)'
  <2>1. UNCHANGED tables /\ StepsOK' /\ pc'[x] = "done"
    BY <1>1, <1>2, Ends DEF RolledBack
  <2>2. QED
    BY <1>1, <1>2, <2>1, TypeParts, Unchanged DEF Knows, Attaching
<1>3. ASSUME Committed(x), UNCHANGED <<work, retries>>, TablesOK'
      PROVE  TypeOK' /\ Knows(x)'
  <2>1. StepsOK' /\ pc'[x] = "done"
    BY <1>1, <1>3, Ends
  <2>2. QED
    BY <1>1, <1>3, <2>1, TypeParts, Unchanged DEF Knows, Attaching
<1>4. ASSUME NEW i \in Invoices, NEW k \in {"pay", "unpay", "delete"}, PayLoad(x, i, k)
      PROVE  TypeOK' /\ Knows(x)'
  <2>1. WorkOK' /\ StepsOK' /\ UNCHANGED tables
    BY <1>1, <1>4 DEF PayLoad, Is, WorkOK, AllKinds, StepsOK, Steps
  <2>2. pc'[x] = "pay" /\ kind'[x] = k /\ invoice'[x] = i
    BY <1>1, <1>4 DEF PayLoad, Is, WorkOK, StepsOK
  <2>3. QED
    BY <1>1, <2>1, <2>2, TypeParts, Unchanged DEF Knows, Attaching
<1>5. CASE PayCommit(x)
  <2>1. CASE invoice[x] \notin invoices
    BY <1>2, <1>5, <2>1 DEF PayCommit
  <2>2. CASE invoice[x] \in invoices
    <3>1. paid' \in [Invoices -> Actors \cup {None}] /\ invoices' \subseteq Invoices
      BY <1>1, <1>5, <2>2 DEF PayCommit, TablesOK
    <3>2. transactions' \subseteq [by: Actors, line: 1..Len(Statement), invoice: Invoices \cup {None}]
      BY <1>1, <1>5, <2>2 DEF PayCommit, TablesOK
    <3>3. TablesOK'
      BY <1>1, <1>5, <2>2, <3>1, <3>2 DEF PayCommit, TablesOK
    <3>4. QED
      BY <1>3, <1>5, <2>2, <3>3 DEF PayCommit
  <2>3. QED
    BY <2>1, <2>2
<1>6. CASE ImportLoad(x)
  <2>1. WorkOK' /\ StepsOK' /\ UNCHANGED tables
    BY <1>1, <1>6 DEF ImportLoad, Is, WorkOK, AllKinds, StepsOK, Steps
  <2>2. pc'[x] = "import" /\ kind'[x] = "import" /\ matched'[x] = <<>>
    BY <1>1, <1>6 DEF ImportLoad, Is, WorkOK, StepsOK, Knows
  <2>3. QED
    BY <1>1, <2>1, <2>2, Constants, TypeParts, Unchanged DEF Knows, Attaching
<1>7. CASE MatchLine(x)
  <2>1. PICK i \in Invoices \cup {None} : matched' = [matched EXCEPT ![x] = Append(matched[x], i)]
    BY <1>1, <1>7, LineMatched DEF TablesOK
  <2>2. /\ UNCHANGED <<tables, pc, kind, invoice, found, goal, value, moved, loaded, retries, overlaps>>
        /\ pc[x] = "import" /\ Len(matched[x]) < Len(Statement)
    BY <1>7 DEF MatchLine
  <2>3. matched[x] \in Seq(Invoices \cup {None})
    BY <1>1 DEF WorkOK
  <2>4. Append(matched[x], i) \in Seq(Invoices \cup {None})
        /\ Len(Append(matched[x], i)) = Len(matched[x]) + 1
    BY <2>3
  <2>5. WorkOK' /\ StepsOK' /\ Len(matched'[x]) <= Len(Statement)
    BY <1>1, <2>1, <2>2, <2>3, <2>4, Constants DEF WorkOK, StepsOK
  <2>6. Knows(x)'
    BY <1>1, <2>2, <2>5 DEF Knows, Attaching
  <2>7. QED
    BY <1>1, <2>2, <2>5, <2>6, TypeParts, Unchanged
<1>8. CASE ImportFails(x)
  BY <1>2, <1>8 DEF ImportFails
<1>9. CASE ImportCommit(x)
  <2>1. CASE ~(Matches(x) \subseteq invoices)
    BY <1>2, <1>9, <2>1 DEF ImportCommit
  <2>2. CASE Matches(x) \subseteq invoices
    <3>1. paid' \in [Invoices -> Actors \cup {None}]
      BY <1>1, <1>9, <2>2 DEF ImportCommit, TablesOK
    <3>2. \A k \in DOMAIN matched[x] :
            k \in 1..Len(Statement) /\ matched[x][k] \in Invoices \cup {None}
      BY <1>1, <1>9 DEF ImportCommit, WorkOK
    <3>3. transactions' \subseteq [by: Actors, line: 1..Len(Statement), invoice: Invoices \cup {None}]
      BY <1>1, <1>9, <2>2, <3>2 DEF ImportCommit, TablesOK
    <3>4. TablesOK'
      BY <1>1, <1>9, <2>2, <3>1, <3>3 DEF ImportCommit, TablesOK
    <3>5. QED
      BY <1>3, <1>9, <2>2, <3>4 DEF ImportCommit
  <2>3. QED
    BY <2>1, <2>2
<1>10. QED
  BY <1>4, <1>5, <1>6, <1>7, <1>8, <1>9 DEF Payment

LEMMA TypeStep == TypeInv /\ [Next]_vars => TypeInv'
<1> SUFFICES ASSUME TypeInv, [Next]_vars PROVE TypeInv'
  OBVIOUS
<1>1. CASE UNCHANGED vars
  <2>1. UNCHANGED <<tables, work, pc, retries, overlaps>>
    BY <1>1 DEF vars
  <2>2. TypeOK'
    BY <2>1, TypeParts, Unchanged DEF TypeInv, StepsOK
  <2>3. \A x \in Actors : Knows(x)'
    BY <2>1, KnowsSame DEF TypeInv, Same, work
  <2>4. QED
    BY <2>2, <2>3 DEF TypeInv
<1>2. ASSUME NEW x \in Actors, Step(x)
      PROVE  TypeInv'
  <2>1. TypeOK' /\ Knows(x)'
    BY <1>2, TypeOcr, TypeSupplierRequest, TypePayment DEF Step
  <2>2. \A y \in Actors \ {x} : Knows(y)'
    BY <1>2, OthersSame, KnowsSame DEF TypeInv
  <2>3. QED
    BY <2>1, <2>2 DEF TypeInv
<1>3. QED
  BY <1>1, <1>2 DEF Next, Step

\* The variables keep their types, and each actor knows what its step needs.
THEOREM TypeInvariant == Spec => []TypeInv
<1>1. QED
  BY TypeInit, TypeStep, PTL DEF Spec

\* At every state the variables have their types.
THEOREM TypeCorrect == Spec => []TypeOK
<1>1. TypeInv => TypeOK
  BY DEF TypeInv
<1>2. QED
  BY <1>1, TypeInvariant, PTL

--------------------------------------------------------------------------------
(* What stays: an actor that has begun keeps its kind, and the evidence of an  *)
(* overlap, of a change by a reviewer or of a payment taken back stays.        *)

LEMMA KindKept ==
  ASSUME TypeInv, NEW x \in Actors, kind[x] # "none", [Next]_vars
  PROVE  kind'[x] = kind[x]
<1>1. pc[x] # "new" /\ kind \in [Actors -> AllKinds \cup {"none"}]
  BY DEF TypeInv, TypeOK, Knows
<1> USE DEF work, tables, Is, DatabaseError
<1>2. ASSUME NEW y \in Actors, Ocr(y) PROVE kind'[x] = kind[x]
  BY <1>1, <1>2 DEF Ocr, Resolve, Refused, InsertSupplier, Attach, AttachCommit
<1>3. ASSUME NEW y \in Actors, SupplierRequest(y) PROVE kind'[x] = kind[x]
  BY <1>1, <1>3 DEF SupplierRequest, Create, UpdateLoad, UpdateCommit, MergeLoad, Move,
                    MergeCommit, MergeVictim
<1>4. ASSUME NEW y \in Actors, Payment(y) PROVE kind'[x] = kind[x]
  BY <1>1, <1>4 DEF Payment, PayLoad, PayCommit, ImportLoad, MatchLine, ImportFails, ImportCommit
<1>5. QED
  BY <1>2, <1>3, <1>4 DEF Next, vars

\* Only tasks and merges look for another supplier, only tasks for another invoice
LEMMA WorkKept ==
  ASSUME TypeInv, NEW x \in Actors, kind[x] \notin {"none", "ocr"}, [Next]_vars
  PROVE  found'[x] = found[x] /\ invoice'[x] = invoice[x]
<1>1. /\ pc[x] # "new" /\ pc[x] \notin Attaching
      /\ found \in [Actors -> Suppliers \cup {None}] /\ invoice \in [Actors -> Invoices \cup {None}]
  BY DEF TypeInv, TypeOK, Knows
<1> USE DEF work, tables, Is, DatabaseError, Attaching
<1>2. ASSUME NEW y \in Actors, Ocr(y) PROVE found'[x] = found[x] /\ invoice'[x] = invoice[x]
  BY <1>1, <1>2 DEF Ocr, Resolve, Refused, InsertSupplier, Attach, AttachCommit
<1>3. ASSUME NEW y \in Actors, SupplierRequest(y)
      PROVE  found'[x] = found[x] /\ invoice'[x] = invoice[x]
  BY <1>1, <1>3 DEF SupplierRequest, Create, UpdateLoad, UpdateCommit, MergeLoad, Move,
                    MergeCommit, MergeVictim
<1>4. ASSUME NEW y \in Actors, Payment(y) PROVE found'[x] = found[x] /\ invoice'[x] = invoice[x]
  BY <1>1, <1>4 DEF Payment, PayLoad, PayCommit, ImportLoad, MatchLine, ImportFails, ImportCommit
<1>5. QED
  BY <1>2, <1>3, <1>4 DEF Next, vars

\* Overlaps are never forgotten, and a commit overlaps with all that work
LEMMA OverlapsKept ==
  ASSUME [Next]_vars
  PROVE  overlaps \subseteq overlaps'
<1> USE DEF Committed, RolledBack, DatabaseError
<1>1. ASSUME NEW y \in Actors, Ocr(y) PROVE overlaps \subseteq overlaps'
  BY <1>1 DEF Ocr, Resolve, Refused, InsertSupplier, Attach, AttachCommit
<1>2. ASSUME NEW y \in Actors, SupplierRequest(y) PROVE overlaps \subseteq overlaps'
  BY <1>2 DEF SupplierRequest, Create, UpdateLoad, UpdateCommit, MergeLoad, Move,
              MergeCommit, MergeVictim
<1>3. ASSUME NEW y \in Actors, Payment(y) PROVE overlaps \subseteq overlaps'
  BY <1>3 DEF Payment, PayLoad, PayCommit, ImportLoad, MatchLine, ImportFails, ImportCommit
<1>4. QED
  BY <1>1, <1>2, <1>3 DEF Next, vars

LEMMA CommitOverlaps ==
  ASSUME TypeOK, NEW x \in Actors, Committed(x), NEW y \in Actors \ {x},
         pc[y] \notin {"new", "again", "done"}
  PROVE  <<x, y>> \in overlaps'
BY DEF Committed, Working

\* What a step writes to the tables, it writes in one of six ways
LEMMA Writers ==
  ASSUME NEW x \in Actors, Step(x)
  PROVE  \/ AttachCommit(x) \/ MergeCommit(x)
         \/ \E v \in Vats \cup {None}, n \in Names : Create(x, v, n) /\ ~VatTaken(v, x)
         \/ UpdateCommit(x) /\ ~(found[x] \notin suppliers \/ VatTaken(value[x].vat, found[x]))
         \/ PayCommit(x) /\ invoice[x] \in invoices
         \/ ImportCommit(x) /\ Matches(x) \subseteq invoices
         \/ UNCHANGED tables
<1> USE DEF RolledBack, DatabaseError
<1>1. CASE Ocr(x)
  BY <1>1 DEF Ocr, Resolve, Refused, InsertSupplier, Attach
<1>2. CASE SupplierRequest(x)
  BY <1>2 DEF SupplierRequest, Create, UpdateLoad, UpdateCommit, MergeLoad, Move, MergeVictim
<1>3. CASE Payment(x)
  BY <1>3 DEF Payment, PayLoad, PayCommit, ImportLoad, MatchLine, ImportFails, ImportCommit
<1>4. QED
  BY <1>1, <1>2, <1>3 DEF Step

--------------------------------------------------------------------------------
(* An invoice keeps its supplier                                               *)

Overlapped(y) == \E x \in Actors : <<x, y>> \in overlaps

\* The foreign key of supplier_id, and the locks that protect it
ReferencesExist ==
  /\ \A i \in Invoices : supplier[i] \in suppliers \cup {None}
  /\ \A x \in Actors :
       /\ pc[x] = "flushed" => found[x] \in suppliers \cup {None, x}
       /\ pc[x] = "moved" /\ moved[x] # {} => goal[x] \in suppliers

\* What a merge has not moved was attached while it ran
MovedAll ==
  \A x \in Actors : pc[x] = "moved" => Overlapped(x) \/ OfSupplier(found[x]) \subseteq moved[x]

LostToMerge ==
  \A i \in invoices \cap extracted :
    supplier[i] = None /\ Named(i) => \E y \in Actors : kind[y] = "merge" /\ Overlapped(y)

SupplierInv == TypeInv /\ ReferencesExist /\ MovedAll /\ LostToMerge

LEMMA SupplierInit == Init => SupplierInv
<1> SUFFICES ASSUME Init PROVE SupplierInv
  OBVIOUS
<1>1. TypeInv
  BY TypeInit
<1>2. ReferencesExist /\ MovedAll /\ LostToMerge
  BY DEF Init, ReferencesExist, MovedAll, LostToMerge
<1>3. QED
  BY <1>1, <1>2 DEF SupplierInv

\* Suppliers go by a merge only, which has waited for what refers to them
LEMMA SuppliersStay ==
  ASSUME TypeInv, NEW x \in Actors, Step(x)
  PROVE  /\ suppliers \subseteq suppliers' \/ MergeCommit(x)
         /\ MergeCommit(x) => suppliers' = suppliers \ {found[x]}
BY Writers DEF AttachCommit, Create, UpdateCommit, PayCommit, ImportCommit, tables, MergeCommit

LEMMA ReferencesKept ==
  ASSUME SupplierInv, TypeInv', NEW x \in Actors, Step(x)
  PROVE  ReferencesExist'
<1> USE DEF SupplierInv
<1>1. TypeOK /\ Knows(x) /\ TypeInv
  BY DEF TypeInv
<1>2. \A i \in Invoices : supplier'[i] \in suppliers' \cup {None}
  <2>1. CASE AttachCommit(x)
    BY <1>1, <2>1 DEF AttachCommit, ReferencesExist, TypeOK
  <2>2. CASE MergeCommit(x)
    BY <1>1, <2>2 DEF MergeCommit, ReferencesExist, TypeOK, Knows
  <2>3. CASE supplier' = supplier /\ suppliers \subseteq suppliers'
    BY <2>3 DEF ReferencesExist
  <2>4. QED
    BY <2>1, <2>2, <2>3, Writers DEF Create, UpdateCommit, PayCommit, ImportCommit, tables
<1>3. ASSUME NEW y \in Actors \ {x}
      PROVE  /\ pc'[y] = "flushed" => found'[y] \in suppliers' \cup {None, y}
             /\ pc'[y] = "moved" /\ moved'[y] # {} => goal'[y] \in suppliers'
  <2>1. Same(y)
    BY <1>1, OthersSame
  <2>2. CASE suppliers \subseteq suppliers'
    BY <2>1, <2>2 DEF Same, ReferencesExist
  <2>3. CASE MergeCommit(x)
    BY <2>1, <2>3 DEF Same, ReferencesExist, MergeCommit, References
  <2>4. QED
    BY <1>1, <2>2, <2>3, SuppliersStay
<1>4. pc'[x] = "flushed" => found'[x] \in suppliers' \cup {None, x}
  <2>1. SUFFICES ASSUME pc'[x] = "flushed" PROVE found'[x] \in suppliers' \cup {None, x}
    OBVIOUS
  <2>2. Attach(x) /\ pc[x] \in {"resolved", "inserted"} /\ UNCHANGED <<tables, work>>
        /\ (pc[x] = "resolved" => found[x] \in suppliers \cup {None})
    <3> USE <1>1, <2>1 DEF TypeOK, RolledBack, Committed, DatabaseError
    <3>1. CASE Ocr(x)
      BY <3>1 DEF Ocr, Resolve, Refused, InsertSupplier, Attach, AttachCommit
    <3>2. CASE SupplierRequest(x)
      BY <3>2 DEF SupplierRequest, Create, UpdateLoad, UpdateCommit, MergeLoad, Move,
                  MergeCommit, MergeVictim
    <3>3. CASE Payment(x)
      BY <3>3, <1>1 DEF Payment, PayLoad, PayCommit, ImportLoad, MatchLine, ImportFails, ImportCommit,
                        Knows
    <3>4. QED
      BY <3>1, <3>2, <3>3 DEF Step
  <2>3. QED
    BY <1>1, <2>2 DEF Knows, tables, work
<1>5. pc'[x] = "moved" /\ moved'[x] # {} => goal'[x] \in suppliers'
  <2>1. SUFFICES ASSUME pc'[x] = "moved", moved'[x] # {} PROVE goal'[x] \in suppliers'
    OBVIOUS
  <2>2. Move(x)
    <3> USE <1>1, <2>1 DEF TypeOK, RolledBack, Committed, DatabaseError
    <3>1. CASE Ocr(x)
      BY <3>1 DEF Ocr, Resolve, Refused, InsertSupplier, Attach, AttachCommit
    <3>2. CASE SupplierRequest(x)
      BY <3>2 DEF SupplierRequest, Create, UpdateLoad, UpdateCommit, MergeLoad,
                  MergeCommit, MergeVictim
    <3>3. CASE Payment(x)
      BY <3>3, <1>1 DEF Payment, PayLoad, PayCommit, ImportLoad, MatchLine, ImportFails, ImportCommit,
                        Knows
    <3>4. QED
      BY <3>1, <3>2, <3>3 DEF Step
  <2>3. QED
    BY <1>1, <2>1, <2>2 DEF Move, RolledBack, TypeOK, tables
<1>6. QED
  BY <1>2, <1>3, <1>4, <1>5 DEF ReferencesExist

\* What a merge misses was attached by a transaction that committed meanwhile
LEMMA MovedAllKept ==
  ASSUME SupplierInv, NEW x \in Actors, Step(x)
  PROVE  MovedAll'
<1>1. TypeOK /\ TypeInv /\ [Next]_vars
  BY DEF SupplierInv, TypeInv, Next, Step
<1>2. ASSUME NEW y \in Actors \ {x}, pc'[y] = "moved"
      PROVE  Overlapped(y)' \/ OfSupplier(found[y])' \subseteq moved'[y]
  <2>1. Same(y)
    BY <1>1, OthersSame
  <2>2. CASE Committed(x)
    <3>1. <<x, y>> \in overlaps'
      BY <1>1, <1>2, <2>1, <2>2, CommitOverlaps DEF Same
    <3>2. QED
      BY <3>1 DEF Overlapped
  <2>3. CASE Overlapped(y)
    BY <1>1, <2>3, OverlapsKept DEF Overlapped
  <2>4. CASE supplier' = supplier /\ invoices' \subseteq invoices /\ ~Overlapped(y)
    BY <1>2, <2>1, <2>4 DEF Same, SupplierInv, MovedAll, OfSupplier
  <2>5. QED
    BY <2>2, <2>3, <2>4, Writers
       DEF AttachCommit, MergeCommit, Create, UpdateCommit, PayCommit, ImportCommit, tables
<1>3. ASSUME pc'[x] = "moved" PROVE OfSupplier(found[x])' \subseteq moved'[x]
  <2>1. Move(x)
    <3> USE <1>1, <1>3 DEF TypeOK, RolledBack, Committed, DatabaseError
    <3>1. CASE Ocr(x)
      BY <3>1 DEF Ocr, Resolve, Refused, InsertSupplier, Attach, AttachCommit
    <3>2. CASE SupplierRequest(x)
      BY <3>2 DEF SupplierRequest, Create, UpdateLoad, UpdateCommit, MergeLoad,
                  MergeCommit, MergeVictim
    <3>3. CASE Payment(x)
      BY <3>3 DEF Payment, PayLoad, PayCommit, ImportLoad, MatchLine, ImportFails, ImportCommit,
                  TypeInv, Knows
    <3>4. QED
      BY <3>1, <3>2, <3>3 DEF Step
  <2>2. QED
    BY <1>1, <1>3, <2>1 DEF Move, RolledBack, TypeOK, tables, OfSupplier
<1>4. QED
  BY <1>2, <1>3 DEF MovedAll

LEMMA LostKept ==
  ASSUME SupplierInv, NEW x \in Actors, Step(x)
  PROVE  LostToMerge'
<1>1. TypeOK /\ TypeInv /\ [Next]_vars /\ Knows(x)
  BY DEF SupplierInv, TypeInv, Next, Step
<1> SUFFICES ASSUME NEW i \in invoices' \cap extracted', supplier'[i] = None, Named(i)
             PROVE  \E y \in Actors : kind'[y] = "merge" /\ Overlapped(y)'
  BY DEF LostToMerge, Named
<1>2. ASSUME NEW y \in Actors, kind[y] = "merge", Overlapped(y)
      PROVE  kind'[y] = "merge" /\ Overlapped(y)'
  BY <1>1, <1>2, KindKept, OverlapsKept DEF Overlapped
<1>3. CASE i \in invoices \cap extracted /\ supplier[i] = None
  BY <1>2, <1>3 DEF SupplierInv, LostToMerge
<1>4. CASE AttachCommit(x) /\ i = invoice[x]
  BY <1>1, <1>4 DEF AttachCommit, TypeOK, Knows
<1>5. CASE MergeCommit(x) /\ i \in invoices \cap extracted /\ supplier[i] # None
  <2>1. i \in Invoices /\ i \notin moved[x] /\ supplier[i] = found[x]
    BY <1>1, <1>5, Constants DEF MergeCommit, TypeOK, Knows
  <2>2. Overlapped(x) /\ kind[x] = "merge"
    BY <1>1, <1>5, <2>1 DEF SupplierInv, MovedAll, OfSupplier, MergeCommit, Knows
  <2>3. QED
    BY <1>2, <2>2
<1>6. QED
  BY <1>1, <1>3, <1>4, <1>5, Writers
     DEF AttachCommit, MergeCommit, Create, UpdateCommit, PayCommit, ImportCommit, tables, TypeOK

LEMMA SupplierStep == SupplierInv /\ [Next]_vars => SupplierInv'
<1> SUFFICES ASSUME SupplierInv, [Next]_vars PROVE SupplierInv'
  OBVIOUS
<1>1. TypeInv'
  BY TypeStep DEF SupplierInv
<1>2. CASE UNCHANGED vars
  BY <1>1, <1>2 DEF SupplierInv, ReferencesExist, MovedAll, LostToMerge, Overlapped, OfSupplier,
                    Named, vars, tables, work
<1>3. ASSUME NEW x \in Actors, Step(x) PROVE SupplierInv'
  BY <1>1, <1>3, ReferencesKept, MovedAllKept, LostKept DEF SupplierInv
<1>4. QED
  BY <1>2, <1>3 DEF Next, Step

\* An invoice that was extracted with a name or a vat keeps a supplier that exists,
\* unless a merge deleted it while another transaction attached the invoice.
THEOREM InvoicesKeepSupplier == Spec => []SupplierKept
<1>1. SupplierInv => SupplierKept
  <2> SUFFICES ASSUME SupplierInv, NEW i \in invoices \cap extracted, supplier[i] \notin suppliers
               PROVE  /\ supplier[i] = None
                      /\ Named(i) => \E x, y \in Actors : kind[y] = "merge" /\ <<x, y>> \in overlaps
    BY DEF SupplierKept
  <2>1. supplier[i] = None
    BY DEF SupplierInv, ReferencesExist, TypeInv, TypeOK
  <2>2. QED
    BY <2>1 DEF SupplierInv, LostToMerge, Overlapped
<1>2. QED
  BY <1>1, SupplierInit, SupplierStep, PTL DEF Spec

--------------------------------------------------------------------------------
(* A supplier is not doubled                                                   *)

Excused(s, t) == \/ NamedByReviewer(s) \/ NamedByReviewer(t)
                 \/ <<s, t>> \in overlaps \/ <<t, s>> \in overlaps

\* A supplier that a task inserts is not a row before the task commits
InsertedAtCommit ==
  \A x \in Actors : /\ x \in suppliers => pc[x] = "done"
                    /\ pc[x] = "resolved" => found[x] # x

\* What has the name a task is about to insert came after its search
Unseen ==
  \A x \in Actors :
    pc[x] \in {"insert", "inserted", "flushed"} /\ found[x] = x /\ value[x].name # None =>
      \A t \in suppliers : name[t] = value[x].name => NamedByReviewer(t) \/ <<t, x>> \in overlaps

NamesInv == TypeInv /\ InsertedAtCommit /\ Unseen /\ OneSupplierPerName

LEMMA PairsExcused ==
  /\ OneSupplierPerName <=>
       \A s, t \in suppliers : s # t /\ name[s] = name[t] /\ name[s] # UnknownName => Excused(s, t)
  /\ OneSupplierPerName' <=>
       \A s, t \in suppliers' : s # t /\ name'[s] = name'[t] /\ name'[s] # UnknownName
         => Excused(s, t)'
BY DEF OneSupplierPerName, Excused

LEMMA NamesInit == Init => NamesInv
<1> SUFFICES ASSUME Init PROVE NamesInv
  OBVIOUS
<1>1. TypeInv
  BY TypeInit
<1>2. InsertedAtCommit /\ Unseen /\ OneSupplierPerName
  BY ConstantsAssumption DEF Init, InsertedAtCommit, Unseen, OneSupplierPerName
<1>3. QED
  BY <1>1, <1>2 DEF NamesInv

LEMMA ExcusesKept ==
  ASSUME TypeInv, [Next]_vars
  PROVE  /\ \A t : NamedByReviewer(t) => NamedByReviewer(t)'
         /\ \A s, t : Excused(s, t) => Excused(s, t)'
<1>1. ASSUME NEW t, NamedByReviewer(t) PROVE NamedByReviewer(t)'
  <2>1. PICK y \in Actors : \/ kind[y] = "create" /\ y = t
                            \/ kind[y] = "update" /\ found[y] = t
    BY <1>1 DEF NamedByReviewer
  <2>2. kind'[y] = kind[y] /\ found'[y] = found[y]
    BY <2>1, KindKept, WorkKept
  <2>3. QED
    BY <2>1, <2>2 DEF NamedByReviewer
<1>2. QED
  BY <1>1, OverlapsKept DEF Excused

\* A finished actor takes no step
LEMMA DoneStays ==
  ASSUME NEW x \in Actors, Step(x)
  PROVE  pc[x] # "done"
<1>1. CASE Ocr(x)
  BY <1>1 DEF Ocr, Resolve, Is, Refused, InsertSupplier, Attach, AttachCommit
<1>2. CASE SupplierRequest(x)
  BY <1>2 DEF SupplierRequest, Create, UpdateLoad, UpdateCommit, MergeLoad, Move, MergeCommit,
              MergeVictim, Is
<1>3. CASE Payment(x)
  BY <1>3 DEF Payment, PayLoad, PayCommit, ImportLoad, MatchLine, ImportFails, ImportCommit, Is
<1>4. QED
  BY <1>1, <1>2, <1>3 DEF Step

\* What a step does to names
LEMMA NamesWritten ==
  ASSUME TypeOK, NEW x \in Actors, Step(x)
  PROVE  \/ suppliers' \subseteq suppliers /\ name' = name
         \/ /\ AttachCommit(x) /\ found[x] = x /\ suppliers' = suppliers \cup {x}
            /\ name' = [name EXCEPT ![x] = IF value[x].name = None THEN UnknownName ELSE value[x].name]
         \/ /\ \E v \in Vats \cup {None}, n \in Names :
                 Create(x, v, n) /\ name' = [name EXCEPT ![x] = n]
            /\ suppliers' = suppliers \cup {x}
         \/ /\ UpdateCommit(x) /\ suppliers' = suppliers
            /\ name' = [name EXCEPT ![found[x]] = value[x].name]
BY Writers DEF AttachCommit, MergeCommit, Create, UpdateCommit, PayCommit, ImportCommit, tables

LEMMA InsertedKept ==
  ASSUME NamesInv, NEW x \in Actors, Step(x)
  PROVE  InsertedAtCommit'
<1>1. TypeOK /\ InsertedAtCommit /\ Knows(x)
  BY DEF NamesInv, TypeInv
<1>2. \A y \in Actors \ {x} : (y \in suppliers' => y \in suppliers) /\ Same(y)
  BY <1>1, OthersSame, NamesWritten
<1>3. x \notin suppliers
  BY <1>1, DoneStays DEF InsertedAtCommit
<1>4. x \in suppliers' => pc'[x] = "done"
  BY <1>1, <1>3, NamesWritten DEF AttachCommit, Create, RolledBack, Committed, TypeOK
<1>5. pc'[x] = "resolved" => found'[x] # x
  <2> SUFFICES ASSUME pc'[x] = "resolved" PROVE found'[x] # x
    OBVIOUS
  <2>1. \E i \in Invoices : Resolve(x, i)
    <3> USE <1>1 DEF TypeOK, RolledBack, Committed, DatabaseError
    <3>1. CASE Ocr(x)
      BY <3>1 DEF Ocr, Refused, InsertSupplier, Attach, AttachCommit
    <3>2. CASE SupplierRequest(x)
      BY <3>2 DEF SupplierRequest, Create, UpdateLoad, UpdateCommit, MergeLoad, Move,
                  MergeCommit, MergeVictim
    <3>3. CASE Payment(x)
      BY <3>3 DEF Payment, PayLoad, PayCommit, ImportLoad, MatchLine, ImportFails, ImportCommit,
                  Knows
    <3>4. QED
      BY <3>1, <3>2, <3>3 DEF Step
  <2>2. PICK i \in Invoices : Resolve(x, i)
    BY <2>1
  <2>3. found[x] = None /\ x # None
    BY <1>1, <2>2, Constants DEF Resolve, Is, Knows, Suppliers
  <2>4. CASE ByVat(Extracted[i].vat) # {}
    <3>1. (CHOOSE s \in ByVat(Extracted[i].vat) : TRUE) \in suppliers
      BY <2>4 DEF ByVat
    <3>2. QED
      BY <1>1, <1>3, <2>2, <2>4, <3>1 DEF Resolve, TypeOK
  <2>5. CASE ByVat(Extracted[i].vat) = {}
    BY <1>1, <1>3, <2>2, <2>3, <2>5 DEF Resolve, TypeOK, ByName
  <2>6. QED
    BY <2>4, <2>5
<1>6. QED
  BY <1>1, <1>2, <1>4, <1>5 DEF InsertedAtCommit, Same

LEMMA UnseenKept ==
  ASSUME NamesInv, NEW x \in Actors, Step(x)
  PROVE  Unseen'
<1>1. TypeOK /\ TypeInv /\ [Next]_vars /\ Knows(x) /\ InsertedAtCommit /\ Unseen
  BY DEF NamesInv, TypeInv, Next, Step
<1>2. /\ \A t : NamedByReviewer(t) => NamedByReviewer(t)'
      /\ overlaps \subseteq overlaps'
  BY <1>1, ExcusesKept, OverlapsKept
<1>3. ASSUME NEW y \in Actors \ {x}, pc'[y] \in {"insert", "inserted", "flushed"}, found'[y] = y,
             value'[y].name # None, NEW t \in suppliers', name'[t] = value'[y].name
      PROVE  NamedByReviewer(t)' \/ <<t, y>> \in overlaps'
  <2>1. Same(y)
    BY <1>1, OthersSame
  <2>2. CASE t \in suppliers /\ name'[t] = name[t]
    BY <1>1, <1>2, <1>3, <2>1, <2>2 DEF Unseen, Same
  <2>3. CASE AttachCommit(x) /\ t = x
    BY <1>1, <1>3, <2>1, <2>3, CommitOverlaps DEF AttachCommit, Same
  <2>4. CASE t = x /\ \E v \in Vats \cup {None}, n \in Names : Create(x, v, n)
    BY <1>1, <2>4 DEF Create, Is, NamedByReviewer, TypeOK
  <2>5. CASE UpdateCommit(x) /\ t = found[x]
    BY <1>1, <2>5 DEF UpdateCommit, NamedByReviewer, work, Knows
  <2>6. CASE t \in suppliers /\ t # x /\ ~UpdateCommit(x)
    BY <1>1, <2>2, <2>6, NamesWritten DEF TypeOK
  <2>7. CASE t \in suppliers /\ t # found[x] /\ UpdateCommit(x)
    <3>1. name'[t] = name[t]
      BY <1>1, <2>7 DEF TypeOK, UpdateCommit, RolledBack, tables
    <3>2. QED
      BY <2>2, <2>7, <3>1
  <2>8. CASE t = x
    <3>1. x \notin suppliers
      BY <1>1, DoneStays DEF InsertedAtCommit
    <3>2. QED
      BY <2>3, <2>4, <2>8, <3>1, NamesWritten, <1>1
  <2>9. QED
    <3>1. t \in suppliers \/ t = x
      BY <1>1, NamesWritten
    <3>2. QED
      BY <2>5, <2>6, <2>7, <2>8, <3>1
<1>4. ASSUME pc'[x] \in {"insert", "inserted", "flushed"}, found'[x] = x, value'[x].name # None,
             NEW t \in suppliers', name'[t] = value'[x].name
      PROVE  NamedByReviewer(t)' \/ <<t, x>> \in overlaps'
  <2>1. \/ \E i \in Invoices : Resolve(x, i) /\ pc'[x] = "insert"
        \/ /\ UNCHANGED <<tables, work>>
           /\ pc[x] \in {"insert", "inserted"} \/ pc[x] = "resolved"
    <3> USE <1>1, <1>4 DEF TypeOK, RolledBack, Committed, DatabaseError
    <3>1. CASE Ocr(x)
      BY <3>1 DEF Ocr, Refused, InsertSupplier, Attach, AttachCommit, Resolve
    <3>2. CASE SupplierRequest(x)
      BY <3>2 DEF SupplierRequest, Create, UpdateLoad, UpdateCommit, MergeLoad, Move,
                  MergeCommit, MergeVictim
    <3>3. CASE Payment(x)
      BY <3>3 DEF Payment, PayLoad, PayCommit, ImportLoad, MatchLine, ImportFails, ImportCommit,
                  Knows
    <3>4. QED
      BY <3>1, <3>2, <3>3 DEF Step
  <2>2. CASE /\ UNCHANGED <<tables, work>>
             /\ pc[x] \in {"insert", "inserted"} \/ pc[x] = "resolved"
    BY <1>1, <1>2, <1>4, <2>2 DEF Unseen, InsertedAtCommit, tables, work
  <2>3. ASSUME NEW i \in Invoices, Resolve(x, i), pc'[x] = "insert" PROVE FALSE
    <3>1. ByName(Extracted[i].name) = {} /\ value'[x] = Extracted[i]
      BY <1>1, <2>3 DEF Resolve, TypeOK
    <3>2. suppliers' = suppliers /\ name' = name
      BY <2>3 DEF Resolve, tables
    <3>3. QED
      BY <1>4, <3>1, <3>2 DEF ByName
  <2>4. QED
    BY <2>1, <2>2, <2>3
<1>5. QED
  BY <1>3, <1>4 DEF Unseen

LEMMA NamesKept ==
  ASSUME NamesInv, NEW x \in Actors, Step(x)
  PROVE  OneSupplierPerName'
<1>1. TypeOK /\ TypeInv /\ [Next]_vars /\ Knows(x) /\ InsertedAtCommit /\ Unseen
  BY DEF NamesInv, TypeInv, Next, Step
<1>2. \A s, t : Excused(s, t) => Excused(s, t)'
  BY <1>1, ExcusesKept
<1>3. \A s, t \in suppliers : s # t /\ name[s] = name[t] /\ name[s] # UnknownName => Excused(s, t)
  BY PairsExcused DEF NamesInv
<1> SUFFICES ASSUME NEW s \in suppliers', NEW t \in suppliers', s # t, name'[s] = name'[t],
                    name'[s] # UnknownName
             PROVE  Excused(s, t)'
  BY PairsExcused
<1>4. CASE suppliers' \subseteq suppliers /\ name' = name
  BY <1>2, <1>3, <1>4
<1>5. ASSUME AttachCommit(x), found[x] = x, suppliers' = suppliers \cup {x},
             name' = [name EXCEPT ![x] = IF value[x].name = None THEN UnknownName ELSE value[x].name]
      PROVE  Excused(s, t)'
  <2>1. pc[x] = "flushed" /\ x \in Suppliers
    BY <1>5 DEF AttachCommit, Suppliers
  <2>2. ASSUME NEW u \in suppliers, u # x, name[u] = name'[x], name'[x] # UnknownName
        PROVE  NamedByReviewer(u) \/ <<u, x>> \in overlaps
    <3>1. value[x].name = name'[x] /\ value[x].name # None
      BY <1>1, <1>5, <2>1, <2>2 DEF TypeOK
    <3>2. QED
      BY <1>1, <1>5, <2>1, <2>2, <3>1 DEF Unseen
  <2>3. CASE s = x
    <3>1. t \in suppliers /\ t # x /\ name[t] = name'[x]
      BY <1>1, <1>5, <2>3 DEF TypeOK
    <3>2. Excused(s, t)
      BY <2>2, <2>3, <3>1 DEF Excused
    <3>3. QED
      BY <1>2, <3>2
  <2>4. CASE t = x
    <3>1. s \in suppliers /\ s # x /\ name[s] = name'[x]
      BY <1>1, <1>5, <2>4 DEF TypeOK
    <3>2. Excused(s, t)
      BY <2>2, <2>4, <3>1 DEF Excused
    <3>3. QED
      BY <1>2, <3>2
  <2>5. CASE s # x /\ t # x
    BY <1>1, <1>2, <1>3, <1>5, <2>5 DEF TypeOK
  <2>6. QED
    BY <2>3, <2>4, <2>5
<1>6. ASSUME NEW v \in Vats \cup {None}, NEW n \in Names, Create(x, v, n),
             name' = [name EXCEPT ![x] = n], suppliers' = suppliers \cup {x}
      PROVE  Excused(s, t)'
  <2>1. NamedByReviewer(x)'
    BY <1>1, <1>6 DEF Create, Is, NamedByReviewer, TypeOK
  <2>2. CASE s = x \/ t = x
    BY <2>1, <2>2 DEF Excused
  <2>3. CASE s # x /\ t # x
    BY <1>1, <1>2, <1>3, <1>6, <2>3 DEF TypeOK
  <2>4. QED
    BY <2>2, <2>3
<1>7. ASSUME UpdateCommit(x), suppliers' = suppliers,
             name' = [name EXCEPT ![found[x]] = value[x].name]
      PROVE  Excused(s, t)'
  <2>1. ASSUME NEW u, u = found[x] PROVE NamedByReviewer(u)'
    BY <1>1, <1>7, <2>1 DEF UpdateCommit, NamedByReviewer, work, Knows
  <2>2. CASE s = found[x] \/ t = found[x]
    BY <2>1, <2>2 DEF Excused
  <2>3. CASE s # found[x] /\ t # found[x]
    BY <1>1, <1>2, <1>3, <1>7, <2>3 DEF TypeOK
  <2>4. QED
    BY <2>2, <2>3
<1>8. QED
  BY <1>1, <1>4, <1>5, <1>6, <1>7, NamesWritten

LEMMA NamesStep == NamesInv /\ [Next]_vars => NamesInv'
<1> SUFFICES ASSUME NamesInv, [Next]_vars PROVE NamesInv'
  OBVIOUS
<1>1. TypeInv'
  BY TypeStep DEF NamesInv
<1>2. CASE UNCHANGED vars
  BY <1>1, <1>2 DEF NamesInv, InsertedAtCommit, Unseen, OneSupplierPerName, NamedByReviewer,
                    vars, tables, work
<1>3. ASSUME NEW x \in Actors, Step(x) PROVE NamesInv'
  BY <1>1, <1>3, InsertedKept, UnseenKept, NamesKept DEF NamesInv
<1>4. QED
  BY <1>2, <1>3 DEF Next, Step

\* Two suppliers have one name that was read on a document only when a reviewer named
\* one of them or when the tasks that found them overlapped.
THEOREM NamesOnce == Spec => []OneSupplierPerName
<1>1. NamesInv => OneSupplierPerName
  BY DEF NamesInv
<1>2. QED
  BY <1>1, NamesInit, NamesStep, PTL DEF Spec

--------------------------------------------------------------------------------
(* An invoice is not paid twice                                                *)

TakenBack(i) == \E x \in Actors : kind[x] = "unpay" /\ invoice[x] = i

\* A line on the books has paid its invoice
LinesPaid ==
  \A a \in transactions : a.invoice # None => paid[a.invoice] # None \/ TakenBack(a.invoice)

\* What an import has matched and another has paid since
PaidSince ==
  \A x \in Actors, a \in transactions :
    pc[x] = "import" /\ a.invoice \in Matches(x) => <<a.by, x>> \in overlaps \/ TakenBack(a.invoice)

PaymentsInv == TypeInv /\ LinesPaid /\ PaidSince /\ MatchedOnce

LEMMA PaymentsInit == Init => PaymentsInv
<1> SUFFICES ASSUME Init PROVE PaymentsInv
  OBVIOUS
<1>1. TypeInv
  BY TypeInit
<1>2. LinesPaid /\ PaidSince /\ MatchedOnce
  BY DEF Init, LinesPaid, PaidSince, MatchedOnce
<1>3. QED
  BY <1>1, <1>2 DEF PaymentsInv

LEMMA TakenBackKept ==
  ASSUME TypeInv, [Next]_vars, NEW i, TakenBack(i)
  PROVE  TakenBack(i)'
<1>1. PICK y \in Actors : kind[y] = "unpay" /\ invoice[y] = i
  BY DEF TakenBack
<1>2. kind'[y] = kind[y] /\ invoice'[y] = invoice[y]
  BY <1>1, KindKept, WorkKept
<1>3. QED
  BY <1>1, <1>2 DEF TakenBack

\* What a step does to payments.  Lines are added by an import, or lose their invoice.
LEMMA PaymentsWritten ==
  ASSUME TypeOK, NEW x \in Actors, Step(x)
  PROVE  \/ UNCHANGED <<paid, transactions>>
         \/ PayCommit(x) /\ invoice[x] \in invoices
         \/ ImportCommit(x) /\ Matches(x) \subseteq invoices
BY Writers DEF AttachCommit, MergeCommit, Create, UpdateCommit, tables

LEMMA LinesOld ==
  ASSUME TypeOK, NEW x \in Actors, Step(x), NEW a \in transactions', a.invoice # None
  PROVE  \/ a \in transactions
         \/ ImportCommit(x) /\ Matches(x) \subseteq invoices /\ a.by = x /\ a.invoice \in Matches(x)
<1>1. CASE PayCommit(x) /\ invoice[x] \in invoices
  <2>1. CASE transactions' = transactions
    BY <2>1
  <2>2. CASE transactions' = {[t EXCEPT !.invoice = IF @ = invoice[x] THEN None ELSE @]
                                : t \in transactions}
    <3>1. PICK t \in transactions :
                a = [t EXCEPT !.invoice = IF t.invoice = invoice[x] THEN None ELSE t.invoice]
      BY <2>2
    <3>2. t \in [by: Actors, line: 1..Len(Statement), invoice: Invoices \cup {None}]
      BY DEF TypeOK
    <3>3. t.invoice # invoice[x]
      BY <3>1, <3>2
    <3>4. a = t
      BY <3>1, <3>2, <3>3
    <3>5. QED
      BY <3>4
  <2>3. QED
    BY <1>1, <2>1, <2>2 DEF PayCommit
<1>2. CASE ImportCommit(x) /\ Matches(x) \subseteq invoices
  BY <1>2 DEF ImportCommit, Matches
<1>3. QED
  BY <1>1, <1>2, PaymentsWritten

LEMMA LinesPaidKept ==
  ASSUME PaymentsInv, NEW x \in Actors, Step(x)
  PROVE  LinesPaid'
<1>1. TypeOK /\ TypeInv /\ [Next]_vars /\ Knows(x)
  BY DEF PaymentsInv, TypeInv, Next, Step
<1> SUFFICES ASSUME NEW a \in transactions', a.invoice # None
             PROVE  paid'[a.invoice] # None \/ TakenBack(a.invoice)'
  BY DEF LinesPaid, TakenBack
<1>2. None \notin Actors
  BY Constants DEF Suppliers
<1>3. CASE ImportCommit(x) /\ Matches(x) \subseteq invoices /\ a.invoice \in Matches(x)
  BY <1>1, <1>2, <1>3 DEF ImportCommit, TypeOK
<1>4. CASE a \in transactions
  <2>1. paid[a.invoice] # None \/ TakenBack(a.invoice)
    BY <1>4 DEF PaymentsInv, LinesPaid
  <2>2. a.invoice \in Invoices
    BY <1>1, <1>4 DEF TypeOK
  <2>3. CASE TakenBack(a.invoice)
    BY <1>1, <2>3, TakenBackKept
  <2>4. CASE PayCommit(x) /\ invoice[x] \in invoices /\ paid[a.invoice] # None
    <3>1. CASE paid'[a.invoice] # None
      BY <3>1
    <3>2. CASE paid'[a.invoice] = None
      <4>1. kind[x] = "unpay" /\ a.invoice = invoice[x]
        BY <1>1, <1>2, <2>2, <2>4, <3>2 DEF PayCommit, TypeOK
      <4>2. TakenBack(a.invoice)
        BY <4>1 DEF TakenBack
      <4>3. QED
        BY <1>1, <4>2, TakenBackKept
    <3>3. QED
      BY <3>1, <3>2
  <2>5. CASE ImportCommit(x) /\ Matches(x) \subseteq invoices /\ paid[a.invoice] # None
    BY <1>1, <1>2, <2>2, <2>5 DEF ImportCommit
  <2>6. QED
    BY <1>1, <2>1, <2>3, <2>4, <2>5, PaymentsWritten
<1>5. QED
  BY <1>1, <1>3, <1>4, LinesOld

LEMMA PaidSinceKept ==
  ASSUME PaymentsInv, NEW x \in Actors, Step(x)
  PROVE  PaidSince'
<1>1. TypeOK /\ TypeInv /\ [Next]_vars /\ Knows(x) /\ LinesPaid /\ PaidSince
  BY DEF PaymentsInv, TypeInv, Next, Step
<1> SUFFICES ASSUME NEW y \in Actors, NEW a \in transactions', pc'[y] = "import",
                    a.invoice \in Matches(y)'
             PROVE  <<a.by, y>> \in overlaps' \/ TakenBack(a.invoice)'
  BY DEF PaidSince, TakenBack, Matches
<1>2. a.invoice # None
  BY DEF Matches
<1>3. ASSUME a \in transactions, <<a.by, y>> \in overlaps \/ TakenBack(a.invoice)
      PROVE  <<a.by, y>> \in overlaps' \/ TakenBack(a.invoice)'
  BY <1>1, <1>3, OverlapsKept, TakenBackKept
<1>4. CASE y # x
  <2>1. Same(y)
    BY <1>1, <1>4, OthersSame
  <2>2. CASE a \in transactions
    BY <1>1, <1>3, <2>1, <2>2 DEF PaidSince, Matches, Same
  <2>3. CASE ImportCommit(x) /\ Matches(x) \subseteq invoices /\ a.by = x
    BY <1>1, <1>4, <2>1, <2>3, CommitOverlaps DEF ImportCommit, Same
  <2>4. QED
    BY <1>1, <1>2, <2>2, <2>3, LinesOld
<1>5. CASE y = x
  <2>1. ImportLoad(x) \/ MatchLine(x)
    <3> USE <1>1, <1>5 DEF TypeOK, RolledBack, Committed, DatabaseError
    <3>1. CASE Ocr(x)
      BY <3>1 DEF Ocr, Resolve, Refused, InsertSupplier, Attach, AttachCommit
    <3>2. CASE SupplierRequest(x)
      BY <3>2 DEF SupplierRequest, Create, UpdateLoad, UpdateCommit, MergeLoad, Move,
                  MergeCommit, MergeVictim
    <3>3. CASE Payment(x)
      BY <3>3 DEF Payment, PayLoad, PayCommit, ImportFails, ImportCommit
    <3>4. QED
      BY <3>1, <3>2, <3>3 DEF Step
  <2>2. CASE ImportLoad(x)
    BY <1>1, <1>5, <2>2 DEF ImportLoad, Is, Knows, Matches
  <2>3. CASE MatchLine(x)
    <3>1. PICK i : /\ i = None \/ (i \in invoices /\ paid[i] = None)
                   /\ matched' = [matched EXCEPT ![x] = Append(matched[x], i)]
      BY <2>3, LineMatched
    <3>2. matched[x] \in Seq(Invoices \cup {None}) /\ matched'[x] = Append(matched[x], i)
      BY <1>1, <3>1 DEF TypeOK
    <3>3. \A k \in DOMAIN matched'[x] :
            matched'[x][k] = i \/ (k \in DOMAIN matched[x] /\ matched'[x][k] = matched[x][k])
      BY <3>2
    <3>4. a.invoice \in Matches(x) \/ a.invoice = i
      BY <1>5, <3>3 DEF Matches
    <3>5. a \in transactions /\ pc[x] = "import"
      BY <2>3 DEF MatchLine, tables
    <3>6. QED
      BY <1>1, <1>2, <1>3, <1>5, <3>1, <3>4, <3>5 DEF PaidSince, LinesPaid
  <2>4. QED
    BY <2>1, <2>2, <2>3
<1>6. QED
  BY <1>4, <1>5

LEMMA MatchedKept ==
  ASSUME PaymentsInv, NEW x \in Actors, Step(x)
  PROVE  MatchedOnce'
<1>1. TypeOK /\ TypeInv /\ [Next]_vars /\ PaidSince
  BY DEF PaymentsInv, TypeInv, Next, Step
<1> SUFFICES ASSUME NEW a \in transactions', NEW b \in transactions',
                    a.invoice = b.invoice, a.invoice # None, a.by # b.by
             PROVE  <<a.by, b.by>> \in overlaps' \/ <<b.by, a.by>> \in overlaps'
                    \/ TakenBack(a.invoice)'
  BY DEF MatchedOnce, TakenBack
<1>2. ASSUME <<a.by, b.by>> \in overlaps \/ <<b.by, a.by>> \in overlaps \/ TakenBack(a.invoice)
      PROVE  <<a.by, b.by>> \in overlaps' \/ <<b.by, a.by>> \in overlaps'
             \/ TakenBack(a.invoice)'
  BY <1>1, <1>2, OverlapsKept, TakenBackKept
<1>3. CASE a \in transactions /\ b \in transactions
  BY <1>2, <1>3 DEF PaymentsInv, MatchedOnce, TakenBack
<1>4. ASSUME NEW c \in transactions, ImportCommit(x), c.invoice \in Matches(x)
      PROVE  <<c.by, x>> \in overlaps \/ TakenBack(c.invoice)
  BY <1>1, <1>4 DEF PaidSince, ImportCommit
<1>5. CASE a \in transactions /\ b \notin transactions
  BY <1>1, <1>2, <1>4, <1>5, LinesOld
<1>6. CASE b \in transactions /\ a \notin transactions
  BY <1>1, <1>2, <1>4, <1>6, LinesOld
<1>7. CASE a \notin transactions /\ b \notin transactions
  BY <1>1, <1>7, LinesOld
<1>8. QED
  BY <1>3, <1>5, <1>6, <1>7

LEMMA PaymentsStep == PaymentsInv /\ [Next]_vars => PaymentsInv'
<1> SUFFICES ASSUME PaymentsInv, [Next]_vars PROVE PaymentsInv'
  OBVIOUS
<1>1. TypeInv'
  BY TypeStep DEF PaymentsInv
<1>2. CASE UNCHANGED vars
  BY <1>1, <1>2 DEF PaymentsInv, LinesPaid, PaidSince, MatchedOnce, TakenBack, Matches,
                    vars, tables, work
<1>3. ASSUME NEW x \in Actors, Step(x) PROVE PaymentsInv'
  BY <1>1, <1>3, LinesPaidKept, PaidSinceKept, MatchedKept DEF PaymentsInv
<1>4. QED
  BY <1>2, <1>3 DEF Next, Step

\* Two statements pay one invoice only when their imports overlapped or the payment
\* was taken back in between.
THEOREM PaidOnce == Spec => []MatchedOnce
<1>1. PaymentsInv => MatchedOnce
  BY DEF PaymentsInv
<1>2. QED
  BY <1>1, PaymentsInit, PaymentsStep, PTL DEF Spec

================================================================================
