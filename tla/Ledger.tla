---------------------------------- MODULE Ledger ----------------------------------
(***************************************************************************)
(* The suppliers of a tenant, the invoices that refer to them, and the     *)
(* payments of the invoices: the OCR task that finds or creates the        *)
(* supplier of an invoice, the requests that create, change and merge      *)
(* suppliers, set a payment or delete an invoice, and the import of a bank *)
(* statement that matches its lines with unpaid invoices.                  *)
(*                                                                         *)
(* Every actor is one transaction that reads committed rows and commits    *)
(* later.  The database keeps (tenant, vat_number) unique, refuses a       *)
(* reference to a deleted supplier, makes a DELETE wait for transactions   *)
(* that refer to the row, and sets to NULL what refers to a deleted one.   *)
(***************************************************************************)
EXTENDS Integers, FiniteSets, Sequences

CONSTANTS
  Stored,     \* suppliers there are at the start
  Invoices,
  Actors,     \* tasks and requests; a supplier one inserts has its name
  Kinds,      \* Kinds[x]: what actor x may be
  Vats, Names,
  UnknownName, \* "Fournisseur inconnu", the name of a supplier known by its vat only
  Extracted,  \* Extracted[i]: the vat and name Azure reads on invoice i
  Total,      \* Total[i]: its total_ttc, in cents
  IssueDate,  \* IssueDate[i]
  Statement,  \* the amounts of the lines of the bank statement
  MaxRetries, \* retries of a task after a database error, 3 in ocr.py
  None,
  Kept        \* for the vat of an update that leaves it as it is

Suppliers == Stored \cup Actors
AllKinds  == {"ocr", "create", "update", "merge", "pay", "unpay", "import", "delete"}

ASSUME ConstantsAssumption ==
  /\ IsFiniteSet(Invoices) /\ Stored \cap Actors = {} /\ UnknownName \in Names
  /\ Kinds \in [Actors -> SUBSET AllKinds]
  /\ Extracted \in [Invoices -> [vat: Vats \cup {None}, name: Names \cup {None}]]
  /\ Total \in [Invoices -> Nat] /\ IssueDate \in [Invoices -> Nat]
  /\ Statement \in Seq(Int) /\ MaxRetries \in Nat
  /\ None \notin Suppliers \cup Invoices \cup Vats \cup Names
  /\ Kept \notin Vats \cup {None}

VARIABLES
  suppliers,    \* the rows of `suppliers`: those of Suppliers that exist
  vat, name,    \* their columns
  invoices,     \* the rows of `invoices`
  supplier,     \* supplier_id of each
  extracted,    \* those whose OCR is committed
  paid,         \* the actor that set paid_at, None while it is NULL
  transactions, \* rows of bank_transactions
  pc, kind,     \* the step of each actor, and what it is
  invoice,      \* the invoice it is about
  found,        \* the supplier it has found or is about to insert, change or delete
  goal,         \* the supplier a merge keeps
  value,        \* the vat and name it will write, None or Kept where it writes none
  moved,        \* invoices a merge has moved, not yet committed
  matched,      \* the invoice an import has matched each line with
  loaded,       \* the invoices an import holds
  retries,
  overlaps      \* <<x, y>>: x committed while y had read and not yet committed

tables == <<suppliers, vat, name, invoices, supplier, extracted, paid, transactions>>
work   == <<kind, invoice, found, goal, value, moved, matched, loaded>>
vars   == <<tables, pc, work, retries, overlaps>>

Nothing   == [vat |-> None, name |-> None]
Tolerance == 50

--------------------------------------------------------------------------------

Init ==
  /\ suppliers = Stored
  /\ vat \in [Suppliers -> Vats \cup {None}] /\ name \in [Suppliers -> Names]
  /\ \A s \in Actors : vat[s] = None /\ name[s] = UnknownName
  /\ \A s, t \in Stored : vat[s] = vat[t] /\ vat[s] # None => s = t
  /\ \A s, t \in Stored : name[s] = name[t] => s = t
  /\ invoices = Invoices /\ extracted \in SUBSET Invoices
  /\ supplier \in [Invoices -> Stored \cup {None}]
  /\ \A i \in Invoices : supplier[i] # None <=> i \in extracted
  /\ paid = [i \in Invoices |-> None] /\ transactions = {}
  /\ pc = [x \in Actors |-> "new"] /\ kind = [x \in Actors |-> "none"]
  /\ invoice = [x \in Actors |-> None]
  /\ found = [x \in Actors |-> None] /\ goal = [x \in Actors |-> None]
  /\ value = [x \in Actors |-> Nothing]
  /\ moved = [x \in Actors |-> {}] /\ matched = [x \in Actors |-> <<>>]
  /\ loaded = [x \in Actors |-> {}]
  /\ retries = [x \in Actors |-> 0] /\ overlaps = {}

Working == {x \in Actors : pc[x] \notin {"new", "again", "done"}}

\* The transaction of x ends with a commit, or with a rollback
Committed(x) ==
  /\ pc' = [pc EXCEPT ![x] = "done"]
  /\ overlaps' = overlaps \cup {<<x, y>> : y \in Working \ {x}}
RolledBack(x) == pc' = [pc EXCEPT ![x] = "done"] /\ UNCHANGED <<tables, overlaps>>

Is(x, k) == pc[x] = "new" /\ k \in Kinds[x] /\ kind' = [kind EXCEPT ![x] = k]

VatTaken(v, s) == v # None /\ \E t \in suppliers \ {s} : vat[t] = v

\* A row another transaction has inserted or changed and not committed: the
\* unique index waits for it
VatPending(v, x) ==
  v # None /\ \E y \in Actors \ {x} : pc[y] \in {"inserted", "flushed"} /\ value[y].vat = v

--------------------------------------------------------------------------------
(* process_invoice_ocr: _resolve_supplier and what is committed with it *)

\* mutant: names are not looked up
ByNameNever(n) == {}
ByVat(v)  == {s \in suppliers : v # None /\ vat[s] = v}
ByName(n) == {s \in suppliers : n # None /\ name[s] = n}

\* The searches by vat, then by name; a supplier found by name gets a missing vat
Resolve(x, i) ==
  LET e == Extracted[i] IN
  /\ Is(x, "ocr") \/ (pc[x] = "again" /\ i = invoice[x] /\ UNCHANGED kind)
  /\ i \in invoices \ extracted
  /\ invoice' = [invoice EXCEPT ![x] = i]
  /\ IF ByVat(e.vat) # {}
     THEN /\ found' = [found EXCEPT ![x] = CHOOSE s \in ByVat(e.vat) : TRUE]
          /\ value' = [value EXCEPT ![x] = Nothing]
          /\ pc' = [pc EXCEPT ![x] = "resolved"]
     ELSE IF ByName(e.name) # {}
     THEN \E s \in ByName(e.name) :
          /\ found' = [found EXCEPT ![x] = s]
          /\ value' = [value EXCEPT ![x].vat = IF vat[s] = None THEN e.vat ELSE None]
          /\ pc' = [pc EXCEPT ![x] = "resolved"]
     ELSE IF e # Nothing
     THEN /\ found' = [found EXCEPT ![x] = x]
          /\ value' = [value EXCEPT ![x] = e]
          /\ pc' = [pc EXCEPT ![x] = "insert"]
     ELSE /\ UNCHANGED <<found, value>> \* neither name nor vat: no supplier
          /\ pc' = [pc EXCEPT ![x] = "resolved"]
  /\ UNCHANGED <<tables, goal, moved, matched, loaded, retries, overlaps>>

RetriesLeft(x) == retries[x] < MaxRetries

\* IntegrityError, a deadlock: the task is retried and searches again
DatabaseError(x) ==
  /\ IF RetriesLeft(x)
     THEN /\ retries' = [retries EXCEPT ![x] = @ + 1] /\ pc' = [pc EXCEPT ![x] = "again"]
     ELSE /\ UNCHANGED retries /\ pc' = [pc EXCEPT ![x] = "done"]
  /\ found' = [found EXCEPT ![x] = None] /\ value' = [value EXCEPT ![x] = Nothing]
  /\ UNCHANGED <<tables, kind, invoice, goal, moved, matched, loaded, overlaps>>

\* InvoiceNotFoundError, InvoiceNotProcessableError
Refused(x) ==
  /\ pc[x] = "again" /\ invoice[x] \notin invoices \ extracted
  /\ RolledBack(x) /\ UNCHANGED <<work, retries>>

\* session.flush after session.add(supplier)
InsertSupplier(x) ==
  /\ pc[x] = "insert" /\ ~VatPending(value[x].vat, x)
  /\ IF VatTaken(value[x].vat, x) THEN DatabaseError(x)
     ELSE /\ pc' = [pc EXCEPT ![x] = "inserted"]
          /\ UNCHANGED <<tables, work, retries, overlaps>>

\* The flush of the extraction: the UPDATE of a found supplier, and of the invoice,
\* whose reference locks the supplier's row
Attach(x) ==
  LET s == found[x] IN
  /\ pc[x] \in {"resolved", "inserted"}
  /\ pc[x] = "resolved" => ~VatPending(value[x].vat, x)
  /\ IF \/ invoice[x] \notin invoices
        \/ pc[x] = "resolved" /\ s # None /\ (s \notin suppliers \/ VatTaken(value[x].vat, s))
     THEN DatabaseError(x)
     ELSE /\ pc' = [pc EXCEPT ![x] = "flushed"]
          /\ UNCHANGED <<tables, work, retries, overlaps>>

AttachCommit(x) ==
  LET s == found[x] IN
  /\ pc[x] = "flushed"
  /\ supplier' = [supplier EXCEPT ![invoice[x]] = s]
  /\ extracted' = extracted \cup {invoice[x]}
  /\ suppliers' = IF s = x THEN suppliers \cup {x} ELSE suppliers
  /\ vat' = IF s # None /\ value[x].vat # None THEN [vat EXCEPT ![s] = value[x].vat] ELSE vat
  /\ name' = IF s = x
             THEN [name EXCEPT ![x] = IF value[x].name = None THEN UnknownName ELSE value[x].name]
             ELSE name
  /\ Committed(x)
  /\ UNCHANGED <<invoices, paid, transactions, work, retries>>

--------------------------------------------------------------------------------
(* The endpoints of suppliers *)

\* create_supplier: a vat that is taken is a 409
Create(x, v, n) ==
  /\ Is(x, "create") /\ ~VatPending(v, x)
  /\ IF VatTaken(v, x) THEN RolledBack(x)
     ELSE /\ suppliers' = suppliers \cup {x}
          /\ vat' = [vat EXCEPT ![x] = v] /\ name' = [name EXCEPT ![x] = n]
          /\ Committed(x)
          /\ UNCHANGED <<invoices, supplier, extracted, paid, transactions>>
  /\ UNCHANGED <<invoice, found, goal, value, moved, matched, loaded, retries>>

\* The columns that differ from the loaded ones are those it will write
UpdateLoad(x, s, v, n) ==
  /\ Is(x, "update") /\ s \in suppliers
  /\ found' = [found EXCEPT ![x] = s]
  /\ value' = [value EXCEPT ![x] = [vat  |-> IF v = vat[s] THEN Kept ELSE v,
                                    name |-> IF n = name[s] THEN None ELSE n]]
  /\ pc' = [pc EXCEPT ![x] = "update"]
  /\ UNCHANGED <<tables, invoice, goal, moved, matched, loaded, retries, overlaps>>

\* update_supplier: 409, or 500 when a merge has deleted the row
UpdateCommit(x) ==
  LET s == found[x] IN
  /\ pc[x] = "update" /\ ~VatPending(value[x].vat, x)
  /\ IF s \notin suppliers \/ VatTaken(value[x].vat, s) THEN RolledBack(x)
     ELSE /\ vat' = IF value[x].vat = Kept THEN vat ELSE [vat EXCEPT ![s] = value[x].vat]
          /\ name' = IF value[x].name = None THEN name ELSE [name EXCEPT ![s] = value[x].name]
          /\ Committed(x)
          /\ UNCHANGED <<suppliers, invoices, supplier, extracted, paid, transactions>>
  /\ UNCHANGED <<work, retries>>

\* Transactions with a flushed reference to s keep its row
References(s) ==
  {y \in Actors : \/ pc[y] = "flushed" /\ found[y] = s
                  \/ pc[y] = "moved" /\ goal[y] = s /\ moved[y] # {}}

\* merge_supplier: both rows are found
MergeLoad(x, s, t) ==
  /\ Is(x, "merge") /\ s \in suppliers /\ t \in suppliers /\ s # t
  /\ found' = [found EXCEPT ![x] = s] /\ goal' = [goal EXCEPT ![x] = t]
  /\ pc' = [pc EXCEPT ![x] = "move"]
  /\ UNCHANGED <<tables, invoice, value, moved, matched, loaded, retries, overlaps>>

OfSupplier(s) == {i \in invoices : supplier[i] = s}

\* mutant: the invoices still to be reviewed only
MoveSome(x) ==
  LET mine == OfSupplier(found[x]) IN
  /\ pc[x] = "move"
  /\ moved' \in {[moved EXCEPT ![x] = m] : m \in SUBSET mine}
  /\ pc' = [pc EXCEPT ![x] = "moved"]
  /\ UNCHANGED <<tables, kind, invoice, found, goal, value, matched, loaded, retries, overlaps>>
\* The UPDATE of the invoices of the source; it waits for another merge of them
Move(x) ==
  LET mine == OfSupplier(found[x]) IN
  /\ pc[x] = "move"
  /\ \A y \in Actors \ {x} : moved[y] \cap mine = {} \/ pc[y] # "moved"
  /\ IF mine # {} /\ goal[x] \notin suppliers
     THEN RolledBack(x) /\ UNCHANGED moved
     ELSE /\ moved' = [moved EXCEPT ![x] = mine]
          /\ pc' = [pc EXCEPT ![x] = "moved"]
          /\ UNCHANGED <<tables, overlaps>>
  /\ UNCHANGED <<kind, invoice, found, goal, value, matched, loaded, retries>>

\* DELETE of the source, which waits for References, and the commit: an invoice
\* that refers to it by now, and was not moved, loses its supplier
MergeCommit(x) ==
  LET s == found[x] IN
  /\ pc[x] = "moved" /\ References(s) = {}
  /\ suppliers' = suppliers \ {s}
  /\ supplier' = [i \in Invoices |-> IF i \in moved[x] THEN goal[x]
                                     ELSE IF supplier[i] = s THEN None ELSE supplier[i]]
  /\ Committed(x)
  /\ UNCHANGED <<vat, name, invoices, extracted, paid, transactions, work, retries>>

\* Two merges wait for each other: the database ends one
MergeVictim(x) ==
  /\ pc[x] = "moved"
  /\ \E y \in References(found[x]) : pc[y] = "moved" /\ x \in References(found[y])
  /\ RolledBack(x) /\ moved' = [moved EXCEPT ![x] = {}]
  /\ UNCHANGED <<kind, invoice, found, goal, value, matched, loaded, retries>>

--------------------------------------------------------------------------------
(* Payments *)

\* patch_payment and mark_paid
PayLoad(x, i, k) ==
  /\ k \in {"pay", "unpay", "delete"} /\ Is(x, k) /\ i \in invoices
  /\ invoice' = [invoice EXCEPT ![x] = i]
  /\ pc' = [pc EXCEPT ![x] = "pay"]
  /\ loaded' = [loaded EXCEPT ![x] = IF paid[i] = None THEN {i} ELSE {}]
  /\ UNCHANGED <<tables, found, goal, value, moved, matched, retries, overlaps>>

\* A paid_at that was NULL and is set to NULL is not written; the rows that refer
\* to a deleted invoice keep NULL
PayCommit(x) ==
  LET i == invoice[x] IN
  /\ pc[x] = "pay"
  /\ IF i \notin invoices THEN RolledBack(x)
     ELSE /\ paid' = [paid EXCEPT ![i] = IF kind[x] = "pay" THEN x
                                         ELSE IF kind[x] = "unpay" /\ i \notin loaded[x] THEN None
                                         ELSE @]
          /\ invoices' = IF kind[x] = "delete" THEN invoices \ {i} ELSE invoices
          /\ transactions' = IF kind[x] = "delete"
               THEN {[t EXCEPT !.invoice = IF @ = i THEN None ELSE @] : t \in transactions}
               ELSE transactions
          /\ Committed(x)
          /\ UNCHANGED <<suppliers, vat, name, supplier, extracted>>
  /\ UNCHANGED <<work, retries>>

ImportLoad(x) ==
  /\ Is(x, "import") /\ pc' = [pc EXCEPT ![x] = "import"]
  /\ UNCHANGED <<tables, invoice, found, goal, value, moved, matched, loaded, retries, overlaps>>

\* mutant: a paid invoice is a candidate too
CandidatesAll(amount) ==
  {i \in invoices \cap extracted : Total[i] \in amount - Tolerance .. amount + Tolerance}
\* The SELECT of a line: unpaid in the database, whatever this import has set,
\* with a total within 50 cents
Candidates(amount) ==
  {i \in invoices \cap extracted :
     paid[i] = None /\ Total[i] \in amount - Tolerance .. amount + Tolerance}

\* ORDER BY issue_date DESC LIMIT 1: any of those of the latest date
Newest(I) == {i \in I : \A j \in I : IssueDate[j] <= IssueDate[i]}

MatchLine(x) ==
  LET C == Candidates(Statement[Len(matched[x]) + 1]) IN
  /\ pc[x] = "import" /\ Len(matched[x]) < Len(Statement)
  /\ \E i \in IF C = {} THEN {None} ELSE Newest(C) :
       matched' = [matched EXCEPT ![x] = Append(@, i)]
  /\ UNCHANGED <<tables, pc, kind, invoice, found, goal, value, moved, loaded, retries, overlaps>>

Matches(x) == {matched[x][k] : k \in DOMAIN matched[x]} \ {None}

\* A date or an amount that cannot be parsed ends the request
ImportFails(x) ==
  /\ pc[x] = "import" /\ Len(matched[x]) < Len(Statement)
  /\ RolledBack(x)
  /\ UNCHANGED <<work, retries>>

\* The commit; the UPDATE of an invoice deleted in the meantime fails it
ImportCommit(x) ==
  /\ pc[x] = "import" /\ Len(matched[x]) = Len(Statement)
  /\ IF ~(Matches(x) \subseteq invoices) THEN RolledBack(x)
     ELSE /\ paid' = [i \in Invoices |-> IF i \in Matches(x) THEN x ELSE paid[i]]
          /\ transactions' = transactions \cup
               {[by |-> x, line |-> k, invoice |-> matched[x][k]] : k \in DOMAIN matched[x]}
          /\ Committed(x)
          /\ UNCHANGED <<suppliers, vat, name, invoices, supplier, extracted>>
  /\ UNCHANGED <<work, retries>>

--------------------------------------------------------------------------------

Ocr(x) ==
  \/ \E i \in Invoices : Resolve(x, i)
  \/ Refused(x) \/ InsertSupplier(x) \/ Attach(x) \/ AttachCommit(x)

SupplierRequest(x) ==
  \/ \E v \in Vats \cup {None}, n \in Names : Create(x, v, n)
  \/ \E s \in Suppliers, v \in Vats \cup {None}, n \in Names : UpdateLoad(x, s, v, n)
  \/ UpdateCommit(x)
  \/ \E s, t \in Suppliers : MergeLoad(x, s, t)
  \/ Move(x) \/ MergeCommit(x) \/ MergeVictim(x)

Payment(x) ==
  \/ \E i \in Invoices, k \in {"pay", "unpay", "delete"} : PayLoad(x, i, k)
  \/ PayCommit(x)
  \/ ImportLoad(x) \/ MatchLine(x) \/ ImportFails(x) \/ ImportCommit(x)

Next == \E x \in Actors : Ocr(x) \/ SupplierRequest(x) \/ Payment(x)

Spec == Init /\ [][Next]_vars

--------------------------------------------------------------------------------
(* Properties *)

TypeOK ==
  /\ suppliers \subseteq Suppliers
  /\ vat \in [Suppliers -> Vats \cup {None}] /\ name \in [Suppliers -> Names]
  /\ invoices \subseteq Invoices /\ extracted \subseteq Invoices
  /\ supplier \in [Invoices -> Suppliers \cup {None}] /\ paid \in [Invoices -> Actors \cup {None}]
  /\ transactions \subseteq [by: Actors, line: 1..Len(Statement), invoice: Invoices \cup {None}]
  /\ pc \in [Actors -> {"new", "again", "resolved", "insert", "inserted", "flushed", "update", "move",
                        "moved", "pay", "import", "done"}]
  /\ kind \in [Actors -> AllKinds \cup {"none"}]
  /\ invoice \in [Actors -> Invoices \cup {None}]
  /\ found \in [Actors -> Suppliers \cup {None}] /\ goal \in [Actors -> Suppliers \cup {None}]
  /\ value \in [Actors -> [vat: Vats \cup {None, Kept}, name: Names \cup {None}]]
  /\ moved \in [Actors -> SUBSET Invoices] /\ loaded \in [Actors -> SUBSET Invoices]
  /\ matched \in [Actors -> Seq(Invoices \cup {None})]
  /\ retries \in [Actors -> 0..MaxRetries] /\ overlaps \subseteq Actors \X Actors

Named(i) == Extracted[i] # Nothing

\* An invoice that was extracted with a name or a vat has a supplier that exists;
\* it has none only when a merge deleted a supplier while another transaction
\* attached invoices to it.
SupplierKept ==
  \A i \in invoices \cap extracted :
    \/ supplier[i] \in suppliers
    \/ /\ supplier[i] = None
       /\ Named(i) => \E x, y \in Actors : kind[y] = "merge" /\ <<x, y>> \in overlaps

NamedByReviewer(s) ==
  \E x \in Actors : \/ kind[x] = "create" /\ x = s
                    \/ kind[x] = "update" /\ found[x] = s

\* Two rows have one name that was read on a document only when a reviewer named one
\* of them, or when they come from two tasks of which each searched before the other
\* committed: retries and later documents find the supplier that is there
\* (_resolve_supplier).
OneSupplierPerName ==
  \A s, t \in suppliers :
    s # t /\ name[s] = name[t] /\ name[s] # UnknownName =>
      \/ NamedByReviewer(s) \/ NamedByReviewer(t)
      \/ <<s, t>> \in overlaps \/ <<t, s>> \in overlaps

\* Two lines paid by one invoice come from one statement, whose import does not see
\* what it has matched itself, from two imports that overlapped, or from after the
\* payment was taken back: a statement imported twice finds its invoices paid.
MatchedOnce ==
  \A a, b \in transactions :
    a.invoice = b.invoice /\ a.invoice # None /\ a.by # b.by =>
      \/ <<a.by, b.by>> \in overlaps \/ <<b.by, a.by>> \in overlaps
      \/ \E x \in Actors : kind[x] = "unpay" /\ invoice[x] = a.invoice
=============================================================================
