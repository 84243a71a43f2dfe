-------------------------------- MODULE MCLedger --------------------------------
(* Instances of Ledger for TLC. *)
EXTENDS Ledger, TLC

CONSTANTS i1, i2, n1, n2, v1, x1, x2, x3, s1, s2

\* Two invoices of one supplier and one amount; one has the vat number too
MCExtracted == [i \in {i1, i2} |-> [vat |-> IF i = i1 THEN v1 ELSE None, name |-> n1]]
MCTotal     == [i \in {i1, i2} |-> IF i = i1 THEN 100 ELSE 150]
MCIssueDate == [i \in {i1, i2} |-> IF i = i1 THEN 1 ELSE 2]
MCStatement == <<100, 100>>
MCKinds     == [x \in {x1, x2, x3} |->
  CASE x = x1 -> {"ocr", "import"}
    [] x = x2 -> {"ocr", "import", "merge", "create", "update"}
    [] x = x3 -> {"merge", "pay", "unpay", "delete", "import"}]

Interchangeable == Permutations({s1, s2})
=============================================================================
