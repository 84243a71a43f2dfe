------------------------- MODULE MCInvoiceLifecycle -------------------------
(* Instances of InvoiceLifecycle for TLC. *)
EXTENDS InvoiceLifecycle, TLC

CONSTANTS s1

\* Amounts in cents: 100.00 + 24.00 = 124.00
CleanDocument ==
  [supplier_id |-> s1, invoice_number |-> 7, issue_date |-> 10, due_date |-> 40,
   total_ht |-> 10000, total_vat |-> 2400, total_ttc |-> 12400,
   vendor_named |-> TRUE, confidence |-> 95]

MCSuppliers == {s1}

\* 7 and 8 are alike, nothing is left of 9 when it is normalised
MCNumbers == 7 .. 9
MCScore ==
  [p \in MCNumbers \X MCNumbers |->
     CASE 9 \in {p[1], p[2]} -> 0 [] p[1] = p[2] -> 100 [] OTHER -> 85]

\* A clean document; one the OCR misread and is unsure of; one whose vendor
\* is known by its VAT number only
MCExtractions ==
  {CleanDocument,
   [CleanDocument EXCEPT !.total_ttc = 12300, !.confidence = 60],
   [CleanDocument EXCEPT !.vendor_named = FALSE, !.invoice_number = None]}

\* A correction of the total, a wrong one, and a correction of the net amount
\* that only fits the wrong total
MCPatches ==
  {[total_ttc |-> 12400], [total_ttc |-> 12300], [total_ht |-> 9900]}

\* Fewer inputs, for the runs with more sessions
MCOneExtraction == {[CleanDocument EXCEPT !.total_ttc = 12300, !.confidence = 60]}
MCTwoExtractions == {CleanDocument} \cup MCOneExtraction
MCAlikeExtractions ==
  {[CleanDocument EXCEPT !.total_ttc = 12300, !.confidence = 60, !.invoice_number = n] :
     n \in MCNumbers}
MCOnePatch == {[total_ttc |-> 12400]}
MCDuePatch == {[due_date |-> 50]}
MCNoPatch == {}

\* Invoices are interchangeable
InvoiceSymmetry == Permutations(Invoices)
=============================================================================
