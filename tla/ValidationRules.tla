---------------------------- MODULE ValidationRules ----------------------------
(***************************************************************************)
(* The invoice validation rules shared by the OCR worker and the review    *)
(* API (raijin_shared/validation/rules.py).                                *)
(*                                                                         *)
(* A rule returns the set of issue codes it reports.  The code attaches a  *)
(* fixed severity to every code, so a severity is a property of the code:  *)
(* ErrorCodes are the blocking ones.  Amounts are cents, dates are day     *)
(* numbers, the OCR confidence is a percentage; None stands for a missing  *)
(* value.                                                                  *)
(***************************************************************************)
EXTENDS Integers

CONSTANTS
  None,    \* a NULL column or a field the OCR did not return
  Today    \* date.today(), as a day number

ErrorCodes ==
  {"missing_vendor_name", "missing_invoice_date", "missing_invoice_total",
   "totals_mismatch", "subtotal_gt_total", "issue_after_due",
   "low_confidence", "ocr_failed"}

WarningCodes ==
  {"missing_invoice_id", "issue_date_future", "medium_confidence",
   "no_confidence", "possible_duplicate"}

IssueCodes == ErrorCodes \cup WarningCodes

\* ValidationReport.has_errors
HasErrors(issues) == issues \cap ErrorCodes # {}

When(cond, code) == IF cond THEN {code} ELSE {}

Tolerance == 2

Near(a, b) == a - b \in -Tolerance .. Tolerance

RequiredFieldIssues(hasVendor, number, issue) ==
       When(~hasVendor, "missing_vendor_name")
  \cup When(number = None, "missing_invoice_id")
  \cup When(issue = None, "missing_invoice_date")

TotalsIssues(net, vat, gross) ==
  IF net = None /\ vat = None /\ gross = None THEN {}
  ELSE IF gross = None THEN {"missing_invoice_total"}
  ELSE      When(net # None /\ vat # None /\ ~Near(net + vat, gross), "totals_mismatch")
       \cup When(net # None /\ net > gross, "subtotal_gt_total")

DateIssues(issue, due) ==
       When(issue # None /\ due # None /\ issue > due, "issue_after_due")
  \cup When(issue # None /\ issue > Today + 7, "issue_date_future")

DuplicateIssues(duplicateOf) == When(duplicateOf # None, "possible_duplicate")

ConfidenceIssues(confidence) ==
  IF confidence = None THEN {"no_confidence"}
  ELSE      When(confidence < 70, "low_confidence")
       \cup When(confidence \in 70 .. 89, "medium_confidence")
================================================================================
