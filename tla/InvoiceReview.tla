----------------------------- MODULE InvoiceReview -----------------------------
(***************************************************************************)
(* What the review promises of every invoice, whoever works on it:         *)
(* the matrix of ADR 0002 with the status processing hidden (the worker    *)
(* commits uploaded -> ready_for_review or failed in one transaction) and  *)
(* with the reprocessing of failed invoices that the runbook describes.    *)
(*                                                                         *)
(* A document changes only when the OCR reads it or a reviewer corrects    *)
(* it; from the confirmation or the rejection to the reopening it is       *)
(* frozen, and a confirmed document is clean.                              *)
(***************************************************************************)
CONSTANTS
  Invoices,
  Blank,        \* the document of an invoice the OCR has not read
  Clean(_)      \* whether a document may be confirmed

VARIABLES
  state,        \* status of each invoice, "absent" or "deleted"
  document      \* its columns

vars == <<state, document>>

Init ==
  /\ state = [i \in Invoices |-> "absent"]
  /\ document = [i \in Invoices |-> Blank]

Move(i, from, to) ==
  /\ state[i] \in from
  /\ state' = [state EXCEPT ![i] = to]

OnlyDocument(i) == \A j \in Invoices \ {i} : document'[j] = document[j]

Register(i) == Move(i, {"absent"}, "uploaded") /\ UNCHANGED document

Read(i) == Move(i, {"uploaded", "failed"}, "ready_for_review") /\ OnlyDocument(i)

Fail(i) == Move(i, {"uploaded", "failed"}, "failed") /\ UNCHANGED document

Correct(i) == Move(i, {"ready_for_review", "rejected"}, "ready_for_review") /\ OnlyDocument(i)

Confirm(i) == Clean(document[i]) /\ Move(i, {"ready_for_review"}, "confirmed") /\ UNCHANGED document

Reject(i) == Move(i, {"ready_for_review"}, "rejected") /\ UNCHANGED document

Reopen(i) == Move(i, {"confirmed", "rejected"}, "ready_for_review") /\ UNCHANGED document

Delete(i) ==
  /\ state[i] # "absent"
  /\ Move(i, {state[i]}, "deleted")
  /\ UNCHANGED document

Next ==
  \E i \in Invoices :
    \/ Register(i) \/ Read(i) \/ Fail(i) \/ Correct(i)
    \/ Confirm(i) \/ Reject(i) \/ Reopen(i) \/ Delete(i)

Spec == Init /\ [][Next]_vars
================================================================================
