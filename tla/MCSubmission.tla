----------------------------- MODULE MCSubmission -----------------------------
(* Instances of Submission for TLC. *)
EXTENDS Submission, TLC

\* Messages of one invoice, or of alike invoices, are interchangeable
TaskSymmetry == Permutations(Tasks)
===============================================================================
