------------------------------- MODULE MCAccounts -------------------------------
(* Instances of Accounts for TLC. *)
EXTENDS Accounts

CONSTANTS u1, x1, x2

\* Two requests that may do anything
MCOperations == [x \in {x1, x2} |-> AllOps]
=============================================================================
