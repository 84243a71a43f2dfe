------------------------------ MODULE MCIngestion ------------------------------
(* Instances of Ingestion for TLC. *)
EXTENDS Ingestion, TLC

CONSTANTS inbox, gmail, i1, c1, t1, t2

MCInboxOne   == [i \in {i1} |-> inbox]
MCGmailOne   == [i \in {i1} |-> gmail]
MCSame       == [i \in Items |-> c1]

Interchangeable == Permutations({t1, t2})
=============================================================================
