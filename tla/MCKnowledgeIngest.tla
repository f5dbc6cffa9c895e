-------------------------- MODULE MCKnowledgeIngest --------------------------
(* KnowledgeIngest on small sets for TLC. *)
EXTENDS KnowledgeIngest, TLC

CONSTANTS p1, p2, j1, j2

\* A batch of two files, and one of them ingested again, by force or not.
MCRequests ==
    (j1 :> {[paths |-> {p1, p2}, force |-> FALSE]}) @@
    (j2 :> {[paths |-> {p1}, force |-> b] : b \in BOOLEAN})
=============================================================================
