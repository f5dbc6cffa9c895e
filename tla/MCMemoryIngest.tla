--------------------------- MODULE MCMemoryIngest ---------------------------
(* MemoryIngest on small sets for TLC. *)
EXTENDS MemoryIngest, TLC
=============================================================================
