--------------------------- MODULE MCResourceSync ---------------------------
(* ResourceSync on small sets for TLC. *)
EXTENDS ResourceSync, TLC

\* Devices are interchangeable in every action and property.
Symmetry == Permutations(Device)
=============================================================================
