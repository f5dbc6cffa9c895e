----------------------------- MODULE MCPairing -----------------------------
(* Pairing on small sets for TLC. *)
EXTENDS Pairing, TLC

\* Attempts are interchangeable in every action and property.
Symmetry == Permutations(Attempt)
=============================================================================
