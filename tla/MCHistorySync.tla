---------------------------- MODULE MCHistorySync ----------------------------
(* HistorySync on small sets for TLC. *)
EXTENDS HistorySync
=============================================================================
