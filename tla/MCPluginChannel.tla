-------------------------- MODULE MCPluginChannel --------------------------
(* PluginChannel on small sets for TLC. *)
EXTENDS PluginChannel, TLC
=============================================================================
