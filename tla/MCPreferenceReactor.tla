------------------------ MODULE MCPreferenceReactor ------------------------
(* PreferenceReactor on small sets for TLC. *)
EXTENDS PreferenceReactor, TLC
=============================================================================
