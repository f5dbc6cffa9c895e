-------------------------- MODULE MCAttachmentFetch --------------------------
(* AttachmentFetch on small sets for TLC. *)
EXTENDS AttachmentFetch, TLC
=============================================================================
