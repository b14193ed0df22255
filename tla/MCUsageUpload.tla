--------------------------- MODULE MCUsageUpload ---------------------------
(* Instances of UsageUpload for TLC. *)
EXTENDS UsageUpload
============================================================================
