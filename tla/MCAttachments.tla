--------------------------- MODULE MCAttachments ---------------------------
(* Small instances of the attachments for TLC.                               *)
EXTENDS Attachments, TLC
=============================================================================
