-------------------------- MODULE MCActionApproval --------------------------
(* Small instances of the action requests for TLC.                           *)
EXTENDS ActionApproval, TLC
=============================================================================
