-------------------------- MODULE MCLoginSessions --------------------------
(* Small instances of the login sessions for TLC.                            *)
EXTENDS LoginSessions, TLC
=============================================================================
