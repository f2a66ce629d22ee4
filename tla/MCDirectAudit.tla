---------------------------- MODULE MCDirectAudit ----------------------------
(***************************************************************************)
(* Instances of DirectAudit for TLC.                                       *)
(***************************************************************************)
EXTENDS DirectAudit

CONSTANTS Alice, Bob, Judge
=============================================================================
