--------------------------- MODULE MCAuditService ---------------------------
(***************************************************************************)
(* Instances of AuditService for TLC.                                      *)
(***************************************************************************)
EXTENDS AuditService, TLC

CONSTANTS ours, theirs, t1, t2

Threads == Permutations({t1, t2})

\* With faults the instance is smaller: one record, and one claim id.
Smaller == faults # {} => store'[ours] = NoRecord /\ stage'[4] = "None"
SmallerSpec == ServiceInit /\ [][ServiceNext /\ Smaller]_serviceVars
=============================================================================
