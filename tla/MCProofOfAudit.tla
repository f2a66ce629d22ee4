--------------------------- MODULE MCProofOfAudit ----------------------------
(***************************************************************************)
(* Instances of ProofOfAudit for TLC, with the identities and rules of     *)
(* MCRequestSettlement.                                                    *)
(***************************************************************************)
EXTENDS ProofOfAudit, MCRequestSettlement
=============================================================================
