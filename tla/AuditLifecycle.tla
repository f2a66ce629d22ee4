--------------------------- MODULE AuditLifecycle ---------------------------
(***************************************************************************)
(* What contracts/src/ProofOfAudit.sol promises about one published        *)
(* report, whichever of its two flows it went through: the abstract        *)
(* specification of DirectAudit and of the claims of RequestSettlement,    *)
(* and the contract as the API of AuditService sees it.                    *)
(*                                                                         *)
(* Stakes, windows and callers are left out, so any step may be taken at   *)
(* any time that the stage allows.                                         *)
(***************************************************************************)
CONSTANTS
  Audits,                \* ids given out by publishAudit
  Claims                 \* ids given out by submitAuditRequestClaim

ASSUME EntriesAssumption == Audits \cap Claims = {}

VARIABLE stage           \* the stage of each id

Entries == Audits \cup Claims

\* Upheld stands for a claim that is Slashed too, and Rejected for an audit
\* whose unchallenged stake was released too.
Stage == {"None", "Published", "Challenged", "Upheld", "Rejected"}

LifecycleInit == stage = [id \in Entries |-> "None"]

Move(id, from, to) ==
  /\ stage[id] = from
  /\ stage' = [stage EXCEPT ![id] = to]

Publish(id)   == Move(id, "None", "Published")
Challenge(id) == Move(id, "Published", "Challenged")

Resolve(id, upheld) ==
  Move(id, "Challenged", IF upheld THEN "Upheld" ELSE "Rejected")

\* Only an audit is released, and only the challenge of a claim expires.
Release(id) == id \in Audits /\ Move(id, "Published", "Rejected")
Expire(id)  == id \in Claims /\ Move(id, "Challenged", "Published")

LifecycleNext ==
  \E id \in Entries :
    \/ Publish(id)
    \/ Challenge(id)
    \/ \E upheld \in BOOLEAN : Resolve(id, upheld)
    \/ Release(id)
    \/ Expire(id)

LifecycleSpec == LifecycleInit /\ [][LifecycleNext]_stage
=============================================================================
