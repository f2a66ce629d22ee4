---------------------------- MODULE ProofOfAudit -----------------------------
(***************************************************************************)
(* The whole contract of contracts/src/ProofOfAudit.sol: the single-audit  *)
(* flow and the marketplace flow over one block time and one ether         *)
(* balance.  A transaction runs alone, so a step is one call of one flow,  *)
(* or a later block.                                                       *)
(***************************************************************************)
EXTENDS DirectAudit, RequestSettlement

vars == <<now, balance, directVars, requestVars>>

Init == ChainInit /\ DirectInit /\ RequestInit

NextBlock == AdvanceTime /\ UNCHANGED <<balance, directVars, requestVars>>

Next ==
  \/ DirectNext /\ UNCHANGED <<now, requestVars>>
  \/ RequestNext /\ UNCHANGED <<now, directVars>>
  \/ NextBlock

Spec == Init /\ [][Next]_vars

-----------------------------------------------------------------------------

\* The variables of the contract hold values of their types.
TypeOK == ChainTypeOK /\ DirectTypeOK /\ RequestTypeOK

\* The escrow of the two flows is kept apart although it lies in one balance:
\* the contract holds exactly what the audits, the claims, the requests, the
\* expired bonds and the treasury are owed.
Solvency == balance = DirectEscrow + RequestEscrow

\* Every payout that the contract could be asked for now is covered by what
\* it holds, whoever was paid before.
PayoutsAreCovered ==
  /\ \A id \in AuditIds : HeldFor(audits[id]) <= balance
  /\ \A c \in ClaimIds :
       /\ ClaimHeld(c) <= balance
       /\ claimSettlements[c].eligible /\ ~claimSettlements[c].withdrawn
          /\ settlements[claims[c].requestId].finalized =>
            claims[c].stakeAmount
              + ClaimBountyShare(claims[c], settlements[claims[c].requestId])
              <= balance
  /\ \A r \in RequestIds : RequestHeld(r) \in 0..balance
  /\ \A a \in Address : bondRefunds[a] <= balance
  /\ protocolFees + resolutionFees <= balance

\* One balance holds what the two flows owe, and pays it in any order: TypeOK,
\* Solvency and PayoutsAreCovered.
EscrowIsSound == TypeOK /\ Solvency /\ PayoutsAreCovered
\* What is due now: a stake whose challenge window passed quietly, the stake
\* and share of an eligible claim of a settled request, and what goes back to
\* a requester.
ReleaseDue(id) ==
  audits[id].state = "Published" /\ Elapsed(audits[id].publishedAt, ChallengeWindow)

ShareDue(c) ==
  /\ claimSettlements[c].eligible
  /\ ~claimSettlements[c].withdrawn
  /\ settlements[claims[c].requestId].finalized

DueOnClaim(c) ==
  claims[c].stakeAmount
    + ClaimBountyShare(claims[c], settlements[claims[c].requestId])

RefundDue(r) ==
  \/ requests[r].state = "Expired"
  \/ RefundReady(settlements[r]) /\ ~settlements[r].requesterRefundWithdrawn

DueOnRequest(r) ==
  IF requests[r].state = "Expired" \/ settlements[r].eligibleClaimCount = 0
  THEN requests[r].bountyAmount
  ELSE settlements[r].distributableBountyAmount
         - settlements[r].cumulativeBountyWithdrawn

Paid(amount) == balance' = balance - amount

\* What is due stays due, and for the same amount, until it is paid in full:
\* no call of either flow takes it away or changes it, whoever is paid before.
DuesStand ==
  [][/\ \A id \in AuditIds :
          ReleaseDue(id) =>
            \/ ReleaseDue(id)' /\ audits'[id] = audits[id]
            \/ audits'[id].state = "Resolved" /\ Paid(audits[id].stakeAmount)
     /\ \A c \in ClaimIds :
          ShareDue(c) =>
            \/ ShareDue(c)' /\ DueOnClaim(c)' = DueOnClaim(c)
            \/ claimSettlements'[c].withdrawn /\ Paid(DueOnClaim(c))
     /\ \A r \in RequestIds :
          RefundDue(r) =>
            \/ RefundDue(r)' /\ DueOnRequest(r)' = DueOnRequest(r)
            \/ ~RefundDue(r)' /\ Paid(DueOnRequest(r))
     /\ \A a \in Address :
          \/ bondRefunds'[a] >= bondRefunds[a]
          \/ bondRefunds'[a] = 0 /\ Paid(bondRefunds[a])
    ]_vars
=============================================================================
