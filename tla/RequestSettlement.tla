-------------------------- MODULE RequestSettlement --------------------------
(***************************************************************************)
(* The marketplace flow of contracts/src/ProofOfAudit.sol: a requester     *)
(* escrows a bounty, auditors submit staked claims until the response      *)
(* window ends, claims are challenged, resolved or their challenge         *)
(* expires, and once every claim is final the bounty is shared in          *)
(* proportion to the stakes of the claims that survived.                   *)
(*                                                                         *)
(* Hashes, severities, finding counts and events are left out: no call     *)
(* reads them back.  The owner of an agent identity is the answer of an    *)
(* external ERC-721 registry and may change between two calls.             *)
(***************************************************************************)
EXTENDS EscrowCommon, Sequences

CONSTANTS
  Registry,               \* addresses of agent identity registries
  AgentId,                \* the agent ids that they give out
  InitialOwner,           \* who owns each identity at first
  Transferable,           \* the identities that can change owner
  Bounties,               \* the bounty amounts that a request may name
  ResponseWindows,        \* the response windows that a request may name
  Eligibilities,          \* the eligibility rules that a request may carry
  BatchSizes,             \* the batch sizes of classifyAuditRequestClaims
  MaxRequests,            \* bound on the requests created
  MaxClaims               \* bound on the claims submitted

Identity == Registry \X AgentId

EligibilityConfig ==
  [minimumStakeAmount  : Nat,
   allowlistEnabled    : BOOLEAN,
   allowlistedAuditors : SUBSET (Address \cup {NoAddress}),
   identityRegistry    : Registry \cup {NoAddress},
   requiredAgentId     : AgentId \cup {0}]

ASSUME RequestConstantsAssumption ==
  /\ AgentId \subseteq Nat \ {0}
  /\ NoAddress \notin Registry
  /\ InitialOwner \in [Identity -> Address \cup {NoAddress}]
  /\ Transferable \subseteq Identity
  /\ Bounties \subseteq Nat
  /\ ResponseWindows \subseteq Nat
  /\ Eligibilities \subseteq EligibilityConfig
  /\ BatchSizes \subseteq Nat
  /\ MaxRequests \in Nat
  /\ MaxClaims \in Nat

VARIABLES
  requests,            \* auditRequests, with the allowlist of each request
  claimIds,            \* auditRequestClaimIds
  claims,              \* auditRequestClaims
  settlements,         \* auditRequestSettlements
  claimSettlements,    \* auditRequestClaimSettlements
  identityUsed,        \* requestClaimIdentityUsed
  bondRefunds,         \* expiredChallengeBondRefunds
  protocolFees,        \* accruedProtocolFees
  resolutionFees,      \* accruedResolutionFees
  nextRequestId,       \* the last request id given out
  nextClaimId,         \* the last claim id given out
  identityOwner        \* ownerOf, in the external registries

requestVars ==
  <<requests, claimIds, claims, settlements, claimSettlements, identityUsed,
    bondRefunds, protocolFees, resolutionFees, nextRequestId, nextClaimId,
    identityOwner>>

RequestIds == 1..MaxRequests
ClaimIds == 1..MaxClaims

RequestState == {"None", "Open", "Closed", "Expired", "Settled"}
ClaimState == {"None", "Submitted", "Challenged", "Slashed", "Resolved"}
ClaimResolution == {"None", "ChallengeUpheld", "ChallengeRejected"}

AnyAddress == Address \cup {NoAddress}

RequestRecord ==
  [requester         : AnyAddress,
   createdAt         : Nat,
   responseWindowEnd : Nat,
   bountyAmount      : Nat,
   claimCount        : 0..MaxClaims,
   state             : RequestState \ {"Closed"},
   eligibility       : EligibilityConfig]

ClaimRecord ==
  [requestId     : 0..MaxRequests,
   auditor       : AnyAddress,
   agentRegistry : Registry \cup {NoAddress},
   agentId       : AgentId \cup {0},
   submittedAt   : Nat,
   challengedAt  : Nat,
   stakeAmount   : Nat,
   challengeBond : Nat,
   state         : ClaimState,
   resolution    : ClaimResolution,
   challenger    : AnyAddress]

SettlementRecord ==
  [classifiedClaimCount      : 0..MaxClaims,
   eligibleClaimCount        : 0..MaxClaims,
   claimantWithdrawnCount    : 0..MaxClaims,
   finalized                 : BOOLEAN,
   requesterRefundWithdrawn  : BOOLEAN,
   eligibleStakeTotal        : Nat,
   protocolFeeAmount         : Nat,
   distributableBountyAmount : Nat,
   cumulativeBountyWithdrawn : Nat]

\* What the unused slots of the mappings read as.
NoEligibility ==
  [minimumStakeAmount |-> 0, allowlistEnabled |-> FALSE,
   allowlistedAuditors |-> {}, identityRegistry |-> NoAddress,
   requiredAgentId |-> 0]

NoRequest ==
  [requester |-> NoAddress, createdAt |-> 0, responseWindowEnd |-> 0,
   bountyAmount |-> 0, claimCount |-> 0, state |-> "None",
   eligibility |-> NoEligibility]

NoClaim ==
  [requestId |-> 0, auditor |-> NoAddress, agentRegistry |-> NoAddress,
   agentId |-> 0, submittedAt |-> 0, challengedAt |-> 0, stakeAmount |-> 0,
   challengeBond |-> 0, state |-> "None", resolution |-> "None",
   challenger |-> NoAddress]

NoSettlement ==
  [classifiedClaimCount |-> 0, eligibleClaimCount |-> 0,
   claimantWithdrawnCount |-> 0, finalized |-> FALSE,
   requesterRefundWithdrawn |-> FALSE, eligibleStakeTotal |-> 0,
   protocolFeeAmount |-> 0, distributableBountyAmount |-> 0,
   cumulativeBountyWithdrawn |-> 0]

RequestTypeOK ==
  /\ requests \in [RequestIds -> RequestRecord]
  /\ claimIds \in [RequestIds -> Seq(ClaimIds)]
  /\ claims \in [ClaimIds -> ClaimRecord]
  /\ settlements \in [RequestIds -> SettlementRecord]
  /\ claimSettlements \in [ClaimIds -> [eligible : BOOLEAN, withdrawn : BOOLEAN]]
  /\ identityUsed \in [RequestIds -> SUBSET Identity]
  /\ bondRefunds \in [Address -> Nat]
  /\ protocolFees \in Nat
  /\ resolutionFees \in Nat
  /\ nextRequestId \in 0..MaxRequests
  /\ nextClaimId \in 0..MaxClaims
  /\ identityOwner \in [Identity -> AnyAddress]

RequestInit ==
  /\ requests = [r \in RequestIds |-> NoRequest]
  /\ claimIds = [r \in RequestIds |-> <<>>]
  /\ claims = [c \in ClaimIds |-> NoClaim]
  /\ settlements = [r \in RequestIds |-> NoSettlement]
  /\ claimSettlements =
       [c \in ClaimIds |-> [eligible |-> FALSE, withdrawn |-> FALSE]]
  /\ identityUsed = [r \in RequestIds |-> {}]
  /\ bondRefunds = [a \in Address |-> 0]
  /\ protocolFees = 0
  /\ resolutionFees = 0
  /\ nextRequestId = 0
  /\ nextClaimId = 0
  /\ identityOwner = InitialOwner

-----------------------------------------------------------------------------
(***************************************************************************)
(* Views.  Definitions named Mutated... are the wrong forms that the       *)
(* properties are tested against; no specification uses them.              *)
(***************************************************************************)

\* The window is taken to end one block early.
MutatedAuditRequestState(requestId) ==
  LET request == requests[requestId] IN
  IF request.state = "Open" /\ now >= request.responseWindowEnd
    THEN "Closed" ELSE request.state

\* Closed is not stored: an open request reads as closed once its response
\* window is over.
AuditRequestState(requestId) ==
  LET request == requests[requestId] IN
  IF request.state = "Open" /\ now > request.responseWindowEnd
    THEN "Closed" ELSE request.state

\* The agent that the request names is not compared.
MutatedEligibleAuditor(requestId, sender, registry, agentId) ==
  LET rules == requests[requestId].eligibility IN
  /\ registry # NoAddress
  /\ agentId # 0
  /\ rules.allowlistEnabled => sender \in rules.allowlistedAuditors
  /\ rules.identityRegistry \in {NoAddress, registry}
  /\ identityOwner[<<registry, agentId>>] = sender

\* Who may take part in a request, as claimant or as challenger, under which
\* identity (_requireRequestClaimAuditorEligibility).
EligibleAuditor(requestId, sender, registry, agentId) ==
  LET rules == requests[requestId].eligibility IN
  /\ registry # NoAddress
  /\ agentId # 0
  /\ rules.allowlistEnabled => sender \in rules.allowlistedAuditors
  /\ rules.identityRegistry \in {NoAddress, registry}
  /\ rules.requiredAgentId \in {0, agentId}
  /\ identityOwner[<<registry, agentId>>] = sender

\* The last block of the challenge window is taken to be outside it.
MutatedClaimReady(claim) ==
  \/ claim.state = "Submitted" /\ now >= claim.submittedAt + ChallengeWindow
  \/ claim.state \in {"Resolved", "Slashed"}

\* A claim can be classified when nothing can change it any more: it is
\* unchallenged and out of its window, or the arbiter has ruled on it.
ClaimReady(claim) ==
  \/ claim.state = "Submitted" /\ Elapsed(claim.submittedAt, ChallengeWindow)
  \/ claim.state = "Resolved" /\ claim.resolution = "ChallengeRejected"
  \/ claim.state = "Slashed" /\ claim.resolution = "ChallengeUpheld"

\* The eligible answer of _requestClaimSettlementStatus for a ready claim.
ClaimEligible(claim) == claim.state # "Slashed"

\* The share is rounded up.
MutatedClaimBountyShare(claim, settlement) ==
  IF settlement.eligibleStakeTotal = 0 THEN 0
  ELSE (settlement.distributableBountyAmount * claim.stakeAmount
          + settlement.eligibleStakeTotal - 1)
         \div settlement.eligibleStakeTotal

ClaimBountyShare(claim, settlement) ==
  IF settlement.eligibleStakeTotal = 0 THEN 0
  ELSE (settlement.distributableBountyAmount * claim.stakeAmount)
         \div settlement.eligibleStakeTotal

-----------------------------------------------------------------------------
(***************************************************************************)
(* The calls of requesters, claimants and challengers.                     *)
(***************************************************************************)
CreateAuditRequest(sender, value, bountyAmount, responseWindow, eligibility) ==
  /\ responseWindow # 0
  /\ bountyAmount # 0
  /\ value = bountyAmount
  /\ eligibility.allowlistEnabled =>
       /\ eligibility.allowlistedAuditors # {}
       /\ NoAddress \notin eligibility.allowlistedAuditors
  /\ nextRequestId < MaxRequests
  /\ now <= LastOpening
  /\ nextRequestId' = nextRequestId + 1
  /\ requests' = [requests EXCEPT ![nextRequestId + 1] =
       [requester         |-> sender,
        createdAt         |-> now,
        responseWindowEnd |-> now + responseWindow,
        bountyAmount      |-> bountyAmount,
        claimCount        |-> 0,
        state             |-> "Open",
        eligibility       |->
          IF eligibility.allowlistEnabled THEN eligibility
          ELSE [eligibility EXCEPT !.allowlistedAuditors = {}]]]
  /\ Accept(value)
  /\ UNCHANGED <<claimIds, claims, settlements, claimSettlements, identityUsed,
                 bondRefunds, protocolFees, resolutionFees, nextClaimId,
                 identityOwner>>

MinimumStake(requestId) ==
  LET floor == requests[requestId].eligibility.minimumStakeAmount IN
  IF floor > RequiredStake THEN floor ELSE RequiredStake

\* The identity is not marked as used.
MutatedUse(requestId, identity) == identityUsed

\* The canonical identity key of a request is spent by its first claim.
Use(requestId, identity) ==
  [identityUsed EXCEPT ![requestId] = @ \cup {identity}]

SubmitAuditRequestClaim(sender, value, requestId, registry, agentId) ==
  /\ requests[requestId].createdAt # 0
  /\ AuditRequestState(requestId) = "Open"
  /\ EligibleAuditor(requestId, sender, registry, agentId)
  /\ value >= MinimumStake(requestId)
  /\ <<registry, agentId>> \notin identityUsed[requestId]
  /\ nextClaimId < MaxClaims
  /\ identityUsed' = Use(requestId, <<registry, agentId>>)
  /\ nextClaimId' = nextClaimId + 1
  /\ claims' = [claims EXCEPT ![nextClaimId + 1] =
       [NoClaim EXCEPT !.requestId = requestId,
                       !.auditor = sender,
                       !.agentRegistry = registry,
                       !.agentId = agentId,
                       !.submittedAt = now,
                       !.stakeAmount = value,
                       !.state = "Submitted"]]
  /\ claimIds' = [claimIds EXCEPT ![requestId] = Append(@, nextClaimId + 1)]
  /\ requests' = [requests EXCEPT ![requestId].claimCount = @ + 1]
  /\ Accept(value)
  /\ UNCHANGED <<settlements, claimSettlements, bondRefunds, protocolFees,
                 resolutionFees, nextRequestId, identityOwner>>

ChallengeAuditRequestClaim(sender, value, claimId, registry, agentId) ==
  LET claim == claims[claimId] IN
  /\ claim.requestId # 0
  /\ claim.state = "Submitted"
  /\ claim.auditor # sender
  /\ ~Elapsed(claim.submittedAt, ChallengeWindow)
  /\ value = RequiredChallengeBond
  /\ EligibleAuditor(claim.requestId, sender, registry, agentId)
  /\ claims' = [claims EXCEPT ![claimId] =
       [claim EXCEPT !.state = "Challenged",
                     !.challengedAt = now,
                     !.challengeBond = value,
                     !.challenger = sender]]
  /\ Accept(value)
  /\ UNCHANGED <<requests, claimIds, settlements, claimSettlements,
                 identityUsed, bondRefunds, protocolFees, resolutionFees,
                 nextRequestId, nextClaimId, identityOwner>>

\* An upheld challenge slashes the claim and pays its stake with the bond; a
\* rejected one pays the bond to the claimant, whose stake stays in escrow.
\* Both payouts are reduced by the resolution fee.
ResolveAuditRequestClaimChallenge(sender, claimId, upheld) ==
  LET claim == claims[claimId]
      gross == IF upheld THEN claim.stakeAmount + claim.challengeBond
                         ELSE claim.challengeBond
      fee == FeeOf(gross, ResolutionFeeBps)
  IN
  /\ sender = Arbiter
  /\ claim.requestId # 0
  /\ claim.state = "Challenged"
  /\ claims' = [claims EXCEPT ![claimId] =
       [claim EXCEPT
          !.state = IF upheld THEN "Slashed" ELSE "Resolved",
          !.resolution = IF upheld THEN "ChallengeUpheld"
                                   ELSE "ChallengeRejected"]]
  /\ resolutionFees' = resolutionFees + fee
  /\ SendValue(IF upheld THEN claim.challenger ELSE claim.auditor, gross - fee)
  /\ UNCHANGED <<requests, claimIds, settlements, claimSettlements,
                 identityUsed, bondRefunds, protocolFees, nextRequestId,
                 nextClaimId, identityOwner>>

\* The bond is sent at once instead of being credited.
MutatedExpireAuditRequestClaimChallenge(claimId) ==
  LET claim == claims[claimId] IN
  /\ claim.state = "Challenged"
  /\ Elapsed(claim.challengedAt, ChallengeResolutionWindow)
  /\ claims' = [claims EXCEPT ![claimId] =
       [claim EXCEPT !.state = "Submitted", !.challengedAt = 0,
                     !.challengeBond = 0, !.challenger = NoAddress]]
  /\ SendValue(claim.challenger, claim.challengeBond)
  /\ UNCHANGED <<requests, claimIds, settlements, claimSettlements,
                 identityUsed, bondRefunds, protocolFees, resolutionFees,
                 nextRequestId, nextClaimId, identityOwner>>

\* The state is not checked: a challenge that was upheld is unwound too.
MutatedExpireUpheldChallenge(claimId) ==
  LET claim == claims[claimId] IN
  /\ claim.challenger # NoAddress
  /\ Elapsed(claim.challengedAt, ChallengeResolutionWindow)
  /\ claims' = [claims EXCEPT ![claimId] =
       [claim EXCEPT !.state = "Submitted", !.challengedAt = 0,
                     !.challengeBond = 0, !.challenger = NoAddress]]
  /\ bondRefunds' = [bondRefunds EXCEPT ![claim.challenger] = @ + claim.challengeBond]
  /\ UNCHANGED <<balance, requests, claimIds, settlements, claimSettlements,
                 identityUsed, protocolFees, resolutionFees, nextRequestId,
                 nextClaimId, identityOwner>>

\* Anyone may unwind a challenge that the arbiter left open too long; the
\* bond becomes a balance that the challenger withdraws.
ExpireAuditRequestClaimChallenge(claimId) ==
  LET claim == claims[claimId] IN
  /\ claim.requestId # 0
  /\ claim.state = "Challenged"
  /\ Elapsed(claim.challengedAt, ChallengeResolutionWindow)
  /\ claims' = [claims EXCEPT ![claimId] =
       [claim EXCEPT !.state = "Submitted",
                     !.challengedAt = 0,
                     !.challengeBond = 0,
                     !.challenger = NoAddress]]
  /\ bondRefunds' = [bondRefunds EXCEPT
                       ![claim.challenger] = @ + claim.challengeBond]
  /\ UNCHANGED <<balance, requests, claimIds, settlements, claimSettlements,
                 identityUsed, protocolFees, resolutionFees, nextRequestId,
                 nextClaimId, identityOwner>>

WithdrawExpiredChallengeBond(sender) ==
  /\ bondRefunds[sender] # 0
  /\ bondRefunds' = [bondRefunds EXCEPT ![sender] = 0]
  /\ SendValue(sender, bondRefunds[sender])
  /\ UNCHANGED <<requests, claimIds, claims, settlements, claimSettlements,
                 identityUsed, protocolFees, resolutionFees, nextRequestId,
                 nextClaimId, identityOwner>>

ExpireAuditRequest(requestId) ==
  /\ requests[requestId].createdAt # 0
  /\ AuditRequestState(requestId) = "Closed"
  /\ requests[requestId].claimCount = 0
  /\ requests' = [requests EXCEPT ![requestId].state = "Expired"]
  /\ UNCHANGED <<balance, claimIds, claims, settlements, claimSettlements,
                 identityUsed, bondRefunds, protocolFees, resolutionFees,
                 nextRequestId, nextClaimId, identityOwner>>

RefundExpiredAuditRequest(sender, requestId) ==
  LET request == requests[requestId] IN
  /\ request.createdAt # 0
  /\ request.state = "Expired"
  /\ sender = request.requester
  /\ requests' = [requests EXCEPT ![requestId].state = "Settled"]
  /\ SendValue(request.requester, request.bountyAmount)
  /\ UNCHANGED <<claimIds, claims, settlements, claimSettlements, identityUsed,
                 bondRefunds, protocolFees, resolutionFees, nextRequestId,
                 nextClaimId, identityOwner>>

-----------------------------------------------------------------------------
(***************************************************************************)
(* Settlement.                                                             *)
(***************************************************************************)

\* How far a classification of at most maxClaims claims reaches.
TargetCursor(requestId, maxClaims) ==
  LET target == settlements[requestId].classifiedClaimCount + maxClaims IN
  IF target > Len(claimIds[requestId]) THEN Len(claimIds[requestId]) ELSE target

\* The claims of a request between two cursors.
ClaimsBetween(requestId, from, to) ==
  {claimIds[requestId][i] : i \in (from + 1)..to}

\* The total of the stakes of a set of claims.
StakeOf(claimSet) ==
  SumFunctionOnSet([c \in ClaimIds |-> claims[c].stakeAmount], claimSet)

\* Every claim of the batch is counted, the slashed ones too.
MutatedEligibleIn(claimSet) == claimSet

EligibleIn(claimSet) == {c \in claimSet : ClaimEligible(claims[c])}

\* One batch, all or nothing: a claim that is not ready reverts the whole of
\* it.
ClassifyAuditRequestClaims(requestId, maxClaims) ==
  LET cursor == settlements[requestId].classifiedClaimCount
      target == TargetCursor(requestId, maxClaims)
      batch == ClaimsBetween(requestId, cursor, target)
      eligible == EligibleIn(batch)
  IN
  /\ requests[requestId].createdAt # 0
  /\ AuditRequestState(requestId) = "Closed"
  /\ requests[requestId].claimCount # 0
  /\ maxClaims # 0
  /\ ~settlements[requestId].finalized
  /\ cursor < Len(claimIds[requestId])
  /\ \A c \in batch : ClaimReady(claims[c])
  /\ claimSettlements' = [c \in ClaimIds |->
       IF c \in batch
       THEN [claimSettlements[c] EXCEPT !.eligible = c \in eligible]
       ELSE claimSettlements[c]]
  /\ settlements' = [settlements EXCEPT
       ![requestId].classifiedClaimCount = target,
       ![requestId].eligibleClaimCount = @ + Cardinality(eligible),
       ![requestId].eligibleStakeTotal = @ + StakeOf(eligible)]
  /\ UNCHANGED <<balance, requests, claimIds, claims, identityUsed,
                 bondRefunds, protocolFees, resolutionFees, nextRequestId,
                 nextClaimId, identityOwner>>

\* The fee is charged on every bounty.
MutatedSettlementFee(requestId) ==
  FeeOf(requests[requestId].bountyAmount, ProtocolFeeBps)

\* The fee is charged on a bounty that is distributed, not on one that goes
\* back to the requester.
SettlementFee(requestId) ==
  IF settlements[requestId].eligibleStakeTotal > 0
  THEN FeeOf(requests[requestId].bountyAmount, ProtocolFeeBps)
  ELSE 0

FinalizeAuditRequestSettlement(requestId) ==
  LET settlement == settlements[requestId]
      fee == SettlementFee(requestId)
  IN
  /\ requests[requestId].createdAt # 0
  /\ AuditRequestState(requestId) = "Closed"
  /\ requests[requestId].claimCount # 0
  /\ ~settlement.finalized
  /\ settlement.classifiedClaimCount = requests[requestId].claimCount
  /\ settlements' = [settlements EXCEPT ![requestId] =
       [settlement EXCEPT
          !.finalized = TRUE,
          !.protocolFeeAmount = fee,
          !.distributableBountyAmount = requests[requestId].bountyAmount - fee]]
  /\ protocolFees' = protocolFees + fee
  /\ requests' = [requests EXCEPT ![requestId].state = "Settled"]
  /\ UNCHANGED <<balance, claimIds, claims, claimSettlements, identityUsed,
                 bondRefunds, resolutionFees, nextRequestId, nextClaimId,
                 identityOwner>>

\* The withdrawn share is taken off the amount that later shares are cut from.
MutatedAfterClaimWithdrawal(settlement, share) ==
  [settlement EXCEPT !.claimantWithdrawnCount = @ + 1,
                     !.distributableBountyAmount = @ - share]

AfterClaimWithdrawal(settlement, share) ==
  [settlement EXCEPT !.claimantWithdrawnCount = @ + 1,
                     !.cumulativeBountyWithdrawn = @ + share]

\* Anyone may call it; the stake and the share go to the claim's auditor.
WithdrawAuditRequestClaimSettlement(claimId) ==
  LET claim == claims[claimId]
      requestId == claim.requestId
      share == ClaimBountyShare(claim, settlements[requestId])
  IN
  /\ requestId # 0
  /\ settlements[requestId].finalized
  /\ claimSettlements[claimId].eligible
  /\ ~claimSettlements[claimId].withdrawn
  /\ claimSettlements' = [claimSettlements EXCEPT ![claimId].withdrawn = TRUE]
  /\ settlements' = [settlements EXCEPT ![requestId] =
                       AfterClaimWithdrawal(settlements[requestId], share)]
  /\ SendValue(claim.auditor, claim.stakeAmount + share)
  /\ UNCHANGED <<requests, claimIds, claims, identityUsed, bondRefunds,
                 protocolFees, resolutionFees, nextRequestId, nextClaimId,
                 identityOwner>>

\* The requester need not wait for the last claimant.
MutatedRefundReady(settlement) == settlement.finalized

\* The whole bounty when no claim is eligible, otherwise the dust, and then
\* only after the last claimant.
RefundReady(settlement) ==
  /\ settlement.finalized
  /\ \/ settlement.eligibleClaimCount = 0
     \/ settlement.claimantWithdrawnCount = settlement.eligibleClaimCount

WithdrawAuditRequestRefund(sender, requestId) ==
  LET request == requests[requestId]
      settlement == settlements[requestId]
  IN
  /\ request.createdAt # 0
  /\ sender = request.requester
  /\ RefundReady(settlement)
  /\ ~settlement.requesterRefundWithdrawn
  /\ settlements' = [settlements EXCEPT
                       ![requestId].requesterRefundWithdrawn = TRUE]
  /\ SendValue(request.requester,
               IF settlement.eligibleClaimCount = 0
               THEN request.bountyAmount
               ELSE settlement.distributableBountyAmount
                      - settlement.cumulativeBountyWithdrawn)
  /\ UNCHANGED <<requests, claimIds, claims, claimSettlements, identityUsed,
                 bondRefunds, protocolFees, resolutionFees, nextRequestId,
                 nextClaimId, identityOwner>>

\* Only one of the two accruals is cleared.
MutatedWithdrawFees(sender) ==
  /\ sender = Treasury
  /\ protocolFees' = 0
  /\ SendValue(Treasury, protocolFees + resolutionFees)
  /\ UNCHANGED <<requests, claimIds, claims, settlements, claimSettlements,
                 identityUsed, bondRefunds, resolutionFees, nextRequestId,
                 nextClaimId, identityOwner>>

WithdrawFees(sender) ==
  /\ sender = Treasury
  /\ protocolFees' = 0
  /\ resolutionFees' = 0
  /\ SendValue(Treasury, protocolFees + resolutionFees)
  /\ UNCHANGED <<requests, claimIds, claims, settlements, claimSettlements,
                 identityUsed, bondRefunds, nextRequestId, nextClaimId,
                 identityOwner>>

\* External: an agent identity is registered or sold.
TransferIdentity(identity, to) ==
  /\ identityOwner' = [identityOwner EXCEPT ![identity] = to]
  /\ UNCHANGED <<balance, requests, claimIds, claims, settlements,
                 claimSettlements, identityUsed, bondRefunds, protocolFees,
                 resolutionFees, nextRequestId, nextClaimId>>

RequestNext ==
  \/ \E sender \in Address, value \in MsgValues, bountyAmount \in Bounties,
        responseWindow \in ResponseWindows, eligibility \in Eligibilities :
       CreateAuditRequest(sender, value, bountyAmount, responseWindow, eligibility)
  \/ \E sender \in Address, value \in MsgValues, requestId \in RequestIds,
        registry \in Registry \cup {NoAddress}, agentId \in AgentId \cup {0} :
       SubmitAuditRequestClaim(sender, value, requestId, registry, agentId)
  \/ \E sender \in Address, value \in MsgValues, claimId \in ClaimIds,
        registry \in Registry \cup {NoAddress}, agentId \in AgentId \cup {0} :
       ChallengeAuditRequestClaim(sender, value, claimId, registry, agentId)
  \/ \E sender \in Address, claimId \in ClaimIds, upheld \in BOOLEAN :
       ResolveAuditRequestClaimChallenge(sender, claimId, upheld)
  \/ \E claimId \in ClaimIds : ExpireAuditRequestClaimChallenge(claimId)
  \/ \E sender \in Address : WithdrawExpiredChallengeBond(sender)
  \/ \E requestId \in RequestIds : ExpireAuditRequest(requestId)
  \/ \E sender \in Address, requestId \in RequestIds :
       RefundExpiredAuditRequest(sender, requestId)
  \/ \E requestId \in RequestIds, maxClaims \in BatchSizes :
       ClassifyAuditRequestClaims(requestId, maxClaims)
  \/ \E requestId \in RequestIds : FinalizeAuditRequestSettlement(requestId)
  \/ \E claimId \in ClaimIds : WithdrawAuditRequestClaimSettlement(claimId)
  \/ \E sender \in Address, requestId \in RequestIds :
       WithdrawAuditRequestRefund(sender, requestId)
  \/ \E sender \in Address : WithdrawFees(sender)
  \/ \E identity \in Transferable, to \in Address : TransferIdentity(identity, to)

-----------------------------------------------------------------------------
(***************************************************************************)
(* This flow alone, on a contract whose other flow is not used.            *)
(***************************************************************************)
RequestSystemVars == <<now, balance, requestVars>>

LetTimePass == AdvanceTime /\ UNCHANGED <<balance, requestVars>>

RequestSystemInit == ChainInit /\ RequestInit

RequestSystemNext ==
  \/ RequestNext /\ UNCHANGED now
  \/ LetTimePass

RequestSafetySpec ==
  RequestSystemInit /\ [][RequestSystemNext]_RequestSystemVars

\* Batches of one size or another.
ClassifySome(requestId) ==
  \E maxClaims \in BatchSizes : ClassifyAuditRequestClaims(requestId, maxClaims)

\* Time passes, and the calls that anyone may make are made by those who wait
\* for them.  Nothing is assumed of the arbiter or of the challengers.
RequestFairness ==
  /\ WF_RequestSystemVars(LetTimePass)
  /\ \A c \in ClaimIds :
       /\ WF_RequestSystemVars(ExpireAuditRequestClaimChallenge(c) /\ UNCHANGED now)
       /\ WF_RequestSystemVars(WithdrawAuditRequestClaimSettlement(c) /\ UNCHANGED now)
  /\ \A r \in RequestIds :
       /\ WF_RequestSystemVars(ExpireAuditRequest(r) /\ UNCHANGED now)
       /\ WF_RequestSystemVars(ClassifySome(r) /\ UNCHANGED now)
       /\ WF_RequestSystemVars(FinalizeAuditRequestSettlement(r) /\ UNCHANGED now)
  /\ \A r \in RequestIds, a \in Address :
       /\ WF_RequestSystemVars(RefundExpiredAuditRequest(a, r) /\ UNCHANGED now)
       /\ WF_RequestSystemVars(WithdrawAuditRequestRefund(a, r) /\ UNCHANGED now)

RequestSpec == RequestSafetySpec /\ RequestFairness

-----------------------------------------------------------------------------
(***************************************************************************)
(* What the contract owes on a claim, on a request, to the challengers     *)
(* whose bonds expired and to the treasury.                                *)
(***************************************************************************)
ClaimHeld(c) ==
  CASE claims[c].state = "Challenged" ->
         claims[c].stakeAmount + claims[c].challengeBond
    [] claims[c].state \in {"Submitted", "Resolved"}
         /\ ~claimSettlements[c].withdrawn -> claims[c].stakeAmount
    [] OTHER -> 0

RequestHeld(r) ==
  LET settlement == settlements[r] IN
  CASE requests[r].state \in {"Open", "Expired"} -> requests[r].bountyAmount
    [] settlement.finalized /\ ~settlement.requesterRefundWithdrawn ->
         settlement.distributableBountyAmount
           - settlement.cumulativeBountyWithdrawn
    [] OTHER -> 0

RequestEscrow ==
  SumFunctionOnSet([c \in ClaimIds |-> ClaimHeld(c)], ClaimIds)
    + SumFunctionOnSet([r \in RequestIds |-> RequestHeld(r)], RequestIds)
    + SumFunctionOnSet(bondRefunds, Address)
    + protocolFees + resolutionFees

ClaimsOf(r) == {c \in ClaimIds : claims[c].requestId = r}

\* The claims of a request that have been classified.
Classified(r) == ClaimsBetween(r, 0, settlements[r].classifiedClaimCount)

EligibleClaims(r) == {c \in ClaimsOf(r) : claimSettlements[c].eligible}

SharesOf(r, claimSet) ==
  SumFunctionOnSet([c \in ClaimIds |-> ClaimBountyShare(claims[c], settlements[r])],
                   claimSet)

\* The variables of the flow and of the chain hold values of their types; in
\* particular no cursor runs past the claims and no amount goes below zero.
RequestSystemTypeOK == ChainTypeOK /\ RequestTypeOK

\* The contract holds exactly what it owes: every stake, bond and bounty that
\* entered is still owed to somebody or has been paid out, once, through all
\* the resolutions, expiries, batches, shares and refunds.
RequestSolvency == balance = RequestEscrow

\* What a claim is at in the life that AuditLifecycle describes.
ClaimStage(claim) ==
  CASE claim.state = "Submitted" -> "Published"
    [] claim.state = "Slashed"   -> "Upheld"
    [] claim.state = "Resolved"  -> "Rejected"
    [] OTHER                     -> claim.state

ClaimStages == [c \in ClaimIds |-> ClaimStage(claims[c])]

RequestLifecycle ==
  INSTANCE AuditLifecycle
    WITH Audits <- {}, Claims <- ClaimIds, stage <- ClaimStages

\* The thirteen calls on requests implement the lifecycle of a claim: a call
\* moves at most one claim, only an expiry moves one back, and a verdict is
\* final whatever happens to the request afterwards.
ClaimsFollowLifecycle == RequestLifecycle!LifecycleSpec

\* Once classified, a claim can no longer be challenged, resolved or expired,
\* and its eligibility stays: the totals taken from it are never stale.
ClassifiedClaimsAreFinal ==
  [][\A r \in RequestIds : \A c \in Classified(r) :
       /\ claims'[c] = claims[c]
       /\ claimSettlements'[c].eligible = claimSettlements[c].eligible
    ]_RequestSystemVars

\* What classification accumulates batch by batch is what a single pass over
\* the claims would give, and nobody withdraws before the end.
TotalsMatchClaims ==
  \A r \in RequestIds :
    LET settlement == settlements[r]
        survivors == {c \in Classified(r) : claims[c].state # "Slashed"}
    IN
    /\ EligibleClaims(r) = survivors
    /\ settlement.eligibleClaimCount = Cardinality(survivors)
    /\ settlement.eligibleStakeTotal = StakeOf(survivors)
    /\ settlement.finalized => Classified(r) = ClaimsOf(r)
    /\ \A c \in ClaimsOf(r) : claimSettlements[c].withdrawn =>
         settlement.finalized /\ claimSettlements[c].eligible

\* The floors of the shares never add up to more than the distributable
\* bounty, and what was withdrawn is the shares of those who withdrew, in
\* whatever order they came.
SharesFit ==
  \A r \in RequestIds :
    settlements[r].finalized =>
      /\ SharesOf(r, EligibleClaims(r)) <= settlements[r].distributableBountyAmount
      /\ settlements[r].cumulativeBountyWithdrawn =
           SharesOf(r, {c \in ClaimsOf(r) : claimSettlements[c].withdrawn})

\* The requester's refund is the last withdrawal: it never takes a share that
\* a claimant has still to withdraw.
RefundIsLast ==
  \A r \in RequestIds :
    settlements[r].requesterRefundWithdrawn =>
      \A c \in EligibleClaims(r) : claimSettlements[c].withdrawn

\* However the claims of a settled request are withdrawn, its figures add up:
\* SharesFit and RefundIsLast.
SharesAreSettled == SharesFit /\ RefundIsLast

\* Finalization fixes the figures of a request: afterwards only withdrawals
\* are recorded, and each of them once.
FinalizedFiguresAreFixed ==
  [][\A r \in RequestIds :
       settlements[r].finalized =>
         /\ settlements'[r] =
              [settlements[r] EXCEPT
                 !.claimantWithdrawnCount = settlements'[r].claimantWithdrawnCount,
                 !.cumulativeBountyWithdrawn =
                    settlements'[r].cumulativeBountyWithdrawn,
                 !.requesterRefundWithdrawn =
                    @ \/ settlements'[r].requesterRefundWithdrawn]
         /\ \A c \in ClaimsOf(r) :
              claimSettlements[c].withdrawn => claimSettlements'[c].withdrawn
    ]_RequestSystemVars

\* A request has at most one claim per canonical agent identity, even when the
\* identity changes hands between two submissions.
OneClaimPerIdentity ==
  \A c, d \in ClaimIds :
    /\ c # d
    /\ claims[c].requestId # 0
    /\ claims[c].requestId = claims[d].requestId
    => <<claims[c].agentRegistry, claims[c].agentId>>
         # <<claims[d].agentRegistry, claims[d].agentId>>

\* Nothing closes early or late: a request leaves Open only after its window,
\* its claims and their challenges fall inside their windows, and a request
\* that expires or is settled without classification has no claim.
WindowsAreKept ==
  /\ \A r \in RequestIds :
       requests[r].state \in {"Expired", "Settled"} =>
         /\ now > requests[r].responseWindowEnd
         /\ ~settlements[r].finalized => ClaimsOf(r) = {}
  /\ \A c \in ClaimIds :
       LET claim == claims[c] IN
       claim.requestId # 0 =>
         /\ claim.submittedAt \in requests[claim.requestId].createdAt
                                  .. requests[claim.requestId].responseWindowEnd
         /\ claim.challenger # NoAddress =>
              claim.challengedAt \in
                claim.submittedAt .. (claim.submittedAt + ChallengeWindow)

\* Every request comes to an end, whatever its claimants, its challengers and
\* a silent arbiter do, and even if some of them refuse ether.
RequestsSettle ==
  \A r \in RequestIds :
    requests[r].state = "Open"
      ~> \/ requests[r].state \in {"Expired", "Settled"}

\* A claimant that accepts ether gets the stake and the share of every claim
\* that is not slashed.
ClaimantsArePaid ==
  \A c \in ClaimIds :
    claims[c].state = "Submitted" /\ claims[c].auditor \notin Refusers
      ~> claims[c].state = "Slashed" \/ claimSettlements[c].withdrawn

\* A requester that accepts ether gets back what is left of the bounty, unless
\* an eligible claimant refuses its payment: the dust waits for all of them.
RequestersAreRefunded ==
  \A r \in RequestIds :
    requests[r].state = "Open" /\ requests[r].requester \notin Refusers
      ~> \/ requests[r].state = "Settled" /\ ~settlements[r].finalized
         \/ settlements[r].requesterRefundWithdrawn
         \/ \E c \in EligibleClaims(r) : claims[c].auditor \in Refusers

\* A request ends, and everybody who accepts ether gets what is due:
\* RequestsSettle, ClaimantsArePaid and RequestersAreRefunded.
EverybodyIsPaid == RequestsSettle /\ ClaimantsArePaid /\ RequestersAreRefunded

\* An identity that a request requires has one owner, and only that owner may
\* challenge there: a claim of such a request is never challenged unless the
\* identity is one that can change hands.
RequiredIdentityIsUnchallenged ==
  \A c \in ClaimIds :
    claims[c].state = "Challenged" =>
      LET rules == requests[claims[c].requestId].eligibility IN
      \/ rules.identityRegistry = NoAddress \/ rules.requiredAgentId = 0
      \/ <<rules.identityRegistry, rules.requiredAgentId>> \in Transferable
=============================================================================
