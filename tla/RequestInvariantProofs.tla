------------------------ MODULE RequestInvariantProofs ------------------------
(***************************************************************************)
(* The inductive invariant of the marketplace flow, for every set of       *)
(* accounts, identities, rules, windows and amounts and every number of    *)
(* requests and claims: the shape of the records, which ids were given     *)
(* out, how the claim lists index the claims, what each stage of a request *)
(* implies, and how windows and identities are kept.                       *)
(*                                                                         *)
(* The facts about one call are stated for RequestNext, without the clock, *)
(* so that the proof of the whole contract can use them too.  What the     *)
(* amounts add up to is in RequestEscrowProofs.  The last part is the      *)
(* refinement: the marketplace flow implements the lifecycle of a claim.   *)
(***************************************************************************)
EXTENDS RequestSettlement, SumFacts, TLAPS

(***************************************************************************)
(* The shape is RequestTypeOK without the bounds that need an argument:    *)
(* that a counter of claims stays below MaxClaims and that no amount goes  *)
(* below zero follow from the parts of the invariant that count and sum.   *)
(***************************************************************************)
RequestShapeRecord ==
  [requester : AnyAddress, createdAt : Nat, responseWindowEnd : Nat,
   bountyAmount : Nat, claimCount : Nat, state : RequestState \ {"Closed"},
   eligibility : EligibilityConfig]

SettlementShape ==
  [classifiedClaimCount      : Nat,
   eligibleClaimCount        : Nat,
   claimantWithdrawnCount    : Nat,
   finalized                 : BOOLEAN,
   requesterRefundWithdrawn  : BOOLEAN,
   eligibleStakeTotal        : Nat,
   protocolFeeAmount         : Nat,
   distributableBountyAmount : Int,
   cumulativeBountyWithdrawn : Int]

RequestShape ==
  /\ requests \in [RequestIds -> RequestShapeRecord]
  /\ claimIds \in [RequestIds -> Seq(ClaimIds)]
  /\ claims \in [ClaimIds -> ClaimRecord]
  /\ settlements \in [RequestIds -> SettlementShape]
  /\ claimSettlements \in [ClaimIds -> [eligible : BOOLEAN, withdrawn : BOOLEAN]]
  /\ identityUsed \in [RequestIds -> SUBSET Identity]
  /\ bondRefunds \in [Address -> Nat]
  /\ protocolFees \in Nat
  /\ resolutionFees \in Nat
  /\ nextRequestId \in 0..MaxRequests
  /\ nextClaimId \in 0..MaxClaims
  /\ identityOwner \in [Identity -> AnyAddress]


LEMMA ConstantTypes ==
  /\ MsgValues \subseteq Nat /\ Bounties \subseteq Nat
  /\ ResponseWindows \subseteq Nat /\ BatchSizes \subseteq Nat
  /\ Eligibilities \subseteq EligibilityConfig
  /\ MaxRequests \in Nat /\ MaxClaims \in Nat
  /\ IsFiniteSet(Address) /\ IsFiniteSet(ClaimIds) /\ IsFiniteSet(RequestIds)
  /\ NoAddress \notin Address /\ Arbiter \in Address /\ Treasury \in Address
  /\ ChallengeWindow \in Nat /\ ChallengeResolutionWindow \in Nat
<1>1. IsFiniteSet(ClaimIds) /\ IsFiniteSet(RequestIds)
  BY RequestConstantsAssumption, FS_Interval DEF ClaimIds, RequestIds
<1> QED
  BY <1>1, AddressAssumption, ParameterAssumption, BoundAssumption,
     RequestConstantsAssumption

\* What each call leaves alone, of the records that the invariants speak of.
LEMMA CallFrames ==
  /\ \A sender, value, bountyAmount, responseWindow, eligibility :
       CreateAuditRequest(sender, value, bountyAmount, responseWindow, eligibility) =>
         UNCHANGED <<claimIds, claims, settlements, claimSettlements,
                     identityUsed, nextClaimId, identityOwner>>
  /\ \A sender, value, claimId, registry, agentId :
       ChallengeAuditRequestClaim(sender, value, claimId, registry, agentId) =>
         UNCHANGED <<requests, claimIds, settlements, claimSettlements,
                     nextRequestId, nextClaimId>>
  /\ \A sender, claimId, upheld :
       ResolveAuditRequestClaimChallenge(sender, claimId, upheld) =>
         UNCHANGED <<requests, claimIds, settlements, claimSettlements,
                     nextRequestId, nextClaimId>>
  /\ \A claimId :
       ExpireAuditRequestClaimChallenge(claimId) =>
         UNCHANGED <<requests, claimIds, settlements, claimSettlements,
                     nextRequestId, nextClaimId>>
  /\ \A sender :
       WithdrawExpiredChallengeBond(sender) =>
         UNCHANGED <<requests, claimIds, claims, settlements, claimSettlements,
                     identityUsed, nextRequestId, nextClaimId, identityOwner>>
  /\ \A requestId :
       ExpireAuditRequest(requestId) =>
         UNCHANGED <<claimIds, claims, settlements, claimSettlements,
                     identityUsed, nextClaimId, identityOwner>>
  /\ \A sender, requestId :
       RefundExpiredAuditRequest(sender, requestId) =>
         UNCHANGED <<claimIds, claims, settlements, claimSettlements,
                     identityUsed, nextClaimId, identityOwner>>
  /\ \A requestId, maxClaims :
       ClassifyAuditRequestClaims(requestId, maxClaims) =>
         UNCHANGED <<claimIds, claims, identityUsed, nextClaimId, identityOwner>>
  /\ \A requestId :
       FinalizeAuditRequestSettlement(requestId) =>
         UNCHANGED <<claimIds, claims, claimSettlements, identityUsed,
                     nextClaimId, identityOwner>>
  /\ \A claimId :
       WithdrawAuditRequestClaimSettlement(claimId) =>
         UNCHANGED <<claimIds, claims, identityUsed, nextClaimId, identityOwner>>
  /\ \A sender, requestId :
       WithdrawAuditRequestRefund(sender, requestId) =>
         UNCHANGED <<claimIds, claims, claimSettlements, identityUsed,
                     nextClaimId, identityOwner>>
  /\ \A sender :
       WithdrawFees(sender) =>
         UNCHANGED <<requests, claimIds, claims, settlements, claimSettlements,
                     identityUsed, nextRequestId, nextClaimId, identityOwner>>
  /\ \A identity, to :
       TransferIdentity(identity, to) =>
         UNCHANGED <<requests, claimIds, claims, settlements, claimSettlements,
                     identityUsed, nextRequestId, nextClaimId>>
<1>1. \A sender, value, bountyAmount, responseWindow, eligibility :
        CreateAuditRequest(sender, value, bountyAmount, responseWindow, eligibility) =>
          UNCHANGED <<claimIds, claims, settlements, claimSettlements,
                      identityUsed, nextClaimId, identityOwner>>
  BY DEF CreateAuditRequest
<1>2. \A sender, value, claimId, registry, agentId :
        ChallengeAuditRequestClaim(sender, value, claimId, registry, agentId) =>
          UNCHANGED <<requests, claimIds, settlements, claimSettlements,
                      nextRequestId, nextClaimId>>
  BY DEF ChallengeAuditRequestClaim
<1>3. \A sender, claimId, upheld :
        ResolveAuditRequestClaimChallenge(sender, claimId, upheld) =>
          UNCHANGED <<requests, claimIds, settlements, claimSettlements,
                      nextRequestId, nextClaimId>>
  BY DEF ResolveAuditRequestClaimChallenge
<1>4. \A claimId :
        ExpireAuditRequestClaimChallenge(claimId) =>
          UNCHANGED <<requests, claimIds, settlements, claimSettlements,
                      nextRequestId, nextClaimId>>
  BY DEF ExpireAuditRequestClaimChallenge
<1>5. \A sender :
        WithdrawExpiredChallengeBond(sender) =>
          UNCHANGED <<requests, claimIds, claims, settlements, claimSettlements,
                      identityUsed, nextRequestId, nextClaimId, identityOwner>>
  BY DEF WithdrawExpiredChallengeBond
<1>6. \A requestId :
        ExpireAuditRequest(requestId) =>
          UNCHANGED <<claimIds, claims, settlements, claimSettlements,
                      identityUsed, nextClaimId, identityOwner>>
  BY DEF ExpireAuditRequest
<1>7. \A sender, requestId :
        RefundExpiredAuditRequest(sender, requestId) =>
          UNCHANGED <<claimIds, claims, settlements, claimSettlements,
                      identityUsed, nextClaimId, identityOwner>>
  BY DEF RefundExpiredAuditRequest
<1>8. \A requestId, maxClaims :
        ClassifyAuditRequestClaims(requestId, maxClaims) =>
          UNCHANGED <<claimIds, claims, identityUsed, nextClaimId, identityOwner>>
  BY DEF ClassifyAuditRequestClaims
<1>9. \A requestId :
        FinalizeAuditRequestSettlement(requestId) =>
          UNCHANGED <<claimIds, claims, claimSettlements, identityUsed,
                      nextClaimId, identityOwner>>
  BY DEF FinalizeAuditRequestSettlement
<1>10. \A claimId :
        WithdrawAuditRequestClaimSettlement(claimId) =>
          UNCHANGED <<claimIds, claims, identityUsed, nextClaimId, identityOwner>>
  BY DEF WithdrawAuditRequestClaimSettlement
<1>11. \A sender, requestId :
        WithdrawAuditRequestRefund(sender, requestId) =>
          UNCHANGED <<claimIds, claims, claimSettlements, identityUsed,
                      nextClaimId, identityOwner>>
  BY DEF WithdrawAuditRequestRefund
<1>12. \A sender :
        WithdrawFees(sender) =>
          UNCHANGED <<requests, claimIds, claims, settlements, claimSettlements,
                      identityUsed, nextRequestId, nextClaimId, identityOwner>>
  BY DEF WithdrawFees
<1>13. \A identity, to :
        TransferIdentity(identity, to) =>
          UNCHANGED <<requests, claimIds, claims, settlements, claimSettlements,
                      identityUsed, nextRequestId, nextClaimId>>
  BY DEF TransferIdentity
<1> QED BY <1>1, <1>2, <1>3, <1>4, <1>5, <1>6, <1>7, <1>8, <1>9,
           <1>10, <1>11, <1>12, <1>13

\* A fee is a part of the amount that it is taken from.
LEMMA FeeIsPart ==
  ASSUME NEW amount \in Nat, NEW bps \in 0..FeeDenominator
  PROVE  FeeOf(amount, bps) \in 0..amount
<1>1. CASE bps = 0 \/ amount = 0
  BY <1>1 DEF FeeOf
<1>2. CASE ~(bps = 0 \/ amount = 0)
  <2>1. amount * bps \in Nat /\ amount * bps <= amount * 10000
    BY DEF FeeDenominator
  <2>2. \A x, y \in Nat : x <= y * 10000 => x \div 10000 \in 0..y
    OBVIOUS
  <2>3. (amount * bps) \div 10000 \in 0..amount
    BY <2>1, <2>2
  <2> QED BY <1>2, <2>3 DEF FeeOf, FeeDenominator
<1> QED BY <1>1, <1>2

\* A share of a natural bounty is an integer.
LEMMA ShareIsInt ==
  ASSUME NEW claim \in ClaimRecord, NEW settlement \in SettlementShape
  PROVE  ClaimBountyShare(claim, settlement) \in Int
<1>1. CASE settlement.eligibleStakeTotal = 0
  BY <1>1 DEF ClaimBountyShare
<1>2. CASE settlement.eligibleStakeTotal # 0
  <2>1. settlement.distributableBountyAmount * claim.stakeAmount \in Int
    BY DEF SettlementShape, ClaimRecord
  <2>2. settlement.eligibleStakeTotal \in Nat \ {0}
    BY <1>2 DEF SettlementShape
  <2>3. \A x \in Int, y \in Nat \ {0} : x \div y \in Int
    OBVIOUS
  <2> QED BY <1>2, <2>1, <2>2, <2>3 DEF ClaimBountyShare
<1> QED BY <1>1, <1>2

LEMMA StakeIsNat ==
  ASSUME RequestShape, NEW claimSet \in SUBSET ClaimIds
  PROVE  StakeOf(claimSet) \in Nat
<1>1. IsFiniteSet(claimSet)
  BY ConstantTypes, FS_Subset
<1>2. \A c \in claimSet : [d \in ClaimIds |-> claims[d].stakeAmount][c] \in Nat
  BY DEF RequestShape, ClaimRecord
<1> QED BY <1>1, <1>2, SumNat DEF StakeOf

\* What submitAuditRequestClaim records of a claim.
LEMMA NewClaimShape ==
  ASSUME now \in Nat, NEW sender \in Address, NEW value \in MsgValues,
         NEW requestId \in RequestIds, NEW registry \in Registry \cup {NoAddress},
         NEW agentId \in AgentId \cup {0}
  PROVE  [NoClaim EXCEPT !.requestId = requestId, !.auditor = sender,
                         !.agentRegistry = registry, !.agentId = agentId,
                         !.submittedAt = now, !.stakeAmount = value,
                         !.state = "Submitted"] \in ClaimRecord
<1> DEFINE claim == [NoClaim EXCEPT !.requestId = requestId, !.auditor = sender,
                                    !.agentRegistry = registry,
                                    !.agentId = agentId, !.submittedAt = now,
                                    !.stakeAmount = value,
                                    !.state = "Submitted"]
           named == [NoClaim EXCEPT !.requestId = requestId, !.auditor = sender,
                                    !.agentRegistry = registry,
                                    !.agentId = agentId]
<1>1. requestId \in 0..MaxRequests /\ value \in Nat /\ 0 \in 0..MaxRequests
  BY ConstantTypes DEF RequestIds
<1>2. sender \in AnyAddress /\ NoAddress \in AnyAddress
  BY DEF AnyAddress
<1>3. NoClaim \in ClaimRecord
  BY <1>1, <1>2 DEF NoClaim, ClaimRecord, ClaimState, ClaimResolution
<1>4. named \in ClaimRecord
  BY <1>1, <1>2, <1>3 DEF ClaimRecord
<1>5. claim = [named EXCEPT !.submittedAt = now, !.stakeAmount = value,
                            !.state = "Submitted"]
  OBVIOUS
<1> HIDE DEF named, claim
<1>6. claim \in ClaimRecord
  BY <1>1, <1>4, <1>5 DEF ClaimRecord, ClaimState
<1> QED BY <1>6 DEF claim

-----------------------------------------------------------------------------
(***************************************************************************)
(* One call keeps the shape.                                               *)
(***************************************************************************)
LEMMA RequestNextShape ==
  ASSUME ChainTypeOK, RequestShape, RequestNext, now' = now
  PROVE  RequestShape' /\ balance' \in Nat
<1>0. now \in Nat /\ balance \in Nat
  BY DEF ChainTypeOK, Time
<1>c. \A c \in ClaimIds : claims[c] \in ClaimRecord
  BY DEF RequestShape
<1>r. \A r \in RequestIds : /\ requests[r] \in RequestShapeRecord
                           /\ settlements[r] \in SettlementShape
  BY DEF RequestShape
<1>s. ASSUME NEW amount \in Int, NEW to, SendValue(to, amount)
      PROVE  balance' \in Nat
  BY <1>0, <1>s DEF SendValue
<1>1. ASSUME NEW sender \in Address, NEW value \in MsgValues,
             NEW bountyAmount \in Bounties,
             NEW responseWindow \in ResponseWindows,
             NEW eligibility \in Eligibilities,
             CreateAuditRequest(sender, value, bountyAmount, responseWindow,
                                eligibility)
      PROVE  RequestShape' /\ balance' \in Nat
  <2> DEFINE request ==
               [requester         |-> sender,
                createdAt         |-> now,
                responseWindowEnd |-> now + responseWindow,
                bountyAmount      |-> bountyAmount,
                claimCount        |-> 0,
                state             |-> "Open",
                eligibility       |->
                  IF eligibility.allowlistEnabled THEN eligibility
                  ELSE [eligibility EXCEPT !.allowlistedAuditors = {}]]
  <2>1. request.eligibility \in EligibilityConfig
    BY ConstantTypes DEF EligibilityConfig
  <2>2. request \in RequestShapeRecord
    BY <1>0, <2>1, ConstantTypes DEF RequestShapeRecord, RequestState, AnyAddress
  <2>3. requests' = [requests EXCEPT ![nextRequestId + 1] = request]
    BY <1>1 DEF CreateAuditRequest
  <2>4. nextRequestId' \in 0..MaxRequests
    BY <1>1, ConstantTypes DEF CreateAuditRequest, RequestShape
  <2> HIDE DEF request
  <2>5. requests' \in [RequestIds -> RequestShapeRecord]
    BY <2>2, <2>3 DEF RequestShape
  <2>6. balance' \in Nat
    BY <1>0, <1>1, ConstantTypes DEF CreateAuditRequest, Accept
  <2> QED BY <1>1, <2>4, <2>5, <2>6 DEF CreateAuditRequest, RequestShape
<1>2. ASSUME NEW sender \in Address, NEW value \in MsgValues,
             NEW requestId \in RequestIds,
             NEW registry \in Registry \cup {NoAddress},
             NEW agentId \in AgentId \cup {0},
             SubmitAuditRequestClaim(sender, value, requestId, registry, agentId)
      PROVE  RequestShape' /\ balance' \in Nat
  <2> DEFINE claim == [NoClaim EXCEPT !.requestId = requestId,
                                      !.auditor = sender,
                                      !.agentRegistry = registry,
                                      !.agentId = agentId, !.submittedAt = now,
                                      !.stakeAmount = value,
                                      !.state = "Submitted"]
             request == [requests[requestId] EXCEPT !.claimCount = @ + 1]
  <2>1. claim \in ClaimRecord
    BY <1>0, NewClaimShape
  <2>2. request \in RequestShapeRecord
    BY <1>r DEF RequestShapeRecord
  <2>3. nextClaimId + 1 \in ClaimIds /\ nextClaimId + 1 \in 0..MaxClaims
    BY <1>2, ConstantTypes DEF SubmitAuditRequestClaim, RequestShape, ClaimIds
  <2>4. claims' = [claims EXCEPT ![nextClaimId + 1] = claim]
    BY <1>2 DEF SubmitAuditRequestClaim
  <2>5. requests' = [requests EXCEPT ![requestId] = request]
    BY <1>2 DEF SubmitAuditRequestClaim
  <2>6. claimIds' \in [RequestIds -> Seq(ClaimIds)]
    BY <1>2, <2>3 DEF SubmitAuditRequestClaim, RequestShape
  <2>7. <<registry, agentId>> \in Identity
    BY <1>2 DEF SubmitAuditRequestClaim, EligibleAuditor, Identity
  <2>8. identityUsed' \in [RequestIds -> SUBSET Identity]
    BY <1>2, <2>7 DEF SubmitAuditRequestClaim, Use, RequestShape
  <2>9. nextClaimId' \in 0..MaxClaims /\ balance' \in Nat
    BY <1>0, <1>2, <2>3, ConstantTypes DEF SubmitAuditRequestClaim, Accept
  <2> HIDE DEF claim, request
  <2>10. claims' \in [ClaimIds -> ClaimRecord]
    BY <2>1, <2>4 DEF RequestShape
  <2>11. requests' \in [RequestIds -> RequestShapeRecord]
    BY <2>2, <2>5 DEF RequestShape
  <2> QED
    BY <1>2, <2>6, <2>8, <2>9, <2>10, <2>11
    DEF SubmitAuditRequestClaim, RequestShape
<1>3. ASSUME NEW sender \in Address, NEW value \in MsgValues,
             NEW claimId \in ClaimIds, NEW registry, NEW agentId,
             ChallengeAuditRequestClaim(sender, value, claimId, registry, agentId)
      PROVE  RequestShape' /\ balance' \in Nat
  <2> DEFINE claim == [claims[claimId] EXCEPT !.state = "Challenged",
                                              !.challengedAt = now,
                                              !.challengeBond = value,
                                              !.challenger = sender]
  <2>1. claim \in ClaimRecord
    BY <1>0, <1>c, ConstantTypes DEF ClaimRecord, ClaimState, AnyAddress
  <2>2. claims' = [claims EXCEPT ![claimId] = claim] /\ balance' \in Nat
    BY <1>0, <1>3, ConstantTypes DEF ChallengeAuditRequestClaim, Accept
  <2> HIDE DEF claim
  <2> QED BY <1>3, <2>1, <2>2 DEF ChallengeAuditRequestClaim, RequestShape
<1>4. ASSUME NEW sender \in Address, NEW claimId \in ClaimIds,
             NEW upheld \in BOOLEAN,
             ResolveAuditRequestClaimChallenge(sender, claimId, upheld)
      PROVE  RequestShape' /\ balance' \in Nat
  <2> DEFINE claim == [claims[claimId] EXCEPT
                         !.state = IF upheld THEN "Slashed" ELSE "Resolved",
                         !.resolution = IF upheld THEN "ChallengeUpheld"
                                                  ELSE "ChallengeRejected"]
             gross == IF upheld
                      THEN claims[claimId].stakeAmount + claims[claimId].challengeBond
                      ELSE claims[claimId].challengeBond
             fee == FeeOf(gross, ResolutionFeeBps)
  <2>1. claim \in ClaimRecord
    BY <1>c DEF ClaimRecord, ClaimState, ClaimResolution
  <2>2. claims' = [claims EXCEPT ![claimId] = claim]
    BY <1>4 DEF ResolveAuditRequestClaimChallenge
  <2>3. gross \in Nat
    BY DEF RequestShape, ClaimRecord
  <2>4. fee \in 0..gross
    <3> HIDE DEF gross
    <3> QED BY <2>3, FeeIsPart, ParameterAssumption
  <2>5. resolutionFees' = resolutionFees + fee
    BY <1>4 DEF ResolveAuditRequestClaimChallenge
  <2>6. \E to : SendValue(to, gross - fee)
    BY <1>4 DEF ResolveAuditRequestClaimChallenge
  <2> HIDE DEF claim, gross, fee
  <2>7. balance' \in Nat
    BY <1>s, <2>3, <2>4, <2>6
  <2>8. resolutionFees' \in Nat
    BY <2>3, <2>4, <2>5 DEF RequestShape
  <2> QED
    BY <1>4, <2>1, <2>2, <2>7, <2>8
    DEF ResolveAuditRequestClaimChallenge, RequestShape
<1>5. ASSUME NEW claimId \in ClaimIds, ExpireAuditRequestClaimChallenge(claimId)
      PROVE  RequestShape' /\ balance' \in Nat
  <2> DEFINE claim == [claims[claimId] EXCEPT !.state = "Submitted",
                                              !.challengedAt = 0,
                                              !.challengeBond = 0,
                                              !.challenger = NoAddress]
  <2>1. claim \in ClaimRecord
    BY <1>c DEF ClaimRecord, ClaimState, AnyAddress
  <2>2. claims' = [claims EXCEPT ![claimId] = claim]
    BY <1>5 DEF ExpireAuditRequestClaimChallenge
  <2>3. claims[claimId].challengeBond \in Nat
    BY DEF RequestShape, ClaimRecord
  <2> DEFINE challenger == claims[claimId].challenger
             bond == claims[claimId].challengeBond
  <2>4. bondRefunds' \in [Address -> Nat]
    <3>1. bondRefunds' = [bondRefunds EXCEPT ![challenger] = @ + bond]
      BY <1>5 DEF ExpireAuditRequestClaimChallenge
    <3> HIDE DEF challenger, bond
    <3>2. bond \in Nat
      BY <2>3 DEF bond
    <3>3. bondRefunds \in [Address -> Nat]
      BY DEF RequestShape
    <3>4. CASE challenger \in Address
      BY <3>1, <3>2, <3>3, <3>4
    <3>5. CASE challenger \notin Address
      BY <3>1, <3>3, <3>5
    <3> QED BY <3>4, <3>5
  <2> HIDE DEF claim
  <2> QED
    BY <1>0, <1>5, <2>1, <2>2, <2>4
    DEF ExpireAuditRequestClaimChallenge, RequestShape
<1>6. ASSUME NEW sender \in Address, WithdrawExpiredChallengeBond(sender)
      PROVE  RequestShape' /\ balance' \in Nat
  <2>1. bondRefunds' \in [Address -> Nat] /\ bondRefunds[sender] \in Nat
    BY <1>6 DEF WithdrawExpiredChallengeBond, RequestShape
  <2>2. balance' \in Nat
    BY <1>s, <1>6, <2>1 DEF WithdrawExpiredChallengeBond
  <2> QED BY <1>6, <2>1, <2>2 DEF WithdrawExpiredChallengeBond, RequestShape
<1>7. ASSUME NEW requestId \in RequestIds, ExpireAuditRequest(requestId)
      PROVE  RequestShape' /\ balance' \in Nat
  <2>1. requests' \in [RequestIds -> RequestShapeRecord]
    <3>1. [requests[requestId] EXCEPT !.state = "Expired"] \in RequestShapeRecord
      BY <1>r DEF RequestShapeRecord, RequestState
    <3> QED BY <1>7, <3>1 DEF ExpireAuditRequest, RequestShape
  <2> QED BY <1>0, <1>7, <2>1 DEF ExpireAuditRequest, RequestShape
<1>8. ASSUME NEW sender \in Address, NEW requestId \in RequestIds,
             RefundExpiredAuditRequest(sender, requestId)
      PROVE  RequestShape' /\ balance' \in Nat
  <2>1. requests' \in [RequestIds -> RequestShapeRecord]
    <3>1. [requests[requestId] EXCEPT !.state = "Settled"] \in RequestShapeRecord
      BY <1>r DEF RequestShapeRecord, RequestState
    <3> QED BY <1>8, <3>1 DEF RefundExpiredAuditRequest, RequestShape
  <2>2. requests[requestId].bountyAmount \in Int
    BY DEF RequestShape, RequestShapeRecord
  <2>3. balance' \in Nat
    BY <1>s, <1>8, <2>2 DEF RefundExpiredAuditRequest
  <2> QED BY <1>8, <2>1, <2>3 DEF RefundExpiredAuditRequest, RequestShape
<1>9. ASSUME NEW requestId \in RequestIds, NEW maxClaims \in BatchSizes,
             ClassifyAuditRequestClaims(requestId, maxClaims)
      PROVE  RequestShape' /\ balance' \in Nat
  <2> DEFINE target == TargetCursor(requestId, maxClaims)
             batch == ClaimsBetween(requestId,
                        settlements[requestId].classifiedClaimCount, target)
             eligible == EligibleIn(batch)
             settlement == [settlements[requestId] EXCEPT
                              !.classifiedClaimCount = target,
                              !.eligibleClaimCount = @ + Cardinality(eligible),
                              !.eligibleStakeTotal = @ + StakeOf(eligible)]
  <2>1. target \in Nat /\ target <= Len(claimIds[requestId])
    BY <1>r, ConstantTypes DEF TargetCursor, RequestShape, SettlementShape
  <2>2. eligible \in SUBSET ClaimIds
    <3>1. settlements[requestId].classifiedClaimCount \in Nat
      BY DEF RequestShape, SettlementShape
    <3> QED BY <2>1, <3>1 DEF EligibleIn, ClaimsBetween, RequestShape
  <2>3. Cardinality(eligible) \in Nat /\ StakeOf(eligible) \in Nat
    BY <2>2, ConstantTypes, StakeIsNat, FS_Subset, FS_CardinalityType
  <2>4. settlements' = [settlements EXCEPT ![requestId] = settlement]
    BY <1>9 DEF ClassifyAuditRequestClaims, RequestShape
  <2>5. claimSettlements' \in [ClaimIds -> [eligible : BOOLEAN, withdrawn : BOOLEAN]]
    <3>1. claimSettlements' = [c \in ClaimIds |->
            IF c \in batch
            THEN [claimSettlements[c] EXCEPT !.eligible = c \in eligible]
            ELSE claimSettlements[c]]
      BY <1>9 DEF ClassifyAuditRequestClaims
    <3>2. \A c \in ClaimIds :
            claimSettlements[c] \in [eligible : BOOLEAN, withdrawn : BOOLEAN]
      BY DEF RequestShape
    <3> HIDE DEF eligible, batch
    <3>3. \A c \in ClaimIds : (c \in eligible) \in BOOLEAN
      OBVIOUS
    <3> QED BY <3>1, <3>2, <3>3
  <2> HIDE DEF target, eligible
  <2>6. settlement \in SettlementShape
    <3>1. settlements[requestId] \in SettlementShape
      BY <1>r
    <3>2. /\ settlements[requestId].eligibleClaimCount + Cardinality(eligible) \in Nat
          /\ settlements[requestId].eligibleStakeTotal + StakeOf(eligible) \in Nat
      BY <2>3, <3>1 DEF SettlementShape
    <3> QED BY <2>1, <3>1, <3>2 DEF SettlementShape
  <2> HIDE DEF settlement
  <2>7. settlements' \in [RequestIds -> SettlementShape]
    BY <2>4, <2>6 DEF RequestShape
  <2> QED
    BY <1>0, <1>9, <2>5, <2>7 DEF ClassifyAuditRequestClaims, RequestShape
<1>10. ASSUME NEW requestId \in RequestIds,
              FinalizeAuditRequestSettlement(requestId)
       PROVE  RequestShape' /\ balance' \in Nat
  <2> DEFINE fee == SettlementFee(requestId)
             settlement == [settlements[requestId] EXCEPT
                              !.finalized = TRUE,
                              !.protocolFeeAmount = fee,
                              !.distributableBountyAmount =
                                 requests[requestId].bountyAmount - fee]
  <2>1. requests[requestId].bountyAmount \in Nat
    BY DEF RequestShape, RequestShapeRecord
  <2>2. fee \in Nat
    BY <2>1, FeeIsPart, ParameterAssumption DEF SettlementFee
  <2>3. settlements' = [settlements EXCEPT ![requestId] = settlement]
    BY <1>10 DEF FinalizeAuditRequestSettlement
  <2>4. protocolFees' \in Nat
    BY <1>10, <2>2 DEF FinalizeAuditRequestSettlement, RequestShape
  <2>5. requests' \in [RequestIds -> RequestShapeRecord]
    <3> DEFINE request == [requests[requestId] EXCEPT !.state = "Settled"]
    <3>1. request \in RequestShapeRecord
      BY <1>r DEF RequestShapeRecord, RequestState
    <3>2. requests' = [requests EXCEPT ![requestId] = request]
      BY <1>10 DEF FinalizeAuditRequestSettlement
    <3> HIDE DEF request
    <3> QED BY <3>1, <3>2 DEF RequestShape
  <2> HIDE DEF fee
  <2>6. settlement \in SettlementShape
    <3>1. settlements[requestId] \in SettlementShape
      BY <1>r
    <3>2. requests[requestId].bountyAmount - fee \in Int
      BY <2>1, <2>2
    <3> QED BY <2>2, <3>1, <3>2 DEF SettlementShape
  <2> HIDE DEF settlement
  <2>7. settlements' \in [RequestIds -> SettlementShape]
    BY <2>3, <2>6 DEF RequestShape
  <2> QED
    BY <1>0, <1>10, <2>4, <2>5, <2>7
    DEF FinalizeAuditRequestSettlement, RequestShape
<1>11. ASSUME NEW claimId \in ClaimIds,
              WithdrawAuditRequestClaimSettlement(claimId)
       PROVE  RequestShape' /\ balance' \in Nat
  <2> DEFINE requestId == claims[claimId].requestId
             share == ClaimBountyShare(claims[claimId], settlements[requestId])
             settlement == AfterClaimWithdrawal(settlements[requestId], share)
  <2>1. requestId \in RequestIds
    BY <1>11 DEF WithdrawAuditRequestClaimSettlement, RequestShape, ClaimRecord,
                 RequestIds
  <2>2. share \in Int
    BY <2>1, ShareIsInt DEF RequestShape
  <2>3. claims[claimId].stakeAmount \in Nat
    BY DEF RequestShape, ClaimRecord
  <2>4. settlements' = [settlements EXCEPT ![requestId] = settlement]
    BY <1>11 DEF WithdrawAuditRequestClaimSettlement
  <2>5. SendValue(claims[claimId].auditor, claims[claimId].stakeAmount + share)
    BY <1>11 DEF WithdrawAuditRequestClaimSettlement
  <2>6. claimSettlements' \in [ClaimIds -> [eligible : BOOLEAN, withdrawn : BOOLEAN]]
    BY <1>11 DEF WithdrawAuditRequestClaimSettlement, RequestShape
  <2> HIDE DEF share, requestId
  <2>7. settlement \in SettlementShape
    <3>1. settlements[requestId] \in SettlementShape
      BY <1>r, <2>1
    <3>2. /\ settlements[requestId].claimantWithdrawnCount + 1 \in Nat
          /\ settlements[requestId].cumulativeBountyWithdrawn + share \in Int
      BY <2>2, <3>1 DEF SettlementShape
    <3> QED BY <3>1, <3>2 DEF AfterClaimWithdrawal, SettlementShape
  <2>8. balance' \in Nat
    BY <1>s, <2>2, <2>3, <2>5
  <2> HIDE DEF settlement
  <2>9. settlements' \in [RequestIds -> SettlementShape]
    BY <2>4, <2>7 DEF RequestShape
  <2> QED
    BY <1>11, <2>6, <2>8, <2>9
    DEF WithdrawAuditRequestClaimSettlement, RequestShape
<1>12. ASSUME NEW sender \in Address, NEW requestId \in RequestIds,
              WithdrawAuditRequestRefund(sender, requestId)
       PROVE  RequestShape' /\ balance' \in Nat
  <2>1. settlements' \in [RequestIds -> SettlementShape]
    <3>1. [settlements[requestId] EXCEPT !.requesterRefundWithdrawn = TRUE]
            \in SettlementShape
      BY <1>r DEF SettlementShape
    <3> QED BY <1>12, <3>1 DEF WithdrawAuditRequestRefund, RequestShape
  <2> DEFINE amount == IF settlements[requestId].eligibleClaimCount = 0
                       THEN requests[requestId].bountyAmount
                       ELSE settlements[requestId].distributableBountyAmount
                              - settlements[requestId].cumulativeBountyWithdrawn
  <2>2. amount \in Int
    BY DEF RequestShape, RequestShapeRecord, SettlementShape
  <2>3. SendValue(requests[requestId].requester, amount)
    BY <1>12 DEF WithdrawAuditRequestRefund
  <2> HIDE DEF amount
  <2>4. balance' \in Nat
    BY <1>s, <2>2, <2>3
  <2> QED BY <1>12, <2>1, <2>4 DEF WithdrawAuditRequestRefund, RequestShape
<1>13. ASSUME NEW sender \in Address, WithdrawFees(sender)
       PROVE  RequestShape' /\ balance' \in Nat
  <2>1. balance' \in Nat
    BY <1>s, <1>13 DEF WithdrawFees, RequestShape
  <2> QED BY <1>13, <2>1 DEF WithdrawFees, RequestShape
<1>14. ASSUME NEW identity \in Transferable, NEW to \in Address,
              TransferIdentity(identity, to)
       PROVE  RequestShape' /\ balance' \in Nat
  BY <1>0, <1>14 DEF TransferIdentity, RequestShape, AnyAddress
<1> QED
  BY <1>1, <1>2, <1>3, <1>4, <1>5, <1>6, <1>7, <1>8, <1>9, <1>10, <1>11, <1>12,
     <1>13, <1>14 DEF RequestNext

-----------------------------------------------------------------------------
(***************************************************************************)
(* What was given out.  An id below the counter is a record of a call, one *)
(* above it is blank, so that createAuditRequest and                       *)
(* submitAuditRequestClaim overwrite nothing.                              *)
(***************************************************************************)
RequestsGivenOut ==
  \A r \in RequestIds :
    /\ r > nextRequestId =>
         requests[r] = NoRequest /\ settlements[r] = NoSettlement
    /\ r <= nextRequestId =>
         requests[r].createdAt \in 1..now /\ requests[r].state # "None"

ClaimsGivenOut ==
  \A c \in ClaimIds :
    /\ c > nextClaimId =>
         /\ claims[c] = NoClaim
         /\ claimSettlements[c] = [eligible |-> FALSE, withdrawn |-> FALSE]
    /\ c <= nextClaimId =>
         claims[c].requestId \in 1..nextRequestId /\ claims[c].state # "None"

\* The terms of a request that no call changes.
SameTerms(new, old) ==
  /\ new.requester = old.requester
  /\ new.createdAt = old.createdAt
  /\ new.responseWindowEnd = old.responseWindowEnd
  /\ new.bountyAmount = old.bountyAmount
  /\ new.eligibility = old.eligibility

\* The parts of a claim that no call changes.
SameClaim(new, old) ==
  /\ new.requestId = old.requestId
  /\ new.auditor = old.auditor
  /\ new.agentRegistry = old.agentRegistry
  /\ new.agentId = old.agentId
  /\ new.submittedAt = old.submittedAt
  /\ new.stakeAmount = old.stakeAmount

\* Requests keep their terms once they are given out.
LEMMA RequestNextRequests ==
  ASSUME ChainTypeOK, RequestShape, RequestsGivenOut, RequestNext, now' = now
  PROVE  /\ RequestsGivenOut'
         /\ nextRequestId <= nextRequestId'
         /\ \A r \in RequestIds : r <= nextRequestId =>
              SameTerms(requests'[r], requests[r])
<1> DEFINE Goal == /\ RequestsGivenOut'
                   /\ nextRequestId <= nextRequestId'
                   /\ \A r \in RequestIds : r <= nextRequestId =>
                        SameTerms(requests'[r], requests[r])
<1>0. /\ now \in Nat \ {0} /\ nextRequestId \in Nat
      /\ \A r \in RequestIds : r \in Nat
  BY ConstantTypes DEF ChainTypeOK, Time, RequestShape, RequestIds
<1>r. \A r \in RequestIds : /\ requests[r] \in RequestShapeRecord
                           /\ settlements[r] \in SettlementShape
  BY DEF RequestShape
<1>g. ASSUME NEW r \in RequestIds, requests[r].createdAt # 0
      PROVE  r <= nextRequestId
  BY <1>0, <1>g DEF RequestsGivenOut, NoRequest
\* A call that touches the records of one request given out.
<1>a. ASSUME NEW r \in RequestIds, r <= nextRequestId,
             nextRequestId' = nextRequestId,
             SameTerms(requests'[r], requests[r]), requests'[r].state # "None",
             \A q \in RequestIds \ {r} : /\ requests'[q] = requests[q]
                                         /\ settlements'[q] = settlements[q]
      PROVE  Goal
  <2>1. ASSUME NEW q \in RequestIds
        PROVE  /\ q > nextRequestId' =>
                    requests'[q] = NoRequest /\ settlements'[q] = NoSettlement
               /\ q <= nextRequestId' =>
                    requests'[q].createdAt \in 1..now /\ requests'[q].state # "None"
               /\ SameTerms(requests'[q], requests[q])
    BY <1>0, <1>a DEF RequestsGivenOut, SameTerms
  <2> QED BY <1>0, <1>a, <2>1 DEF RequestsGivenOut
<1>1. ASSUME NEW sender \in Address, NEW value \in MsgValues,
             NEW bountyAmount \in Bounties,
             NEW responseWindow \in ResponseWindows,
             NEW eligibility \in Eligibilities,
             CreateAuditRequest(sender, value, bountyAmount, responseWindow,
                                eligibility)
      PROVE  Goal
  <2> DEFINE n == nextRequestId + 1
  <2>1. /\ nextRequestId' = n /\ settlements' = settlements
        /\ \A r \in RequestIds \ {n} : requests'[r] = requests[r]
        /\ n \in RequestIds => /\ requests'[n].createdAt = now
                               /\ requests'[n].state = "Open"
    BY <1>1 DEF CreateAuditRequest, RequestShape
  <2>2. ASSUME NEW r \in RequestIds
        PROVE  /\ r > nextRequestId' =>
                    requests'[r] = NoRequest /\ settlements'[r] = NoSettlement
               /\ r <= nextRequestId' =>
                    requests'[r].createdAt \in 1..now /\ requests'[r].state # "None"
               /\ r <= nextRequestId => SameTerms(requests'[r], requests[r])
    BY <1>0, <2>1 DEF RequestsGivenOut, SameTerms
  <2> QED BY <1>0, <2>1, <2>2 DEF RequestsGivenOut
<1>2. ASSUME NEW sender \in Address, NEW value \in MsgValues,
             NEW requestId \in RequestIds,
             NEW registry \in Registry \cup {NoAddress},
             NEW agentId \in AgentId \cup {0},
             SubmitAuditRequestClaim(sender, value, requestId, registry, agentId)
      PROVE  Goal
  <2>1. /\ nextRequestId' = nextRequestId /\ settlements' = settlements
        /\ requests[requestId].createdAt # 0
        /\ requests' = [requests EXCEPT ![requestId].claimCount = @ + 1]
    BY <1>2 DEF SubmitAuditRequestClaim
  <2>2. requestId <= nextRequestId
    BY <1>g, <2>1
  <2>3. /\ SameTerms(requests'[requestId], requests[requestId])
        /\ requests'[requestId].state = requests[requestId].state
        /\ \A q \in RequestIds \ {requestId} : requests'[q] = requests[q]
    BY <1>r, <2>1 DEF RequestShape, RequestShapeRecord, SameTerms
  <2> QED BY <1>a, <2>1, <2>2, <2>3 DEF RequestsGivenOut
<1>3. ASSUME NEW requestId \in RequestIds, ExpireAuditRequest(requestId)
      PROVE  Goal
  <2>1. /\ nextRequestId' = nextRequestId /\ settlements' = settlements
        /\ requests[requestId].createdAt # 0
        /\ requests' = [requests EXCEPT ![requestId].state = "Expired"]
    BY <1>3 DEF ExpireAuditRequest
  <2>2. requestId <= nextRequestId
    BY <1>g, <2>1
  <2>3. /\ SameTerms(requests'[requestId], requests[requestId])
        /\ requests'[requestId].state = "Expired"
        /\ \A q \in RequestIds \ {requestId} : requests'[q] = requests[q]
    BY <1>r, <2>1 DEF RequestShape, RequestShapeRecord, SameTerms
  <2> QED BY <1>a, <2>1, <2>2, <2>3
<1>4. ASSUME NEW sender \in Address, NEW requestId \in RequestIds,
             RefundExpiredAuditRequest(sender, requestId)
      PROVE  Goal
  <2>1. /\ nextRequestId' = nextRequestId /\ settlements' = settlements
        /\ requests[requestId].createdAt # 0
        /\ requests' = [requests EXCEPT ![requestId].state = "Settled"]
    BY <1>4 DEF RefundExpiredAuditRequest
  <2>2. requestId <= nextRequestId
    BY <1>g, <2>1
  <2>3. /\ SameTerms(requests'[requestId], requests[requestId])
        /\ requests'[requestId].state = "Settled"
        /\ \A q \in RequestIds \ {requestId} : requests'[q] = requests[q]
    BY <1>r, <2>1 DEF RequestShape, RequestShapeRecord, SameTerms
  <2> QED BY <1>a, <2>1, <2>2, <2>3
<1>5. ASSUME NEW requestId \in RequestIds, NEW maxClaims \in BatchSizes,
             ClassifyAuditRequestClaims(requestId, maxClaims)
      PROVE  Goal
  <2>1. /\ nextRequestId' = nextRequestId /\ requests' = requests
        /\ requests[requestId].createdAt # 0
        /\ \A q \in RequestIds \ {requestId} : settlements'[q] = settlements[q]
    BY <1>5 DEF ClassifyAuditRequestClaims, RequestShape
  <2>2. requestId <= nextRequestId
    BY <1>g, <2>1
  <2> QED BY <1>a, <2>1, <2>2 DEF SameTerms, RequestsGivenOut
<1>6. ASSUME NEW requestId \in RequestIds, FinalizeAuditRequestSettlement(requestId)
      PROVE  Goal
  <2>1. /\ nextRequestId' = nextRequestId
        /\ requests[requestId].createdAt # 0
        /\ requests' = [requests EXCEPT ![requestId].state = "Settled"]
        /\ \A q \in RequestIds \ {requestId} : settlements'[q] = settlements[q]
    BY <1>6 DEF FinalizeAuditRequestSettlement, RequestShape
  <2>2. requestId <= nextRequestId
    BY <1>g, <2>1
  <2>3. /\ SameTerms(requests'[requestId], requests[requestId])
        /\ requests'[requestId].state = "Settled"
        /\ \A q \in RequestIds \ {requestId} : requests'[q] = requests[q]
    BY <1>r, <2>1 DEF RequestShape, RequestShapeRecord, SameTerms
  <2> QED BY <1>a, <2>1, <2>2, <2>3
<1>7. ASSUME NEW claimId \in ClaimIds, WithdrawAuditRequestClaimSettlement(claimId)
      PROVE  Goal
  <2> DEFINE requestId == claims[claimId].requestId
  <2>1. requestId \in RequestIds
    BY <1>7 DEF WithdrawAuditRequestClaimSettlement, RequestShape, ClaimRecord,
                RequestIds
  <2>2. /\ nextRequestId' = nextRequestId /\ requests' = requests
        /\ settlements[requestId].finalized
        /\ \A q \in RequestIds \ {requestId} : settlements'[q] = settlements[q]
    BY <1>7 DEF WithdrawAuditRequestClaimSettlement, RequestShape
  <2> HIDE DEF requestId
  <2>3. requestId <= nextRequestId
    BY <1>0, <2>1, <2>2 DEF RequestsGivenOut, NoSettlement
  <2> QED BY <1>a, <2>1, <2>2, <2>3 DEF SameTerms, RequestsGivenOut
<1>8. ASSUME NEW sender \in Address, NEW requestId \in RequestIds,
             WithdrawAuditRequestRefund(sender, requestId)
      PROVE  Goal
  <2>1. /\ nextRequestId' = nextRequestId /\ requests' = requests
        /\ requests[requestId].createdAt # 0
        /\ \A q \in RequestIds \ {requestId} : settlements'[q] = settlements[q]
    BY <1>8 DEF WithdrawAuditRequestRefund, RequestShape
  <2>2. requestId <= nextRequestId
    BY <1>g, <2>1
  <2> QED BY <1>a, <2>1, <2>2 DEF SameTerms, RequestsGivenOut
<1>9. ASSUME UNCHANGED <<requests, settlements, nextRequestId>>
      PROVE  Goal
  BY <1>0, <1>9 DEF RequestsGivenOut, SameTerms
<1>10. CASE \/ \E sender \in Address, value \in MsgValues, claimId \in ClaimIds,
                  registry \in Registry \cup {NoAddress},
                  agentId \in AgentId \cup {0} :
                 ChallengeAuditRequestClaim(sender, value, claimId, registry, agentId)
            \/ \E sender \in Address, claimId \in ClaimIds, upheld \in BOOLEAN :
                 ResolveAuditRequestClaimChallenge(sender, claimId, upheld)
            \/ \E claimId \in ClaimIds : ExpireAuditRequestClaimChallenge(claimId)
            \/ \E sender \in Address : WithdrawExpiredChallengeBond(sender)
            \/ \E sender \in Address : WithdrawFees(sender)
            \/ \E identity \in Transferable, to \in Address :
                 TransferIdentity(identity, to)
  BY <1>9, <1>10, CallFrames
<1> QED
  BY <1>1, <1>2, <1>3, <1>4, <1>5, <1>6, <1>7, <1>8, <1>10 DEF RequestNext

(***************************************************************************)
(* auditRequestClaimIds lists the claims of a request, each of them once.  *)
(***************************************************************************)
ClaimsListed ==
  /\ \A r \in RequestIds :
       /\ requests[r].claimCount = Len(claimIds[r])
       /\ Len(claimIds[r]) <= nextClaimId
       /\ settlements[r].classifiedClaimCount <= Len(claimIds[r])
       /\ \A i \in 1..Len(claimIds[r]) : claims[claimIds[r][i]].requestId = r
       /\ \A i, j \in 1..Len(claimIds[r]) :
            claimIds[r][i] = claimIds[r][j] => i = j
  /\ \A c \in ClaimIds, r \in RequestIds :
       claims[c].requestId = r =>
         \E i \in 1..Len(claimIds[r]) : claimIds[r][i] = c

\* The cursor of a request is in its list of claims.
LEMMA CursorInList ==
  ASSUME RequestShape, ClaimsListed, NEW r \in RequestIds
  PROVE  /\ settlements[r].classifiedClaimCount \in Nat
         /\ Len(claimIds[r]) \in Nat
         /\ settlements[r].classifiedClaimCount <= Len(claimIds[r])
<1>1. settlements[r].classifiedClaimCount \in Nat
  <2>1. settlements[r] \in SettlementShape
    BY DEF RequestShape
  <2> QED BY <2>1 DEF SettlementShape
<1>2. Len(claimIds[r]) \in Nat
  BY DEF RequestShape
<1>3. settlements[r].classifiedClaimCount <= Len(claimIds[r])
  BY DEF ClaimsListed
<1> QED BY <1>1, <1>2, <1>3

\* A batch starts at the cursor, goes no further than the list and never back.
LEMMA CursorFacts ==
  ASSUME RequestShape, ClaimsListed, NEW r \in RequestIds, NEW maxClaims \in BatchSizes
  PROVE  /\ TargetCursor(r, maxClaims) \in Nat
         /\ settlements[r].classifiedClaimCount <= TargetCursor(r, maxClaims)
         /\ TargetCursor(r, maxClaims) <= Len(claimIds[r])
<1>1. maxClaims \in Nat
  BY ConstantTypes
<1> DEFINE cursor == settlements[r].classifiedClaimCount
           length == Len(claimIds[r])
<1>2. TargetCursor(r, maxClaims)
        = IF cursor + maxClaims > length THEN length ELSE cursor + maxClaims
  BY DEF TargetCursor
<1> HIDE DEF cursor, length
<1>3. cursor \in Nat /\ length \in Nat /\ cursor <= length
  BY CursorInList DEF cursor, length
<1>4. /\ TargetCursor(r, maxClaims) \in Nat
      /\ cursor <= TargetCursor(r, maxClaims)
      /\ TargetCursor(r, maxClaims) <= length
  BY <1>1, <1>2, <1>3
<1> QED BY <1>3, <1>4 DEF cursor, length

\* Claims keep their parties, times and stakes once they are given out.
LEMMA RequestNextClaims ==
  ASSUME ChainTypeOK, RequestShape, RequestsGivenOut, ClaimsGivenOut,
         ClaimsListed, RequestNext, now' = now
  PROVE  /\ ClaimsGivenOut'
         /\ nextClaimId <= nextClaimId'
         /\ \A c \in ClaimIds : c <= nextClaimId =>
              SameClaim(claims'[c], claims[c])
<1> DEFINE Goal == /\ ClaimsGivenOut'
                   /\ nextClaimId <= nextClaimId'
                   /\ \A c \in ClaimIds : c <= nextClaimId =>
                        SameClaim(claims'[c], claims[c])
<1>n. RequestShape' /\ nextRequestId <= nextRequestId'
  BY RequestNextShape, RequestNextRequests
<1>0. /\ nextRequestId \in Nat /\ nextClaimId \in 0..MaxClaims /\ MaxClaims \in Nat
      /\ nextRequestId <= nextRequestId' /\ nextRequestId' \in Nat
      /\ \A c \in ClaimIds : c \in Nat
      /\ \A r \in RequestIds : r \in Nat \ {0}
  BY <1>n, ConstantTypes DEF RequestShape, ClaimIds, RequestIds
<1>c. \A c \in ClaimIds : claims[c] \in ClaimRecord
  BY DEF RequestShape
<1>g. ASSUME NEW c \in ClaimIds, claims[c].requestId # 0 \/ claims[c].state # "None"
      PROVE  c <= nextClaimId
  BY <1>0, <1>g DEF ClaimsGivenOut, NoClaim
\* A call that touches one claim given out, and no settlement of a claim.
<1>a. ASSUME NEW c \in ClaimIds, c <= nextClaimId, nextClaimId' = nextClaimId,
             SameClaim(claims'[c], claims[c]), claims'[c].state # "None",
             claimSettlements' = claimSettlements,
             \A d \in ClaimIds \ {c} : claims'[d] = claims[d]
      PROVE  Goal
  <2>1. ASSUME NEW d \in ClaimIds
        PROVE  /\ d > nextClaimId' =>
                    /\ claims'[d] = NoClaim
                    /\ claimSettlements'[d] = [eligible |-> FALSE, withdrawn |-> FALSE]
               /\ d <= nextClaimId' =>
                    claims'[d].requestId \in 1..nextRequestId'
                      /\ claims'[d].state # "None"
               /\ SameClaim(claims'[d], claims[d])
    BY <1>0, <1>a DEF ClaimsGivenOut, SameClaim
  <2> QED BY <1>0, <1>a, <2>1 DEF ClaimsGivenOut
\* A call that touches no claim, and settlements of claims given out.
<1>b. ASSUME nextClaimId' = nextClaimId, claims' = claims,
             \A c \in ClaimIds :
               c > nextClaimId => claimSettlements'[c] = claimSettlements[c]
      PROVE  Goal
  BY <1>0, <1>b DEF ClaimsGivenOut, SameClaim
<1>1. ASSUME NEW sender \in Address, NEW value \in MsgValues,
             NEW requestId \in RequestIds,
             NEW registry \in Registry \cup {NoAddress},
             NEW agentId \in AgentId \cup {0},
             SubmitAuditRequestClaim(sender, value, requestId, registry, agentId)
      PROVE  Goal
  <2> DEFINE n == nextClaimId + 1
  <2>1. n \in ClaimIds
    BY <1>0, <1>1 DEF SubmitAuditRequestClaim, ClaimIds
  <2>2. /\ nextClaimId' = n /\ claimSettlements' = claimSettlements
        /\ \A c \in ClaimIds \ {n} : claims'[c] = claims[c]
        /\ claims'[n].requestId = requestId /\ claims'[n].state = "Submitted"
        /\ requests[requestId].createdAt # 0
    BY <1>1, <2>1 DEF SubmitAuditRequestClaim, RequestShape, NoClaim
  <2>3. requestId \in 1..nextRequestId
    BY <1>0, <2>2 DEF RequestsGivenOut, NoRequest
  <2>4. ASSUME NEW c \in ClaimIds
        PROVE  /\ c > nextClaimId' =>
                    /\ claims'[c] = NoClaim
                    /\ claimSettlements'[c] = [eligible |-> FALSE, withdrawn |-> FALSE]
               /\ c <= nextClaimId' =>
                    claims'[c].requestId \in 1..nextRequestId'
                      /\ claims'[c].state # "None"
               /\ c <= nextClaimId => SameClaim(claims'[c], claims[c])
    BY <1>0, <2>2, <2>3 DEF ClaimsGivenOut, SameClaim
  <2> QED BY <1>0, <2>2, <2>4 DEF ClaimsGivenOut
<1>2. ASSUME NEW sender \in Address, NEW value \in MsgValues,
             NEW claimId \in ClaimIds, NEW registry, NEW agentId,
             ChallengeAuditRequestClaim(sender, value, claimId, registry, agentId)
      PROVE  Goal
  <2>1. /\ nextClaimId' = nextClaimId /\ claimSettlements' = claimSettlements
        /\ claims[claimId].requestId # 0
        /\ claims' = [claims EXCEPT ![claimId] =
             [claims[claimId] EXCEPT !.state = "Challenged",
                                     !.challengedAt = now,
                                     !.challengeBond = value,
                                     !.challenger = sender]]
    BY <1>2 DEF ChallengeAuditRequestClaim
  <2>2. claimId <= nextClaimId
    BY <1>g, <2>1
  <2>3. /\ SameClaim(claims'[claimId], claims[claimId])
        /\ claims'[claimId].state = "Challenged"
        /\ \A d \in ClaimIds \ {claimId} : claims'[d] = claims[d]
    BY <1>c, <2>1 DEF RequestShape, ClaimRecord, SameClaim
  <2> QED BY <1>a, <2>1, <2>2, <2>3
<1>3. ASSUME NEW sender \in Address, NEW claimId \in ClaimIds,
             NEW upheld \in BOOLEAN,
             ResolveAuditRequestClaimChallenge(sender, claimId, upheld)
      PROVE  Goal
  <2>1. /\ nextClaimId' = nextClaimId /\ claimSettlements' = claimSettlements
        /\ claims[claimId].requestId # 0
        /\ claims' = [claims EXCEPT ![claimId] =
             [claims[claimId] EXCEPT
                !.state = IF upheld THEN "Slashed" ELSE "Resolved",
                !.resolution = IF upheld THEN "ChallengeUpheld"
                                         ELSE "ChallengeRejected"]]
    BY <1>3 DEF ResolveAuditRequestClaimChallenge
  <2>2. claimId <= nextClaimId
    BY <1>g, <2>1
  <2>3. /\ SameClaim(claims'[claimId], claims[claimId])
        /\ claims'[claimId].state \in {"Slashed", "Resolved"}
        /\ \A d \in ClaimIds \ {claimId} : claims'[d] = claims[d]
    BY <1>c, <2>1 DEF RequestShape, ClaimRecord, SameClaim
  <2> QED BY <1>a, <2>1, <2>2, <2>3
<1>4. ASSUME NEW claimId \in ClaimIds, ExpireAuditRequestClaimChallenge(claimId)
      PROVE  Goal
  <2>1. /\ nextClaimId' = nextClaimId /\ claimSettlements' = claimSettlements
        /\ claims[claimId].requestId # 0
        /\ claims' = [claims EXCEPT ![claimId] =
             [claims[claimId] EXCEPT !.state = "Submitted",
                                     !.challengedAt = 0,
                                     !.challengeBond = 0,
                                     !.challenger = NoAddress]]
    BY <1>4 DEF ExpireAuditRequestClaimChallenge
  <2>2. claimId <= nextClaimId
    BY <1>g, <2>1
  <2>3. /\ SameClaim(claims'[claimId], claims[claimId])
        /\ claims'[claimId].state = "Submitted"
        /\ \A d \in ClaimIds \ {claimId} : claims'[d] = claims[d]
    BY <1>c, <2>1 DEF RequestShape, ClaimRecord, SameClaim
  <2> QED BY <1>a, <2>1, <2>2, <2>3
<1>5. ASSUME NEW requestId \in RequestIds, NEW maxClaims \in BatchSizes,
             ClassifyAuditRequestClaims(requestId, maxClaims)
      PROVE  Goal
  <2> DEFINE from == settlements[requestId].classifiedClaimCount
             to == TargetCursor(requestId, maxClaims)
  <2>1. from \in Nat /\ to \in Nat /\ to <= Len(claimIds[requestId])
    BY ConstantTypes DEF TargetCursor, RequestShape, SettlementShape
  <2>2. \A c \in ClaimsBetween(requestId, from, to) : claims[c].requestId = requestId
    <3> HIDE DEF from, to
    <3> QED BY <2>1 DEF ClaimsBetween, ClaimsListed, RequestShape
  <2>3. /\ nextClaimId' = nextClaimId /\ claims' = claims
        /\ \A c \in ClaimIds : c \notin ClaimsBetween(requestId, from, to) =>
             claimSettlements'[c] = claimSettlements[c]
    BY <1>5 DEF ClassifyAuditRequestClaims
  <2> HIDE DEF from, to
  <2>4. ASSUME NEW c \in ClaimIds, c > nextClaimId
        PROVE  claimSettlements'[c] = claimSettlements[c]
    BY <1>0, <1>g, <2>2, <2>3, <2>4
  <2> QED BY <1>b, <2>3, <2>4
<1>6. ASSUME NEW claimId \in ClaimIds, WithdrawAuditRequestClaimSettlement(claimId)
      PROVE  Goal
  <2>1. /\ nextClaimId' = nextClaimId /\ claims' = claims
        /\ claims[claimId].requestId # 0
        /\ \A c \in ClaimIds \ {claimId} : claimSettlements'[c] = claimSettlements[c]
    BY <1>6 DEF WithdrawAuditRequestClaimSettlement, RequestShape
  <2>2. claimId <= nextClaimId
    BY <1>g, <2>1
  <2> QED BY <1>0, <1>b, <2>1, <2>2
<1>7. CASE \/ \E sender \in Address, value \in MsgValues, bountyAmount \in Bounties,
                 responseWindow \in ResponseWindows, eligibility \in Eligibilities :
                CreateAuditRequest(sender, value, bountyAmount, responseWindow,
                                   eligibility)
           \/ \E sender \in Address : WithdrawExpiredChallengeBond(sender)
           \/ \E requestId \in RequestIds : ExpireAuditRequest(requestId)
           \/ \E sender \in Address, requestId \in RequestIds :
                RefundExpiredAuditRequest(sender, requestId)
           \/ \E requestId \in RequestIds : FinalizeAuditRequestSettlement(requestId)
           \/ \E sender \in Address, requestId \in RequestIds :
                WithdrawAuditRequestRefund(sender, requestId)
           \/ \E sender \in Address : WithdrawFees(sender)
           \/ \E identity \in Transferable, to \in Address :
                TransferIdentity(identity, to)
  <2>1. nextClaimId' = nextClaimId /\ claims' = claims
          /\ claimSettlements' = claimSettlements
    BY <1>7, CallFrames
  <2> QED BY <1>b, <2>1
<1> QED
  BY <1>1, <1>2, <1>3, <1>4, <1>5, <1>6, <1>7 DEF RequestNext

\* The claims that a request lists are its claims, and no other.
LEMMA ListedClaims ==
  ASSUME RequestShape, ClaimsListed, NEW r \in RequestIds,
         NEW from \in Nat, NEW to \in Nat, to <= Len(claimIds[r])
  PROVE  /\ ClaimsBetween(r, from, to) \subseteq ClaimsOf(r)
         /\ ClaimsBetween(r, 0, Len(claimIds[r])) = ClaimsOf(r)
<1> DEFINE list == claimIds[r]
<1>1. list \in Seq(ClaimIds) /\ Len(list) \in Nat
  BY DEF RequestShape
<1>2. \A i \in 1..Len(list) : list[i] \in ClaimIds /\ claims[list[i]].requestId = r
  BY <1>1 DEF ClaimsListed
<1>3. \A c \in ClaimIds : claims[c].requestId = r =>
        \E i \in 1..Len(list) : list[i] = c
  BY DEF ClaimsListed
<1>4. ClaimsBetween(r, from, to) = {list[i] : i \in (from + 1)..to}
      /\ ClaimsBetween(r, 0, Len(list)) = {list[i] : i \in 1..Len(list)}
  BY DEF ClaimsBetween
<1>5. \A i \in (from + 1)..to : i \in 1..Len(list)
  BY <1>1
<1> HIDE DEF list
<1>6. ClaimsBetween(r, from, to) \subseteq ClaimsOf(r)
  BY <1>2, <1>4, <1>5 DEF ClaimsOf
<1>7. ClaimsBetween(r, 0, Len(list)) = ClaimsOf(r)
  BY <1>2, <1>3, <1>4 DEF ClaimsOf
<1> QED BY <1>6, <1>7 DEF list

LEMMA RequestNextListed ==
  ASSUME ChainTypeOK, RequestShape, RequestsGivenOut, ClaimsGivenOut,
         ClaimsListed, RequestNext, now' = now
  PROVE  ClaimsListed'
<1>0. /\ nextRequestId \in Nat /\ nextClaimId \in Nat
      /\ nextClaimId <= nextClaimId' /\ nextClaimId' \in Nat
      /\ \A r \in RequestIds : r \in Nat \ {0}
      /\ \A c \in ClaimIds : c \in Nat
  <2>1. RequestShape' /\ nextClaimId <= nextClaimId'
    BY RequestNextShape, RequestNextClaims
  <2> QED BY <2>1, ConstantTypes DEF RequestShape, RequestIds, ClaimIds
<1>r. \A r \in RequestIds : /\ requests[r] \in RequestShapeRecord
                           /\ settlements[r] \in SettlementShape
                           /\ claimIds[r] \in Seq(ClaimIds)
                           /\ Len(claimIds[r]) \in Nat
  BY DEF RequestShape
<1>k. \A c \in ClaimIds : c <= nextClaimId =>
        claims'[c].requestId = claims[c].requestId
  BY RequestNextClaims DEF SameClaim
\* A call that leaves the lists alone.
<1>a. ASSUME claimIds' = claimIds, nextClaimId' = nextClaimId,
             \A r \in RequestIds :
               /\ requests'[r].claimCount = requests[r].claimCount
               /\ settlements'[r].classifiedClaimCount <= Len(claimIds[r])
      PROVE  ClaimsListed'
  <2>1. \A c \in ClaimIds : claims'[c].requestId = claims[c].requestId
    <3>1. ClaimsGivenOut'
      BY RequestNextClaims
    <3> QED BY <1>0, <1>a, <1>k, <3>1 DEF ClaimsGivenOut
  <2>2. \A r \in RequestIds : \A i \in 1..Len(claimIds[r]) : claimIds[r][i] \in ClaimIds
    BY <1>r
  <2> QED BY <1>a, <2>1, <2>2 DEF ClaimsListed
<1>1. ASSUME NEW sender \in Address, NEW value \in MsgValues,
             NEW bountyAmount \in Bounties,
             NEW responseWindow \in ResponseWindows,
             NEW eligibility \in Eligibilities,
             CreateAuditRequest(sender, value, bountyAmount, responseWindow,
                                eligibility)
      PROVE  ClaimsListed'
  <2> DEFINE n == nextRequestId + 1
  <2>1. /\ claimIds' = claimIds /\ nextClaimId' = nextClaimId
        /\ settlements' = settlements
        /\ \A r \in RequestIds \ {n} : requests'[r] = requests[r]
        /\ n \in RequestIds => requests'[n].claimCount = 0
    BY <1>1 DEF CreateAuditRequest, RequestShape
  <2>2. n \in RequestIds => requests[n].claimCount = 0
    BY <1>0 DEF RequestsGivenOut, NoRequest
  <2>3. \A r \in RequestIds :
          /\ requests'[r].claimCount = requests[r].claimCount
          /\ settlements'[r].classifiedClaimCount <= Len(claimIds[r])
    BY <2>1, <2>2 DEF ClaimsListed
  <2> QED BY <1>a, <2>1, <2>3
<1>2. ASSUME NEW sender \in Address, NEW value \in MsgValues,
             NEW requestId \in RequestIds,
             NEW registry \in Registry \cup {NoAddress},
             NEW agentId \in AgentId \cup {0},
             SubmitAuditRequestClaim(sender, value, requestId, registry, agentId)
      PROVE  ClaimsListed'
  <2> DEFINE n == nextClaimId + 1
             old == claimIds[requestId]
             new == Append(old, n)
  <2>1. /\ n \in ClaimIds /\ nextClaimId' = n
        /\ claimIds' = [claimIds EXCEPT ![requestId] = new]
        /\ requests' = [requests EXCEPT ![requestId].claimCount = @ + 1]
        /\ settlements' = settlements
        /\ \A c \in ClaimIds \ {n} : claims'[c] = claims[c]
    <3>1. n \in ClaimIds
      BY <1>0, <1>2, ConstantTypes DEF SubmitAuditRequestClaim, ClaimIds
    <3> QED BY <1>2, <3>1 DEF SubmitAuditRequestClaim, RequestShape
  <2>2. claims'[n].requestId = requestId
    BY <1>2, <2>1 DEF SubmitAuditRequestClaim, RequestShape, NoClaim
  <2>3. claims[n].requestId = 0
    BY <1>0, <2>1 DEF ClaimsGivenOut, NoClaim
  <2>4. /\ Len(new) = Len(old) + 1
        /\ \A i \in 1..Len(old) : new[i] = old[i]
        /\ new[Len(old) + 1] = n
        /\ Len(old) \in Nat
        /\ \A i \in 1..Len(old) : old[i] \in ClaimIds
    BY <1>r, <2>1
  <2>5. \A i \in 1..Len(old) : claims[old[i]].requestId = requestId /\ old[i] # n
    BY <1>0, <2>3 DEF ClaimsListed
  <2>6. /\ requests'[requestId].claimCount = requests[requestId].claimCount + 1
        /\ claimIds'[requestId] = new
        /\ \A q \in RequestIds \ {requestId} :
             requests'[q] = requests[q] /\ claimIds'[q] = claimIds[q]
    BY <1>r, <2>1 DEF RequestShape, RequestShapeRecord
  <2> HIDE DEF n, new, old
  <2>7. ASSUME NEW q \in RequestIds
        PROVE  /\ requests'[q].claimCount = Len(claimIds'[q])
               /\ Len(claimIds'[q]) <= nextClaimId'
               /\ settlements'[q].classifiedClaimCount <= Len(claimIds'[q])
    <3>1. /\ requests[q].claimCount = Len(claimIds[q])
          /\ Len(claimIds[q]) <= nextClaimId /\ Len(claimIds[q]) \in Nat
          /\ settlements[q].classifiedClaimCount <= Len(claimIds[q])
          /\ settlements[q].classifiedClaimCount \in Nat
      BY <1>r DEF ClaimsListed, SettlementShape
    <3>2. nextClaimId' = nextClaimId + 1
      BY <2>1 DEF n
    <3>3. CASE q = requestId
      BY <1>0, <2>1, <2>4, <2>6, <3>1, <3>2, <3>3 DEF old
    <3>4. CASE q # requestId
      BY <1>0, <2>1, <2>6, <3>1, <3>2, <3>4
    <3> QED BY <3>3, <3>4
  <2>8. ASSUME NEW q \in RequestIds
        PROVE  /\ \A i \in 1..Len(claimIds'[q]) : claims'[claimIds'[q][i]].requestId = q
               /\ \A i, j \in 1..Len(claimIds'[q]) :
                    claimIds'[q][i] = claimIds'[q][j] => i = j
    <3>1. CASE q = requestId
      <4>1. \A i \in 1..Len(new) : i = Len(old) + 1 \/ i \in 1..Len(old)
        BY <2>4
      <4>2. \A i \in 1..Len(new) : claims'[new[i]].requestId = q
        BY <2>1, <2>2, <2>4, <2>5, <3>1, <4>1
      <4>3. \A i, j \in 1..Len(old) : old[i] = old[j] => i = j
        BY DEF ClaimsListed, old
      <4>4. \A i, j \in 1..Len(new) : new[i] = new[j] => i = j
        BY <2>4, <2>5, <4>1, <4>3
      <4> QED BY <2>6, <3>1, <4>2, <4>4
    <3>2. CASE q # requestId
      <4>1. \A i \in 1..Len(claimIds[q]) :
              claimIds[q][i] \in ClaimIds /\ claims[claimIds[q][i]].requestId = q
        BY <1>r DEF ClaimsListed
      <4>2. \A i \in 1..Len(claimIds[q]) : claimIds[q][i] # n
        BY <1>0, <2>3, <4>1
      <4> QED BY <2>1, <2>6, <3>2, <4>1, <4>2 DEF ClaimsListed
    <3> QED BY <3>1, <3>2
  <2>9. ASSUME NEW c \in ClaimIds, NEW q \in RequestIds, claims'[c].requestId = q
        PROVE  \E i \in 1..Len(claimIds'[q]) : claimIds'[q][i] = c
    <3>1. CASE c = n
      <4>1. q = requestId
        BY <2>2, <2>9, <3>1
      <4>2. Len(old) + 1 \in 1..Len(new) /\ new[Len(old) + 1] = c
        BY <2>4, <3>1
      <4> QED BY <2>6, <4>1, <4>2
    <3>2. CASE c # n
      <4>1. PICK i \in 1..Len(claimIds[q]) : claimIds[q][i] = c
        BY <2>1, <2>9, <3>2 DEF ClaimsListed
      <4>2. i \in 1..Len(claimIds'[q]) /\ claimIds'[q][i] = c
        BY <2>4, <2>6, <4>1 DEF old
      <4> QED BY <4>2
    <3> QED BY <3>1, <3>2
  <2> QED BY <2>7, <2>8, <2>9 DEF ClaimsListed
<1>3. ASSUME NEW requestId \in RequestIds, NEW maxClaims \in BatchSizes,
             ClassifyAuditRequestClaims(requestId, maxClaims)
      PROVE  ClaimsListed'
  <2>1. /\ claimIds' = claimIds /\ nextClaimId' = nextClaimId
        /\ requests' = requests
        /\ \A q \in RequestIds \ {requestId} : settlements'[q] = settlements[q]
        /\ settlements'[requestId].classifiedClaimCount
             = TargetCursor(requestId, maxClaims)
    BY <1>3, <1>r DEF ClassifyAuditRequestClaims, RequestShape, SettlementShape
  <2>2. TargetCursor(requestId, maxClaims) <= Len(claimIds[requestId])
    BY <1>r, ConstantTypes DEF TargetCursor, SettlementShape
  <2> QED BY <1>a, <2>1, <2>2 DEF ClaimsListed
<1>4. ASSUME NEW requestId \in RequestIds, FinalizeAuditRequestSettlement(requestId)
      PROVE  ClaimsListed'
  <2>1. /\ claimIds' = claimIds /\ nextClaimId' = nextClaimId
        /\ \A q \in RequestIds \ {requestId} :
             requests'[q] = requests[q] /\ settlements'[q] = settlements[q]
        /\ requests'[requestId].claimCount = requests[requestId].claimCount
        /\ settlements'[requestId].classifiedClaimCount
             = settlements[requestId].classifiedClaimCount
    BY <1>4, <1>r
    DEF FinalizeAuditRequestSettlement, RequestShape, RequestShapeRecord,
        SettlementShape
  <2> QED BY <1>a, <2>1 DEF ClaimsListed
<1>5. ASSUME NEW claimId \in ClaimIds, WithdrawAuditRequestClaimSettlement(claimId)
      PROVE  ClaimsListed'
  <2> DEFINE requestId == claims[claimId].requestId
  <2>1. requestId \in RequestIds
    BY <1>5 DEF WithdrawAuditRequestClaimSettlement, RequestShape, ClaimRecord,
                RequestIds
  <2>2. /\ claimIds' = claimIds /\ nextClaimId' = nextClaimId
        /\ requests' = requests
        /\ \A q \in RequestIds \ {requestId} : settlements'[q] = settlements[q]
        /\ settlements'[requestId].classifiedClaimCount
             = settlements[requestId].classifiedClaimCount
    BY <1>5, <1>r, <2>1
    DEF WithdrawAuditRequestClaimSettlement, AfterClaimWithdrawal, RequestShape,
        SettlementShape
  <2> QED BY <1>a, <2>1, <2>2 DEF ClaimsListed
<1>6. ASSUME NEW sender \in Address, NEW requestId \in RequestIds,
             WithdrawAuditRequestRefund(sender, requestId)
      PROVE  ClaimsListed'
  <2>1. /\ claimIds' = claimIds /\ nextClaimId' = nextClaimId
        /\ requests' = requests
        /\ \A q \in RequestIds \ {requestId} : settlements'[q] = settlements[q]
        /\ settlements'[requestId].classifiedClaimCount
             = settlements[requestId].classifiedClaimCount
    BY <1>6, <1>r DEF WithdrawAuditRequestRefund, RequestShape, SettlementShape
  <2> QED BY <1>a, <2>1 DEF ClaimsListed
<1>7. ASSUME NEW requestId \in RequestIds,
             \/ ExpireAuditRequest(requestId)
             \/ \E sender \in Address : RefundExpiredAuditRequest(sender, requestId)
      PROVE  ClaimsListed'
  <2>1. /\ claimIds' = claimIds /\ nextClaimId' = nextClaimId
        /\ settlements' = settlements
        /\ \A q \in RequestIds \ {requestId} : requests'[q] = requests[q]
        /\ requests'[requestId].claimCount = requests[requestId].claimCount
    BY <1>7, <1>r
    DEF ExpireAuditRequest, RefundExpiredAuditRequest, RequestShape,
        RequestShapeRecord
  <2> QED BY <1>a, <2>1 DEF ClaimsListed
<1>8. CASE \/ \E sender \in Address, value \in MsgValues, claimId \in ClaimIds,
                 registry \in Registry \cup {NoAddress},
                 agentId \in AgentId \cup {0} :
                ChallengeAuditRequestClaim(sender, value, claimId, registry, agentId)
           \/ \E sender \in Address, claimId \in ClaimIds, upheld \in BOOLEAN :
                ResolveAuditRequestClaimChallenge(sender, claimId, upheld)
           \/ \E claimId \in ClaimIds : ExpireAuditRequestClaimChallenge(claimId)
           \/ \E sender \in Address : WithdrawExpiredChallengeBond(sender)
           \/ \E sender \in Address : WithdrawFees(sender)
           \/ \E identity \in Transferable, to \in Address :
                TransferIdentity(identity, to)
  <2>1. UNCHANGED <<requests, settlements, claimIds, nextClaimId>>
    BY <1>8, CallFrames
  <2> QED BY <1>a, <2>1 DEF ClaimsListed
<1> QED
  BY <1>1, <1>2, <1>3, <1>4, <1>5, <1>6, <1>7, <1>8 DEF RequestNext

-----------------------------------------------------------------------------
(***************************************************************************)
(* What each stage of a request implies of its window, of its settlement   *)
(* and of its claims.                                                      *)
(***************************************************************************)
RequestStage(r) ==
  /\ \/ requests[r].state \in {"Expired", "Settled"}
     \/ settlements[r].classifiedClaimCount # 0
     => now > requests[r].responseWindowEnd
  /\ settlements[r].finalized =>
       /\ requests[r].state = "Settled"
       /\ settlements[r].classifiedClaimCount = Len(claimIds[r])
  /\ requests[r].state \in {"Expired", "Settled"} /\ ~settlements[r].finalized =>
       Len(claimIds[r]) = 0

RequestStages == \A r \in RequestIds : RequestStage(r)

LEMMA RequestNextStages ==
  ASSUME ChainTypeOK, RequestShape, RequestsGivenOut, ClaimsListed, RequestStages,
         RequestNext, now' = now
  PROVE  RequestStages'
<1>r. /\ nextRequestId \in Nat
      /\ \A r \in RequestIds : /\ requests[r] \in RequestShapeRecord
                               /\ settlements[r] \in SettlementShape
                               /\ Len(claimIds[r]) \in Nat
                               /\ r \in Nat
  BY ConstantTypes DEF RequestShape, RequestIds
\* A call that touches one request.
<1>a. ASSUME NEW r \in RequestIds, RequestStage(r)',
             \A q \in RequestIds \ {r} : /\ requests'[q] = requests[q]
                                         /\ settlements'[q] = settlements[q]
                                         /\ claimIds'[q] = claimIds[q]
      PROVE  RequestStages'
  BY <1>a DEF RequestStages, RequestStage
<1>1. ASSUME NEW sender \in Address, NEW value \in MsgValues,
             NEW bountyAmount \in Bounties,
             NEW responseWindow \in ResponseWindows,
             NEW eligibility \in Eligibilities,
             CreateAuditRequest(sender, value, bountyAmount, responseWindow,
                                eligibility)
      PROVE  RequestStages'
  <2>1. PICK n \in RequestIds : n = nextRequestId + 1
    BY <1>r, <1>1, ConstantTypes DEF CreateAuditRequest, RequestIds
  <2>2. /\ claimIds' = claimIds /\ settlements' = settlements
        /\ \A r \in RequestIds \ {n} : requests'[r] = requests[r]
        /\ requests'[n].state = "Open"
    BY <1>1, <2>1 DEF CreateAuditRequest, RequestShape
  <2>3. settlements[n] = NoSettlement
    BY <1>r, <2>1 DEF RequestsGivenOut
  <2>4. RequestStage(n)'
    BY <2>2, <2>3 DEF RequestStage, NoSettlement
  <2> QED BY <1>a, <2>1, <2>2, <2>4
<1>2. ASSUME NEW sender \in Address, NEW value \in MsgValues,
             NEW requestId \in RequestIds,
             NEW registry \in Registry \cup {NoAddress},
             NEW agentId \in AgentId \cup {0},
             SubmitAuditRequestClaim(sender, value, requestId, registry, agentId)
      PROVE  RequestStages'
  <2>1. /\ settlements' = settlements
        /\ AuditRequestState(requestId) = "Open"
        /\ requests'[requestId].state = requests[requestId].state
        /\ \A q \in RequestIds \ {requestId} :
             requests'[q] = requests[q] /\ claimIds'[q] = claimIds[q]
    BY <1>2, <1>r
    DEF SubmitAuditRequestClaim, RequestShape, RequestShapeRecord
  <2>2. /\ requests[requestId].state = "Open"
        /\ ~(now > requests[requestId].responseWindowEnd)
    BY <2>1 DEF AuditRequestState
  <2>3. /\ ~settlements[requestId].finalized
        /\ settlements[requestId].classifiedClaimCount = 0
    BY <2>2 DEF RequestStages, RequestStage
  <2>4. RequestStage(requestId)'
    BY <2>1, <2>2, <2>3 DEF RequestStage
  <2> QED BY <1>a, <2>1, <2>4
<1>3. ASSUME NEW requestId \in RequestIds, ExpireAuditRequest(requestId)
      PROVE  RequestStages'
  <2>1. /\ settlements' = settlements /\ claimIds' = claimIds
        /\ AuditRequestState(requestId) = "Closed"
        /\ requests[requestId].claimCount = 0
        /\ requests'[requestId].state = "Expired"
        /\ requests'[requestId].responseWindowEnd
             = requests[requestId].responseWindowEnd
        /\ \A q \in RequestIds \ {requestId} : requests'[q] = requests[q]
    BY <1>3, <1>r DEF ExpireAuditRequest, RequestShape, RequestShapeRecord
  <2>2. /\ requests[requestId].state = "Open"
        /\ now > requests[requestId].responseWindowEnd
    BY <1>r, <2>1 DEF AuditRequestState, RequestShapeRecord
  <2>3. RequestStage(requestId)'
    BY <2>1, <2>2 DEF RequestStage, RequestStages, ClaimsListed
  <2> QED BY <1>a, <2>1, <2>3
<1>4. ASSUME NEW sender \in Address, NEW requestId \in RequestIds,
             RefundExpiredAuditRequest(sender, requestId)
      PROVE  RequestStages'
  <2>1. /\ settlements' = settlements /\ claimIds' = claimIds
        /\ requests[requestId].state = "Expired"
        /\ requests'[requestId].state = "Settled"
        /\ requests'[requestId].responseWindowEnd
             = requests[requestId].responseWindowEnd
        /\ \A q \in RequestIds \ {requestId} : requests'[q] = requests[q]
    BY <1>4, <1>r DEF RefundExpiredAuditRequest, RequestShape, RequestShapeRecord
  <2>2. RequestStage(requestId)'
    BY <2>1 DEF RequestStage, RequestStages
  <2> QED BY <1>a, <2>1, <2>2
<1>5. ASSUME NEW requestId \in RequestIds, NEW maxClaims \in BatchSizes,
             ClassifyAuditRequestClaims(requestId, maxClaims)
      PROVE  RequestStages'
  <2>1. /\ requests' = requests /\ claimIds' = claimIds
        /\ AuditRequestState(requestId) = "Closed"
        /\ ~settlements[requestId].finalized
        /\ settlements'[requestId].finalized = settlements[requestId].finalized
        /\ \A q \in RequestIds \ {requestId} : settlements'[q] = settlements[q]
    BY <1>5, <1>r DEF ClassifyAuditRequestClaims, RequestShape, SettlementShape
  <2>2. /\ requests[requestId].state = "Open"
        /\ now > requests[requestId].responseWindowEnd
    BY <1>r, <2>1 DEF AuditRequestState, RequestShapeRecord
  <2>3. RequestStage(requestId)'
    BY <2>1, <2>2 DEF RequestStage
  <2> QED BY <1>a, <2>1, <2>3
<1>6. ASSUME NEW requestId \in RequestIds, FinalizeAuditRequestSettlement(requestId)
      PROVE  RequestStages'
  <2>1. /\ claimIds' = claimIds
        /\ AuditRequestState(requestId) = "Closed"
        /\ settlements[requestId].classifiedClaimCount
             = requests[requestId].claimCount
        /\ settlements'[requestId].classifiedClaimCount
             = settlements[requestId].classifiedClaimCount
        /\ settlements'[requestId].finalized
        /\ requests'[requestId].state = "Settled"
        /\ requests'[requestId].responseWindowEnd
             = requests[requestId].responseWindowEnd
        /\ \A q \in RequestIds \ {requestId} :
             requests'[q] = requests[q] /\ settlements'[q] = settlements[q]
    BY <1>6, <1>r
    DEF FinalizeAuditRequestSettlement, RequestShape, RequestShapeRecord,
        SettlementShape
  <2>2. now > requests[requestId].responseWindowEnd
    BY <1>r, <2>1 DEF AuditRequestState, RequestShapeRecord
  <2>3. RequestStage(requestId)'
    BY <2>1, <2>2 DEF RequestStage, ClaimsListed
  <2> QED BY <1>a, <2>1, <2>3
<1>7. ASSUME NEW claimId \in ClaimIds, WithdrawAuditRequestClaimSettlement(claimId)
      PROVE  RequestStages'
  <2>1. PICK requestId \in RequestIds : requestId = claims[claimId].requestId
    BY <1>7 DEF WithdrawAuditRequestClaimSettlement, RequestShape, ClaimRecord,
                RequestIds
  <2>2. /\ claimIds' = claimIds /\ requests' = requests
        /\ \A q \in RequestIds \ {requestId} : settlements'[q] = settlements[q]
        /\ settlements'[requestId].classifiedClaimCount
             = settlements[requestId].classifiedClaimCount
        /\ settlements'[requestId].finalized = settlements[requestId].finalized
    BY <1>7, <1>r, <2>1
    DEF WithdrawAuditRequestClaimSettlement, AfterClaimWithdrawal, RequestShape,
        SettlementShape
  <2>3. RequestStage(requestId)'
    BY <2>1, <2>2 DEF RequestStage, RequestStages
  <2> QED BY <1>a, <2>1, <2>2, <2>3
<1>8. ASSUME NEW sender \in Address, NEW requestId \in RequestIds,
             WithdrawAuditRequestRefund(sender, requestId)
      PROVE  RequestStages'
  <2>1. /\ claimIds' = claimIds /\ requests' = requests
        /\ \A q \in RequestIds \ {requestId} : settlements'[q] = settlements[q]
        /\ settlements'[requestId].classifiedClaimCount
             = settlements[requestId].classifiedClaimCount
        /\ settlements'[requestId].finalized = settlements[requestId].finalized
    BY <1>8, <1>r DEF WithdrawAuditRequestRefund, RequestShape, SettlementShape
  <2>2. RequestStage(requestId)'
    BY <2>1 DEF RequestStage, RequestStages
  <2> QED BY <1>a, <2>1, <2>2
<1>9. CASE \/ \E sender \in Address, value \in MsgValues, claimId \in ClaimIds,
                 registry \in Registry \cup {NoAddress},
                 agentId \in AgentId \cup {0} :
                ChallengeAuditRequestClaim(sender, value, claimId, registry, agentId)
           \/ \E sender \in Address, claimId \in ClaimIds, upheld \in BOOLEAN :
                ResolveAuditRequestClaimChallenge(sender, claimId, upheld)
           \/ \E claimId \in ClaimIds : ExpireAuditRequestClaimChallenge(claimId)
           \/ \E sender \in Address : WithdrawExpiredChallengeBond(sender)
           \/ \E sender \in Address : WithdrawFees(sender)
           \/ \E identity \in Transferable, to \in Address :
                TransferIdentity(identity, to)
  <2>1. UNCHANGED <<requests, settlements, claimIds>>
    BY <1>9, CallFrames
  <2> QED BY <2>1 DEF RequestStages, RequestStage
<1> QED
  BY <1>1, <1>2, <1>3, <1>4, <1>5, <1>6, <1>7, <1>8, <1>9 DEF RequestNext

-----------------------------------------------------------------------------
(***************************************************************************)
(* Claims and challenges fall inside their windows.                        *)
(***************************************************************************)
ClaimWindow(c) ==
  LET claim == claims[c] IN
  /\ claim.state # "None" =>
       /\ claim.submittedAt \in requests[claim.requestId].createdAt
                                .. requests[claim.requestId].responseWindowEnd
       /\ claim.submittedAt <= now
  /\ claim.challenger # NoAddress =>
       claim.challengedAt \in
         claim.submittedAt .. (claim.submittedAt + ChallengeWindow)
  /\ claim.state = "Challenged" => claim.challenger \in Address

ClaimWindows == \A c \in ClaimIds : ClaimWindow(c)

LEMMA RequestNextWindows ==
  ASSUME ChainTypeOK, RequestShape, RequestsGivenOut, ClaimsGivenOut,
         ClaimsListed, ClaimWindows, RequestNext, now' = now
  PROVE  ClaimWindows'
<1>0. /\ now \in Nat
      /\ nextRequestId \in 0..MaxRequests /\ nextClaimId \in 0..MaxClaims
      /\ MaxRequests \in Nat /\ MaxClaims \in Nat
      /\ \A c \in ClaimIds : c \in Nat /\ claims[c] \in ClaimRecord
      /\ \A r \in RequestIds : requests[r] \in RequestShapeRecord
  BY ConstantTypes DEF ChainTypeOK, Time, RequestShape, ClaimIds
<1>1. \A r \in RequestIds : r <= nextRequestId =>
        /\ requests'[r].createdAt = requests[r].createdAt
        /\ requests'[r].responseWindowEnd = requests[r].responseWindowEnd
  BY RequestNextRequests DEF SameTerms
\* A claim that a call leaves alone.
<1>a. ASSUME NEW c \in ClaimIds, claims'[c] = claims[c]
      PROVE  ClaimWindow(c)'
  <2>1. CASE claims[c].state = "None"
    BY <1>a, <2>1 DEF ClaimWindows, ClaimWindow
  <2>2. CASE claims[c].state # "None"
    <3>1. c <= nextClaimId
      BY <1>0, <2>2 DEF ClaimsGivenOut, NoClaim
    <3>2. claims[c].requestId \in RequestIds /\ claims[c].requestId <= nextRequestId
      BY <1>0, <3>1 DEF ClaimsGivenOut, RequestIds
    <3> QED BY <1>1, <1>a, <3>2 DEF ClaimWindows, ClaimWindow
  <2> QED BY <2>1, <2>2
<1>2. ASSUME NEW sender \in Address, NEW value \in MsgValues,
             NEW requestId \in RequestIds,
             NEW registry \in Registry \cup {NoAddress},
             NEW agentId \in AgentId \cup {0},
             SubmitAuditRequestClaim(sender, value, requestId, registry, agentId)
      PROVE  ClaimWindows'
  <2>1. PICK n \in ClaimIds : n = nextClaimId + 1
    BY <1>0, <1>2 DEF SubmitAuditRequestClaim, ClaimIds
  <2>2. /\ \A c \in ClaimIds \ {n} : claims'[c] = claims[c]
        /\ claims'[n].requestId = requestId /\ claims'[n].state = "Submitted"
        /\ claims'[n].submittedAt = now
        /\ claims'[n].challenger = NoAddress
        /\ requests[requestId].createdAt # 0
        /\ AuditRequestState(requestId) = "Open"
    BY <1>2, <2>1 DEF SubmitAuditRequestClaim, RequestShape, NoClaim
  <2>3. /\ requestId <= nextRequestId
        /\ requests[requestId].createdAt \in 1..now
    BY <1>0, <2>2 DEF RequestsGivenOut, NoRequest, RequestIds
  <2>4. /\ requests[requestId].responseWindowEnd \in Nat
        /\ now <= requests[requestId].responseWindowEnd
    BY <1>0, <2>2 DEF AuditRequestState, RequestShapeRecord
  <2>5. ClaimWindow(n)'
    BY <1>0, <1>1, <2>2, <2>3, <2>4 DEF ClaimWindow
  <2> QED BY <1>a, <2>2, <2>5 DEF ClaimWindows
<1>3. ASSUME NEW sender \in Address, NEW value \in MsgValues,
             NEW claimId \in ClaimIds, NEW registry, NEW agentId,
             ChallengeAuditRequestClaim(sender, value, claimId, registry, agentId)
      PROVE  ClaimWindows'
  <2>1. /\ claims[claimId].state = "Submitted"
        /\ ~Elapsed(claims[claimId].submittedAt, ChallengeWindow)
        /\ claims[claimId].submittedAt \in Nat
        /\ requests' = requests
        /\ \A c \in ClaimIds \ {claimId} : claims'[c] = claims[c]
        /\ claims'[claimId].requestId = claims[claimId].requestId
        /\ claims'[claimId].submittedAt = claims[claimId].submittedAt
        /\ claims'[claimId].challenger = sender
        /\ claims'[claimId].challengedAt = now
    BY <1>0, <1>3 DEF ChallengeAuditRequestClaim, RequestShape, ClaimRecord
  <2>2. /\ claims[claimId].submittedAt <= now
        /\ claims[claimId].submittedAt
             \in requests[claims[claimId].requestId].createdAt
                 .. requests[claims[claimId].requestId].responseWindowEnd
    BY <2>1 DEF ClaimWindows, ClaimWindow
  <2>3. now \in claims[claimId].submittedAt
                .. (claims[claimId].submittedAt + ChallengeWindow)
    BY <1>0, <2>1, <2>2, ConstantTypes DEF Elapsed
  <2>4. ClaimWindow(claimId)'
    BY <2>1, <2>2, <2>3 DEF ClaimWindow
  <2> QED BY <1>a, <2>1, <2>4 DEF ClaimWindows
\* A verdict or an expiry: the challenger stays, with its time, or goes.
<1>v. ASSUME NEW claimId \in ClaimIds, requests' = requests,
             claims[claimId].state = "Challenged",
             claims'[claimId].state \in {"Submitted", "Slashed", "Resolved"},
             \A c \in ClaimIds \ {claimId} : claims'[c] = claims[c],
             claims'[claimId].requestId = claims[claimId].requestId,
             claims'[claimId].submittedAt = claims[claimId].submittedAt,
             \/ claims'[claimId].challenger = NoAddress
             \/ /\ claims'[claimId].challenger = claims[claimId].challenger
                /\ claims'[claimId].challengedAt = claims[claimId].challengedAt
      PROVE  ClaimWindows'
  <2>1. ClaimWindow(claimId)'
    BY <1>v DEF ClaimWindows, ClaimWindow
  <2> QED BY <1>a, <1>v, <2>1 DEF ClaimWindows
<1>4. ASSUME NEW sender \in Address, NEW claimId \in ClaimIds,
             NEW upheld \in BOOLEAN,
             ResolveAuditRequestClaimChallenge(sender, claimId, upheld)
      PROVE  ClaimWindows'
  <2>1. /\ claims[claimId].state = "Challenged"
        /\ requests' = requests
        /\ claims' = [claims EXCEPT ![claimId] =
             [claims[claimId] EXCEPT
                !.state = IF upheld THEN "Slashed" ELSE "Resolved",
                !.resolution = IF upheld THEN "ChallengeUpheld"
                                         ELSE "ChallengeRejected"]]
    BY <1>4 DEF ResolveAuditRequestClaimChallenge
  <2>2. /\ claims'[claimId].state \in {"Submitted", "Slashed", "Resolved"}
        /\ \A c \in ClaimIds \ {claimId} : claims'[c] = claims[c]
        /\ claims'[claimId].requestId = claims[claimId].requestId
        /\ claims'[claimId].submittedAt = claims[claimId].submittedAt
        /\ claims'[claimId].challenger = claims[claimId].challenger
        /\ claims'[claimId].challengedAt = claims[claimId].challengedAt
    BY <1>0, <2>1 DEF RequestShape, ClaimRecord
  <2> QED BY <1>v, <2>1, <2>2
<1>e. ASSUME NEW claimId \in ClaimIds, ExpireAuditRequestClaimChallenge(claimId)
      PROVE  ClaimWindows'
  <2>1. /\ claims[claimId].state = "Challenged"
        /\ requests' = requests
        /\ claims' = [claims EXCEPT ![claimId] =
             [claims[claimId] EXCEPT !.state = "Submitted",
                                     !.challengedAt = 0,
                                     !.challengeBond = 0,
                                     !.challenger = NoAddress]]
    BY <1>e DEF ExpireAuditRequestClaimChallenge
  <2>2. /\ claims'[claimId].state \in {"Submitted", "Slashed", "Resolved"}
        /\ \A c \in ClaimIds \ {claimId} : claims'[c] = claims[c]
        /\ claims'[claimId].requestId = claims[claimId].requestId
        /\ claims'[claimId].submittedAt = claims[claimId].submittedAt
        /\ claims'[claimId].challenger = NoAddress
    BY <1>0, <2>1 DEF RequestShape, ClaimRecord
  <2> QED BY <1>v, <2>1, <2>2
<1>5. ASSUME claims' = claims
      PROVE  ClaimWindows'
  BY <1>5, <1>a DEF ClaimWindows
<1>6. CASE \/ \E sender \in Address, value \in MsgValues, bountyAmount \in Bounties,
                 responseWindow \in ResponseWindows, eligibility \in Eligibilities :
                CreateAuditRequest(sender, value, bountyAmount, responseWindow,
                                   eligibility)
           \/ \E sender \in Address : WithdrawExpiredChallengeBond(sender)
           \/ \E requestId \in RequestIds : ExpireAuditRequest(requestId)
           \/ \E sender \in Address, requestId \in RequestIds :
                RefundExpiredAuditRequest(sender, requestId)
           \/ \E requestId \in RequestIds, maxClaims \in BatchSizes :
                ClassifyAuditRequestClaims(requestId, maxClaims)
           \/ \E requestId \in RequestIds : FinalizeAuditRequestSettlement(requestId)
           \/ \E claimId \in ClaimIds : WithdrawAuditRequestClaimSettlement(claimId)
           \/ \E sender \in Address, requestId \in RequestIds :
                WithdrawAuditRequestRefund(sender, requestId)
           \/ \E sender \in Address : WithdrawFees(sender)
           \/ \E identity \in Transferable, to \in Address :
                TransferIdentity(identity, to)
  BY <1>5, <1>6, CallFrames
<1> QED
  BY <1>2, <1>3, <1>4, <1>e, <1>6 DEF RequestNext

-----------------------------------------------------------------------------
(***************************************************************************)
(* Identities.  An identity that cannot change hands still has its first   *)
(* owner; a claim was made by the owner of its identity, under the rules   *)
(* of its request, and spent that identity for the request.                *)
(***************************************************************************)
ClaimIdentity(c) ==
  LET claim == claims[c]
      identity == <<claim.agentRegistry, claim.agentId>>
      rules == requests[claim.requestId].eligibility
  IN
  claim.state # "None" =>
    /\ identity \in identityUsed[claim.requestId]
    /\ rules.identityRegistry \in {NoAddress, claim.agentRegistry}
    /\ rules.requiredAgentId \in {0, claim.agentId}
    /\ identity \notin Transferable => claim.auditor = InitialOwner[identity]

FixedOwners ==
  \A identity \in Identity \ Transferable :
    identityOwner[identity] = InitialOwner[identity]

IdentitiesInv ==
  /\ FixedOwners
  /\ \A c \in ClaimIds : ClaimIdentity(c)
  /\ OneClaimPerIdentity
  /\ RequiredIdentityIsUnchallenged

LEMMA RequestNextIdentities ==
  ASSUME ChainTypeOK, RequestShape, RequestsGivenOut, ClaimsGivenOut,
         ClaimsListed, IdentitiesInv, RequestNext, now' = now
  PROVE  IdentitiesInv'
<1>0. /\ nextRequestId \in 0..MaxRequests /\ nextClaimId \in 0..MaxClaims
      /\ MaxRequests \in Nat /\ MaxClaims \in Nat
      /\ \A c \in ClaimIds : c \in Nat /\ claims[c] \in ClaimRecord
      /\ \A r \in RequestIds : r \in Nat \ {0}
  BY ConstantTypes DEF RequestShape, ClaimIds, RequestIds
<1>1. \A r \in RequestIds : r <= nextRequestId =>
        requests'[r].eligibility = requests[r].eligibility
  BY RequestNextRequests DEF SameTerms
<1>2. /\ \A c \in ClaimIds : c <= nextClaimId => SameClaim(claims'[c], claims[c])
      /\ \A c \in ClaimIds : c > nextClaimId' => claims'[c] = NoClaim
  BY RequestNextClaims DEF ClaimsGivenOut
<1>3. \A c \in ClaimIds : c <= nextClaimId =>
        /\ claims[c].requestId \in RequestIds
        /\ claims[c].requestId <= nextRequestId
        /\ claims[c].state # "None"
  BY <1>0 DEF ClaimsGivenOut, RequestIds
<1>4. ASSUME NEW c \in ClaimIds, claims[c].requestId # 0 \/ claims[c].state # "None"
      PROVE  c <= nextClaimId
  BY <1>0, <1>4 DEF ClaimsGivenOut, NoClaim
\* A claim given out keeps its identity as long as no used identity is freed.
<1>a. ASSUME NEW c \in ClaimIds, c <= nextClaimId,
             \A r \in RequestIds : identityUsed[r] \subseteq identityUsed'[r]
      PROVE  ClaimIdentity(c)'
  <2>1. ClaimIdentity(c) /\ claims[c].state # "None"
    BY <1>a, <1>3 DEF IdentitiesInv
  <2>2. /\ SameClaim(claims'[c], claims[c])
        /\ claims[c].requestId \in RequestIds
        /\ requests'[claims[c].requestId].eligibility
             = requests[claims[c].requestId].eligibility
    BY <1>1, <1>2, <1>3, <1>a
  <2> QED BY <1>a, <2>1, <2>2 DEF ClaimIdentity, SameClaim
\* A call that submits no claim.
<1>b. ASSUME nextClaimId' = nextClaimId, identityUsed' = identityUsed
      PROVE  /\ \A c \in ClaimIds : ClaimIdentity(c)'
             /\ OneClaimPerIdentity'
  <2>1. ASSUME NEW c \in ClaimIds
        PROVE  ClaimIdentity(c)'
    <3>1. CASE c <= nextClaimId
      BY <1>a, <1>b, <3>1
    <3>2. CASE c > nextClaimId
      BY <1>2, <1>b, <3>2 DEF ClaimIdentity, NoClaim
    <3> QED BY <1>0, <3>1, <3>2
  <2>2. \A c \in ClaimIds : SameClaim(claims'[c], claims[c])
    <3>1. \A c \in ClaimIds : c > nextClaimId => claims[c] = NoClaim
      BY DEF ClaimsGivenOut
    <3> QED BY <1>0, <1>2, <1>b, <3>1 DEF SameClaim
  <2>3. OneClaimPerIdentity'
    BY <2>2 DEF IdentitiesInv, OneClaimPerIdentity, SameClaim
  <2> QED BY <2>1, <2>3
\* A call that challenges no claim.
<1>c. ASSUME \A c \in ClaimIds :
               claims'[c].state = "Challenged" => claims[c].state = "Challenged"
      PROVE  RequiredIdentityIsUnchallenged'
  <2> SUFFICES ASSUME NEW c \in ClaimIds, claims'[c].state = "Challenged"
               PROVE  LET rules == requests'[claims'[c].requestId].eligibility IN
                      \/ rules.identityRegistry = NoAddress
                      \/ rules.requiredAgentId = 0
                      \/ <<rules.identityRegistry, rules.requiredAgentId>>
                           \in Transferable
    BY DEF RequiredIdentityIsUnchallenged
  <2>1. claims[c].state = "Challenged" /\ c <= nextClaimId
    BY <1>c, <1>4
  <2>2. /\ claims'[c].requestId = claims[c].requestId
        /\ requests'[claims[c].requestId].eligibility
             = requests[claims[c].requestId].eligibility
    BY <1>1, <1>2, <1>3, <2>1 DEF SameClaim
  <2> QED BY <2>1, <2>2 DEF IdentitiesInv, RequiredIdentityIsUnchallenged
<1>5. ASSUME NEW sender \in Address, NEW value \in MsgValues,
             NEW requestId \in RequestIds,
             NEW registry \in Registry \cup {NoAddress},
             NEW agentId \in AgentId \cup {0},
             SubmitAuditRequestClaim(sender, value, requestId, registry, agentId)
      PROVE  IdentitiesInv'
  <2> DEFINE identity == <<registry, agentId>>
  <2>1. PICK n \in ClaimIds : n = nextClaimId + 1
    BY <1>0, <1>5 DEF SubmitAuditRequestClaim, ClaimIds
  <2>2. /\ \A c \in ClaimIds \ {n} : claims'[c] = claims[c]
        /\ claims'[n].requestId = requestId /\ claims'[n].state = "Submitted"
        /\ claims'[n].auditor = sender
        /\ claims'[n].agentRegistry = registry /\ claims'[n].agentId = agentId
    BY <1>5, <2>1 DEF SubmitAuditRequestClaim, RequestShape, NoClaim
  <2>3. /\ EligibleAuditor(requestId, sender, registry, agentId)
        /\ identity \notin identityUsed[requestId]
        /\ identityOwner' = identityOwner
        /\ nextClaimId' = n
    BY <1>5, <2>1 DEF SubmitAuditRequestClaim
  <2>4. identity \in Identity
    BY <2>3 DEF EligibleAuditor, Identity
  <2>5. /\ \A r \in RequestIds : identityUsed[r] \subseteq identityUsed'[r]
        /\ identity \in identityUsed'[requestId]
    BY <1>5 DEF SubmitAuditRequestClaim, Use, RequestShape
  <2>6. requestId <= nextRequestId
    <3>1. requests[requestId].createdAt # 0
      BY <1>5 DEF SubmitAuditRequestClaim
    <3> QED BY <1>0, <3>1 DEF RequestsGivenOut, NoRequest
  <2>7. FixedOwners'
    BY <2>3 DEF IdentitiesInv, FixedOwners
  <2>8. ClaimIdentity(n)'
    <3>1. requests'[requestId].eligibility = requests[requestId].eligibility
      BY <1>1, <2>6
    <3>2. identity \notin Transferable => sender = InitialOwner[identity]
      BY <2>3, <2>4 DEF EligibleAuditor, IdentitiesInv, FixedOwners
    <3> QED BY <2>2, <2>3, <2>5, <3>1, <3>2 DEF ClaimIdentity, EligibleAuditor
  <2>9. ASSUME NEW c \in ClaimIds
        PROVE  ClaimIdentity(c)'
    <3>1. CASE c <= nextClaimId
      BY <1>a, <2>5, <3>1
    <3>2. CASE c = n
      BY <2>8, <3>2
    <3>3. CASE c > n
      BY <1>2, <2>3, <3>3 DEF ClaimIdentity, NoClaim
    <3> QED BY <1>0, <2>1, <3>1, <3>2, <3>3
  <2>10. OneClaimPerIdentity'
    <3>1. ASSUME NEW c \in ClaimIds, c # n, claims[c].requestId = requestId
          PROVE  <<claims[c].agentRegistry, claims[c].agentId>> # identity
      <4>1. c <= nextClaimId
        BY <1>0, <1>4, <3>1
      <4>2. ClaimIdentity(c) /\ claims[c].state # "None"
        BY <1>3, <4>1 DEF IdentitiesInv
      <4> QED BY <2>3, <3>1, <4>2 DEF ClaimIdentity
    <3> QED
      BY <2>2, <3>1 DEF IdentitiesInv, OneClaimPerIdentity
  <2>11. RequiredIdentityIsUnchallenged'
    BY <1>c, <2>2
  <2> QED BY <2>7, <2>9, <2>10, <2>11 DEF IdentitiesInv
<1>6. ASSUME NEW sender \in Address, NEW value \in MsgValues,
             NEW claimId \in ClaimIds,
             NEW registry \in Registry \cup {NoAddress},
             NEW agentId \in AgentId \cup {0},
             ChallengeAuditRequestClaim(sender, value, claimId, registry, agentId)
      PROVE  IdentitiesInv'
  <2> DEFINE requestId == claims[claimId].requestId
             rules == requests[requestId].eligibility
  <2>1. /\ nextClaimId' = nextClaimId /\ identityUsed' = identityUsed
        /\ identityOwner' = identityOwner /\ requests' = requests
        /\ requestId # 0
        /\ claims[claimId].auditor # sender
        /\ EligibleAuditor(requestId, sender, registry, agentId)
        /\ \A c \in ClaimIds \ {claimId} : claims'[c] = claims[c]
    BY <1>6 DEF ChallengeAuditRequestClaim, RequestShape
  <2>2. ClaimIdentity(claimId) /\ claims[claimId].state # "None"
    BY <1>3, <1>4, <2>1 DEF IdentitiesInv
  <2>3. <<registry, agentId>> \in Identity
    BY <2>1 DEF EligibleAuditor, Identity
  <2>4. \/ rules.identityRegistry = NoAddress \/ rules.requiredAgentId = 0
        \/ <<rules.identityRegistry, rules.requiredAgentId>> \in Transferable
    BY <2>1, <2>2, <2>3
    DEF EligibleAuditor, ClaimIdentity, IdentitiesInv, FixedOwners
  <2>5. RequiredIdentityIsUnchallenged'
    <3>1. claims'[claimId].requestId = requestId
      BY <1>2, <1>4, <2>1 DEF SameClaim
    <3> HIDE DEF requestId
    <3> QED
      BY <2>1, <2>4, <3>1 DEF IdentitiesInv, RequiredIdentityIsUnchallenged
  <2> QED BY <1>b, <2>1, <2>5 DEF IdentitiesInv, FixedOwners
<1>7. ASSUME NEW sender \in Address, NEW claimId \in ClaimIds,
             NEW upheld \in BOOLEAN,
             ResolveAuditRequestClaimChallenge(sender, claimId, upheld)
      PROVE  IdentitiesInv'
  <2>1. /\ nextClaimId' = nextClaimId /\ identityUsed' = identityUsed
        /\ identityOwner' = identityOwner
        /\ \A c \in ClaimIds :
             claims'[c].state = "Challenged" => claims[c].state = "Challenged"
    BY <1>7 DEF ResolveAuditRequestClaimChallenge, RequestShape
  <2> QED BY <1>b, <1>c, <2>1 DEF IdentitiesInv, FixedOwners
<1>8. ASSUME NEW claimId \in ClaimIds, ExpireAuditRequestClaimChallenge(claimId)
      PROVE  IdentitiesInv'
  <2>1. /\ nextClaimId' = nextClaimId /\ identityUsed' = identityUsed
        /\ identityOwner' = identityOwner
        /\ \A c \in ClaimIds :
             claims'[c].state = "Challenged" => claims[c].state = "Challenged"
    BY <1>8 DEF ExpireAuditRequestClaimChallenge, RequestShape
  <2> QED BY <1>b, <1>c, <2>1 DEF IdentitiesInv, FixedOwners
<1>9. ASSUME NEW identity \in Transferable, NEW to \in Address,
             TransferIdentity(identity, to)
      PROVE  IdentitiesInv'
  <2>1. /\ nextClaimId' = nextClaimId /\ identityUsed' = identityUsed
        /\ claims' = claims
        /\ \A id \in Identity \ Transferable : identityOwner'[id] = identityOwner[id]
    BY <1>9 DEF TransferIdentity, RequestShape
  <2> QED BY <1>b, <1>c, <2>1 DEF IdentitiesInv, FixedOwners
<1>10. CASE \/ \E sender \in Address, value \in MsgValues, bountyAmount \in Bounties,
                  responseWindow \in ResponseWindows, eligibility \in Eligibilities :
                 CreateAuditRequest(sender, value, bountyAmount, responseWindow,
                                    eligibility)
            \/ \E sender \in Address : WithdrawExpiredChallengeBond(sender)
            \/ \E requestId \in RequestIds : ExpireAuditRequest(requestId)
            \/ \E sender \in Address, requestId \in RequestIds :
                 RefundExpiredAuditRequest(sender, requestId)
            \/ \E requestId \in RequestIds, maxClaims \in BatchSizes :
                 ClassifyAuditRequestClaims(requestId, maxClaims)
            \/ \E requestId \in RequestIds : FinalizeAuditRequestSettlement(requestId)
            \/ \E claimId \in ClaimIds : WithdrawAuditRequestClaimSettlement(claimId)
            \/ \E sender \in Address, requestId \in RequestIds :
                 WithdrawAuditRequestRefund(sender, requestId)
            \/ \E sender \in Address : WithdrawFees(sender)
  <2>1. UNCHANGED <<claims, nextClaimId, identityUsed, identityOwner>>
    BY <1>10, CallFrames
  <2> QED BY <1>b, <1>c, <2>1 DEF IdentitiesInv, FixedOwners
<1> QED
  BY <1>5, <1>6, <1>7, <1>8, <1>9, <1>10 DEF RequestNext

-----------------------------------------------------------------------------
(***************************************************************************)
(* Finality.  A classified claim was ready, and nothing a call or the      *)
(* clock does makes it unready: that is why the guard of a challenge and   *)
(* the readiness of a claim must part the windows at the same block.       *)
(***************************************************************************)
ClassifiedReady ==
  \A r \in RequestIds : \A c \in Classified(r) : ClaimReady(claims[c])

\* The cursor stands on the list, so what is classified is given out.
LEMMA ClassifiedGivenOut ==
  ASSUME RequestShape, ClaimsGivenOut, ClaimsListed, NEW r \in RequestIds
  PROVE  /\ Classified(r) \subseteq ClaimsOf(r)
         /\ \A c \in Classified(r) : c <= nextClaimId
<1>1. Classified(r) \subseteq ClaimsOf(r)
  <2>1. /\ settlements[r].classifiedClaimCount \in Nat
        /\ settlements[r].classifiedClaimCount <= Len(claimIds[r])
    BY CursorInList
  <2> QED BY <2>1, ListedClaims DEF Classified
<1>2. ASSUME NEW c \in ClaimsOf(r)
      PROVE  c <= nextClaimId
  <2>1. nextClaimId \in Nat /\ c \in Nat /\ r # 0 /\ claims[c].requestId = r
    BY ConstantTypes DEF RequestShape, ClaimsOf, ClaimIds, RequestIds
  <2> QED BY <2>1 DEF ClaimsGivenOut, NoClaim, ClaimsOf
<1> QED BY <1>1, <1>2

\* The claims of a batch are not classified yet, in any request.
LEMMA BatchIsNew ==
  ASSUME RequestShape, ClaimsGivenOut, ClaimsListed,
         NEW r \in RequestIds, NEW q \in RequestIds,
         NEW to \in Nat, to <= Len(claimIds[q]),
         NEW c \in ClaimsBetween(q, settlements[q].classifiedClaimCount, to)
  PROVE  c \in ClaimsOf(q) /\ c \notin Classified(r)
<1>1. /\ settlements[q].classifiedClaimCount \in Nat
      /\ settlements[r].classifiedClaimCount \in Nat
      /\ settlements[r].classifiedClaimCount <= Len(claimIds[r])
      /\ Len(claimIds[q]) \in Nat /\ Len(claimIds[r]) \in Nat
  BY CursorInList
<1>2. c \in ClaimsOf(q)
  BY <1>1, ListedClaims
<1>3. ASSUME c \in Classified(r)
      PROVE  FALSE
  <2>1. c \in ClaimsOf(r)
    BY <1>3, ClassifiedGivenOut
  <2>2. q = r
    BY <1>2, <2>1 DEF ClaimsOf
  <2>3. PICK i \in (settlements[q].classifiedClaimCount + 1)..to : claimIds[q][i] = c
    BY DEF ClaimsBetween
  <2>4. PICK j \in 1..settlements[q].classifiedClaimCount : claimIds[q][j] = c
    BY <1>3, <2>2 DEF Classified, ClaimsBetween
  <2>5. i \in 1..Len(claimIds[q]) /\ j \in 1..Len(claimIds[q]) /\ i # j
    BY <1>1, <2>2, <2>3, <2>4
  <2> QED BY <2>3, <2>4, <2>5 DEF ClaimsListed
<1> QED BY <1>2, <1>3

\* No call changes a classified claim, or whether it is eligible.
LEMMA RequestNextKeepsClassified ==
  ASSUME RequestShape, ClaimsGivenOut, ClaimsListed, ClassifiedReady, RequestNext,
         now' = now
  PROVE  \A r \in RequestIds : \A c \in Classified(r) :
           /\ claims'[c] = claims[c]
           /\ claimSettlements'[c].eligible = claimSettlements[c].eligible
<1> SUFFICES ASSUME NEW r \in RequestIds, NEW c \in Classified(r)
             PROVE  /\ claims'[c] = claims[c]
                    /\ claimSettlements'[c].eligible = claimSettlements[c].eligible
  OBVIOUS
<1>0. c \in ClaimIds /\ c <= nextClaimId /\ nextClaimId \in Nat /\ c \in Nat
  BY ClassifiedGivenOut, ConstantTypes DEF ClaimsOf, RequestShape, ClaimIds
<1>1. ClaimReady(claims[c])
  BY DEF ClassifiedReady
<1>2. ASSUME NEW sender \in Address, NEW value \in MsgValues,
             NEW requestId \in RequestIds,
             NEW registry \in Registry \cup {NoAddress},
             NEW agentId \in AgentId \cup {0},
             SubmitAuditRequestClaim(sender, value, requestId, registry, agentId)
      PROVE  claims'[c] = claims[c] /\ claimSettlements' = claimSettlements
  BY <1>0, <1>2 DEF SubmitAuditRequestClaim, RequestShape
<1>3. ASSUME NEW sender \in Address, NEW value \in MsgValues,
             NEW claimId \in ClaimIds, NEW registry, NEW agentId,
             ChallengeAuditRequestClaim(sender, value, claimId, registry, agentId)
      PROVE  claims'[c] = claims[c] /\ claimSettlements' = claimSettlements
  BY <1>0, <1>1, <1>3 DEF ChallengeAuditRequestClaim, ClaimReady, RequestShape
<1>4. ASSUME NEW sender \in Address, NEW claimId \in ClaimIds,
             NEW upheld \in BOOLEAN,
             ResolveAuditRequestClaimChallenge(sender, claimId, upheld)
      PROVE  claims'[c] = claims[c] /\ claimSettlements' = claimSettlements
  BY <1>0, <1>1, <1>4
  DEF ResolveAuditRequestClaimChallenge, ClaimReady, RequestShape
<1>5. ASSUME NEW claimId \in ClaimIds, ExpireAuditRequestClaimChallenge(claimId)
      PROVE  claims'[c] = claims[c] /\ claimSettlements' = claimSettlements
  BY <1>0, <1>1, <1>5
  DEF ExpireAuditRequestClaimChallenge, ClaimReady, RequestShape
<1>6. ASSUME NEW requestId \in RequestIds, NEW maxClaims \in BatchSizes,
             ClassifyAuditRequestClaims(requestId, maxClaims)
      PROVE  /\ claims'[c] = claims[c]
             /\ claimSettlements'[c].eligible = claimSettlements[c].eligible
  <2> DEFINE from == settlements[requestId].classifiedClaimCount
             to == TargetCursor(requestId, maxClaims)
  <2>1. to \in Nat /\ to <= Len(claimIds[requestId])
    BY CursorFacts
  <2>2. c \notin ClaimsBetween(requestId, from, to)
    BY <2>1, BatchIsNew
  <2>3. claims' = claims
        /\ \A d \in ClaimIds : d \notin ClaimsBetween(requestId, from, to) =>
             claimSettlements'[d] = claimSettlements[d]
    BY <1>6 DEF ClassifyAuditRequestClaims
  <2> QED BY <1>0, <2>2, <2>3
<1>7. ASSUME NEW claimId \in ClaimIds, WithdrawAuditRequestClaimSettlement(claimId)
      PROVE  /\ claims'[c] = claims[c]
             /\ claimSettlements'[c].eligible = claimSettlements[c].eligible
  BY <1>0, <1>7 DEF WithdrawAuditRequestClaimSettlement, RequestShape
<1>8. CASE \/ \E sender \in Address, value \in MsgValues, bountyAmount \in Bounties,
                 responseWindow \in ResponseWindows, eligibility \in Eligibilities :
                CreateAuditRequest(sender, value, bountyAmount, responseWindow,
                                   eligibility)
           \/ \E sender \in Address : WithdrawExpiredChallengeBond(sender)
           \/ \E requestId \in RequestIds : ExpireAuditRequest(requestId)
           \/ \E sender \in Address, requestId \in RequestIds :
                RefundExpiredAuditRequest(sender, requestId)
           \/ \E requestId \in RequestIds : FinalizeAuditRequestSettlement(requestId)
           \/ \E sender \in Address, requestId \in RequestIds :
                WithdrawAuditRequestRefund(sender, requestId)
           \/ \E sender \in Address : WithdrawFees(sender)
           \/ \E identity \in Transferable, to \in Address :
                TransferIdentity(identity, to)
  BY <1>8, CallFrames
<1> QED
  BY <1>2, <1>3, <1>4, <1>5, <1>6, <1>7, <1>8 DEF RequestNext

\* The claims that the next batch of a request takes.
NextBatch(r, maxClaims) ==
  ClaimsBetween(r, settlements[r].classifiedClaimCount, TargetCursor(r, maxClaims))

\* What the settlement of a request says of its classification.
SameClassification(new, old) ==
  /\ new.classifiedClaimCount = old.classifiedClaimCount
  /\ new.eligibleClaimCount = old.eligibleClaimCount
  /\ new.eligibleStakeTotal = old.eligibleStakeTotal

\* The cursor of a request moves with a batch and with nothing else: appending
\* a claim to the list leaves what is below the cursor alone.
LEMMA RequestNextClassified ==
  ASSUME RequestShape, ClaimsListed, RequestNext, NEW r \in RequestIds
  PROVE  \/ /\ Classified(r)' = Classified(r)
            /\ SameClassification(settlements'[r], settlements[r])
         \/ \E maxClaims \in BatchSizes :
              /\ ClassifyAuditRequestClaims(r, maxClaims)
              /\ Classified(r)' = Classified(r) \cup NextBatch(r, maxClaims)
<1> DEFINE Same == /\ Classified(r)' = Classified(r)
                   /\ SameClassification(settlements'[r], settlements[r])
<1>0. /\ settlements[r] \in SettlementShape
      /\ settlements[r].classifiedClaimCount \in Nat
      /\ settlements[r].classifiedClaimCount <= Len(claimIds[r])
      /\ claimIds[r] \in Seq(ClaimIds) /\ Len(claimIds[r]) \in Nat
  BY DEF RequestShape, SettlementShape, ClaimsListed
<1>a. ASSUME SameClassification(settlements'[r], settlements[r]),
             \A i \in 1..settlements[r].classifiedClaimCount :
               claimIds'[r][i] = claimIds[r][i]
      PROVE  Same
  BY <1>a DEF Classified, ClaimsBetween, SameClassification
<1>1. ASSUME NEW sender \in Address, NEW value \in MsgValues,
             NEW requestId \in RequestIds,
             NEW registry \in Registry \cup {NoAddress},
             NEW agentId \in AgentId \cup {0},
             SubmitAuditRequestClaim(sender, value, requestId, registry, agentId)
      PROVE  Same
  <2>1. nextClaimId + 1 \in ClaimIds
    BY <1>1, ConstantTypes DEF SubmitAuditRequestClaim, RequestShape, ClaimIds
  <2>2. /\ settlements' = settlements
        /\ \/ claimIds'[r] = claimIds[r]
           \/ claimIds'[r] = Append(claimIds[r], nextClaimId + 1)
    BY <1>1 DEF SubmitAuditRequestClaim, RequestShape
  <2>3. \A i \in 1..settlements[r].classifiedClaimCount :
          claimIds'[r][i] = claimIds[r][i]
    BY <1>0, <2>1, <2>2
  <2> QED BY <1>a, <2>2, <2>3 DEF SameClassification
<1>2. ASSUME NEW requestId \in RequestIds, NEW maxClaims \in BatchSizes,
             ClassifyAuditRequestClaims(requestId, maxClaims)
      PROVE  \/ Same
             \/ /\ r = requestId
                /\ Classified(r)' = Classified(r) \cup NextBatch(r, maxClaims)
  <2>1. claimIds' = claimIds
    BY <1>2 DEF ClassifyAuditRequestClaims
  <2>2. CASE r # requestId
    <3>1. settlements'[r] = settlements[r]
      BY <1>2, <2>2 DEF ClassifyAuditRequestClaims, RequestShape
    <3> QED BY <1>a, <2>1, <3>1 DEF SameClassification
  <2>3. CASE r = requestId
    <3> DEFINE from == settlements[r].classifiedClaimCount
               to == TargetCursor(r, maxClaims)
    <3>1. settlements'[r].classifiedClaimCount = to
      BY <1>0, <1>2, <2>3
      DEF ClassifyAuditRequestClaims, RequestShape, SettlementShape
    <3>2. from \in Nat /\ to \in Nat /\ from <= to
      BY <1>0, ConstantTypes DEF TargetCursor
    <3>3. /\ Classified(r)' = {claimIds[r][i] : i \in 1..to}
          /\ Classified(r) = {claimIds[r][i] : i \in 1..from}
          /\ NextBatch(r, maxClaims) = {claimIds[r][i] : i \in (from + 1)..to}
      BY <2>1, <3>1 DEF Classified, ClaimsBetween, NextBatch
    <3>4. \A i : i \in 1..to <=> i \in 1..from \/ i \in (from + 1)..to
      <4> HIDE DEF from, to
      <4> QED BY <3>2
    <3> HIDE DEF from, to
    <3>5. Classified(r)' = Classified(r) \cup NextBatch(r, maxClaims)
      BY <3>3, <3>4
    <3> QED BY <2>3, <3>5
  <2> QED BY <2>2, <2>3
<1>3. ASSUME NEW requestId \in RequestIds, FinalizeAuditRequestSettlement(requestId)
      PROVE  Same
  <2>1. claimIds' = claimIds
        /\ SameClassification(settlements'[r], settlements[r])
    BY <1>0, <1>3
    DEF FinalizeAuditRequestSettlement, RequestShape, SettlementShape,
        SameClassification
  <2> QED BY <1>a, <2>1
<1>4. ASSUME NEW claimId \in ClaimIds, WithdrawAuditRequestClaimSettlement(claimId)
      PROVE  Same
  <2>1. claimIds' = claimIds
        /\ SameClassification(settlements'[r], settlements[r])
    BY <1>0, <1>4
    DEF WithdrawAuditRequestClaimSettlement, AfterClaimWithdrawal, RequestShape,
        SettlementShape, SameClassification
  <2> QED BY <1>a, <2>1
<1>5. ASSUME NEW sender \in Address, NEW requestId \in RequestIds,
             WithdrawAuditRequestRefund(sender, requestId)
      PROVE  Same
  <2>1. claimIds' = claimIds
        /\ SameClassification(settlements'[r], settlements[r])
    BY <1>0, <1>5
    DEF WithdrawAuditRequestRefund, RequestShape, SettlementShape,
        SameClassification
  <2> QED BY <1>a, <2>1
<1>6. CASE \/ \E sender \in Address, value \in MsgValues, bountyAmount \in Bounties,
                 responseWindow \in ResponseWindows, eligibility \in Eligibilities :
                CreateAuditRequest(sender, value, bountyAmount, responseWindow,
                                   eligibility)
           \/ \E sender \in Address, value \in MsgValues, claimId \in ClaimIds,
                 registry \in Registry \cup {NoAddress},
                 agentId \in AgentId \cup {0} :
                ChallengeAuditRequestClaim(sender, value, claimId, registry, agentId)
           \/ \E sender \in Address, claimId \in ClaimIds, upheld \in BOOLEAN :
                ResolveAuditRequestClaimChallenge(sender, claimId, upheld)
           \/ \E claimId \in ClaimIds : ExpireAuditRequestClaimChallenge(claimId)
           \/ \E sender \in Address : WithdrawExpiredChallengeBond(sender)
           \/ \E requestId \in RequestIds : ExpireAuditRequest(requestId)
           \/ \E sender \in Address, requestId \in RequestIds :
                RefundExpiredAuditRequest(sender, requestId)
           \/ \E sender \in Address : WithdrawFees(sender)
           \/ \E identity \in Transferable, to \in Address :
                TransferIdentity(identity, to)
  <2>1. claimIds' = claimIds /\ settlements' = settlements
    BY <1>6, CallFrames
  <2> QED BY <1>a, <2>1 DEF SameClassification
<1> HIDE DEF Same
<1> SUFFICES \/ Same
             \/ \E maxClaims \in BatchSizes :
                  /\ ClassifyAuditRequestClaims(r, maxClaims)
                  /\ Classified(r)' = Classified(r) \cup NextBatch(r, maxClaims)
  BY DEF Same
<1>7. CASE \E requestId \in RequestIds, maxClaims \in BatchSizes :
             ClassifyAuditRequestClaims(requestId, maxClaims)
  <2>1. PICK requestId \in RequestIds, maxClaims \in BatchSizes :
          ClassifyAuditRequestClaims(requestId, maxClaims)
    BY <1>7
  <2>2. \/ Same
        \/ /\ r = requestId
           /\ Classified(r)' = Classified(r) \cup NextBatch(r, maxClaims)
    BY <2>1, <1>2
  <2>3. r = requestId => ClassifyAuditRequestClaims(r, maxClaims)
    BY <2>1
  <2> QED BY <2>2, <2>3
<1>8. CASE \E sender \in Address, value \in MsgValues, requestId \in RequestIds,
              registry \in Registry \cup {NoAddress}, agentId \in AgentId \cup {0} :
             SubmitAuditRequestClaim(sender, value, requestId, registry, agentId)
  BY <1>8, <1>1
<1>9. CASE \/ \E requestId \in RequestIds : FinalizeAuditRequestSettlement(requestId)
           \/ \E claimId \in ClaimIds : WithdrawAuditRequestClaimSettlement(claimId)
           \/ \E sender \in Address, requestId \in RequestIds :
                WithdrawAuditRequestRefund(sender, requestId)
  BY <1>9, <1>3, <1>4, <1>5
<1> QED BY <1>6, <1>7, <1>8, <1>9 DEF RequestNext, Same

LEMMA RequestNextReady ==
  ASSUME RequestShape, ClaimsGivenOut, ClaimsListed, ClassifiedReady, RequestNext,
         now' = now
  PROVE  ClassifiedReady'
<1> SUFFICES ASSUME NEW r \in RequestIds, NEW c \in Classified(r)'
             PROVE  ClaimReady(claims[c])'
  BY DEF ClassifiedReady
<1>1. CASE c \in Classified(r)
  <2>1. claims'[c] = claims[c] /\ ClaimReady(claims[c])
    BY <1>1, RequestNextKeepsClassified DEF ClassifiedReady
  <2> QED BY <2>1 DEF ClaimReady, Elapsed
<1>2. CASE c \notin Classified(r)
  <2>1. PICK maxClaims \in BatchSizes :
          /\ ClassifyAuditRequestClaims(r, maxClaims)
          /\ c \in NextBatch(r, maxClaims)
    BY <1>2, RequestNextClassified
  <2>2. claims' = claims /\ ClaimReady(claims[c])
    BY <2>1 DEF ClassifyAuditRequestClaims, NextBatch
  <2> QED BY <2>2 DEF ClaimReady, Elapsed
<1> QED BY <1>1, <1>2

-----------------------------------------------------------------------------
(***************************************************************************)
(* The invariant, and what it says of the properties.                      *)
(***************************************************************************)
RequestCore ==
  /\ ChainTypeOK
  /\ RequestShape
  /\ RequestsGivenOut
  /\ ClaimsGivenOut
  /\ ClaimsListed
  /\ RequestStages
  /\ ClaimWindows
  /\ IdentitiesInv
  /\ ClassifiedReady

LEMMA RequestCoreInit ==
  ASSUME ChainInit, RequestInit
  PROVE  RequestCore
<1>1. ChainTypeOK
  BY BoundAssumption DEF ChainInit, ChainTypeOK, Time
<1>2. /\ \A r \in RequestIds : /\ requests[r] = NoRequest
                               /\ claimIds[r] = <<>>
                               /\ settlements[r] = NoSettlement
                               /\ r \in Nat \ {0}
      /\ \A c \in ClaimIds :
           /\ claims[c] = NoClaim
           /\ claimSettlements[c] = [eligible |-> FALSE, withdrawn |-> FALSE]
           /\ c \in Nat \ {0}
      /\ nextRequestId = 0 /\ nextClaimId = 0 /\ identityOwner = InitialOwner
  BY ConstantTypes DEF RequestInit, RequestIds, ClaimIds
<1>3. RequestShape
  <2>1. NoRequest \in RequestShapeRecord
    BY DEF NoRequest, RequestShapeRecord, NoEligibility, EligibilityConfig,
           AnyAddress, RequestState
  <2>2. NoClaim \in ClaimRecord
    BY ConstantTypes DEF NoClaim, ClaimRecord, ClaimState, ClaimResolution,
                         AnyAddress
  <2>3. NoSettlement \in SettlementShape
    BY DEF NoSettlement, SettlementShape
  <2> QED
    BY <2>1, <2>2, <2>3, RequestConstantsAssumption
    DEF RequestInit, RequestShape, AnyAddress
<1>4. RequestsGivenOut /\ ClaimsGivenOut
  BY <1>2 DEF RequestsGivenOut, ClaimsGivenOut
<1>5. ClaimsListed
  BY <1>2 DEF ClaimsListed, NoRequest, NoSettlement, NoClaim
<1>6. RequestStages
  BY <1>2 DEF RequestStages, RequestStage, NoRequest, NoSettlement
<1>7. ClaimWindows
  BY <1>2 DEF ClaimWindows, ClaimWindow, NoClaim
<1>8. IdentitiesInv
  BY <1>2 DEF IdentitiesInv, FixedOwners, ClaimIdentity, OneClaimPerIdentity,
              RequiredIdentityIsUnchallenged, NoClaim
<1>9. ClassifiedReady
  BY <1>2 DEF ClassifiedReady, Classified, ClaimsBetween, NoSettlement
<1> QED BY <1>1, <1>3, <1>4, <1>5, <1>6, <1>7, <1>8, <1>9 DEF RequestCore

LEMMA RequestCoreNext ==
  ASSUME RequestCore, RequestNext, now' = now
  PROVE  RequestCore'
<1> USE DEF RequestCore
<1>1. RequestShape' /\ ChainTypeOK'
  BY RequestNextShape DEF ChainTypeOK
<1>2. RequestsGivenOut' /\ ClaimsGivenOut'
  BY RequestNextRequests, RequestNextClaims
<1>3. ClaimsListed' /\ RequestStages'
  BY RequestNextListed, RequestNextStages
<1>4. ClaimWindows' /\ IdentitiesInv' /\ ClassifiedReady'
  BY RequestNextWindows, RequestNextIdentities, RequestNextReady
<1> QED BY <1>1, <1>2, <1>3, <1>4

\* A later block ends windows and opens none, whatever else is in the balance.
LEMMA RequestCoreLater ==
  ASSUME RequestCore, now' \in Time, now <= now', balance' \in Nat,
         UNCHANGED requestVars
  PROVE  RequestCore'
<1> USE DEF RequestCore
<1>0. /\ now \in Nat /\ now' \in Nat /\ ChallengeWindow \in Nat
      /\ \A c \in ClaimIds : claims[c].submittedAt \in Nat
      /\ \A r \in RequestIds : /\ requests[r].createdAt \in Nat
                               /\ requests[r].responseWindowEnd \in Nat
  BY ConstantTypes
  DEF ChainTypeOK, Time, RequestShape, ClaimRecord, RequestShapeRecord
<1>1. ChainTypeOK' /\ RequestShape'
  BY DEF ChainTypeOK, requestVars, RequestShape
<1>2. RequestsGivenOut' /\ ClaimsGivenOut'
  BY <1>0 DEF requestVars, RequestsGivenOut, ClaimsGivenOut
<1>3. ClaimsListed'
  BY DEF requestVars, ClaimsListed
<1>4. RequestStages'
  BY <1>0 DEF requestVars, RequestStages, RequestStage
<1>5. ClaimWindows'
  BY <1>0 DEF requestVars, ClaimWindows, ClaimWindow
<1>6. IdentitiesInv'
  BY DEF requestVars, IdentitiesInv, FixedOwners, ClaimIdentity,
         OneClaimPerIdentity, RequiredIdentityIsUnchallenged
<1>7. ClassifiedReady'
  <2>1. /\ claims' = claims
        /\ \A r \in RequestIds : Classified(r)' = Classified(r)
    BY DEF requestVars, Classified, ClaimsBetween
  <2>2. \A r \in RequestIds : \A c \in Classified(r) : c \in ClaimIds
    BY ClassifiedGivenOut DEF ClaimsOf
  <2> QED BY <1>0, <2>1, <2>2 DEF ClassifiedReady, ClaimReady, Elapsed
<1> QED BY <1>1, <1>2, <1>3, <1>4, <1>5, <1>6, <1>7

LEMMA RequestCoreInductive ==
  ASSUME RequestCore, [RequestSystemNext]_RequestSystemVars
  PROVE  RequestCore'
<1>1. CASE RequestNext /\ UNCHANGED now
  BY <1>1, RequestCoreNext
<1>2. CASE LetTimePass
  <2>1. now' \in Time /\ now <= now' /\ balance' \in Nat
    BY <1>2, BoundAssumption
    DEF LetTimePass, AdvanceTime, RequestCore, ChainTypeOK, Time
  <2> QED BY <1>2, <2>1, RequestCoreLater DEF LetTimePass
<1>3. CASE UNCHANGED RequestSystemVars
  <2>1. now' \in Time /\ now <= now' /\ balance' \in Nat /\ UNCHANGED requestVars
    BY <1>3 DEF RequestSystemVars, RequestCore, ChainTypeOK, Time
  <2> QED BY <2>1, RequestCoreLater
<1> QED BY <1>1, <1>2, <1>3 DEF RequestSystemNext

\* The invariant is not more than the windows that the property is about.
LEMMA CoreKeepsWindows ==
  ASSUME RequestCore
  PROVE  WindowsAreKept
<1> USE DEF RequestCore
<1>1. ASSUME NEW r \in RequestIds, requests[r].state \in {"Expired", "Settled"}
      PROVE  /\ now > requests[r].responseWindowEnd
             /\ ~settlements[r].finalized => ClaimsOf(r) = {}
  <2>1. ~settlements[r].finalized => Len(claimIds[r]) = 0
    BY <1>1 DEF RequestStages, RequestStage
  <2>2. ~settlements[r].finalized => ClaimsOf(r) = {}
    BY <2>1 DEF ClaimsOf, ClaimsListed
  <2> QED BY <1>1, <2>2 DEF RequestStages, RequestStage
<1>2. ASSUME NEW c \in ClaimIds, claims[c].requestId # 0
      PROVE  claims[c].state # "None"
  <2>1. c \in Nat /\ nextClaimId \in Nat
    BY ConstantTypes DEF ClaimIds, RequestShape
  <2> QED BY <1>2, <2>1 DEF ClaimsGivenOut, NoClaim
<1> QED
  BY <1>1, <1>2 DEF WindowsAreKept, ClaimWindows, ClaimWindow

-----------------------------------------------------------------------------

\* A request is left open exactly as long as its window, its claims and their
\* challenges fall inside their windows, and one that is settled without
\* classification has no claim: for all windows, claims and interleavings.
THEOREM RequestWindowsAreKept == RequestSafetySpec => []WindowsAreKept
<1>1. RequestSystemInit => RequestCore
  BY RequestCoreInit DEF RequestSystemInit
<1>2. RequestCore => WindowsAreKept
  BY CoreKeepsWindows
<1> QED BY <1>1, <1>2, RequestCoreInductive, PTL DEF RequestSafetySpec

\* submitAuditRequestClaim spends the identity it is called under, so that no
\* request ever has two claims of one identity, however identities are sold.
THEOREM RequestHasOneClaimPerIdentity == RequestSafetySpec => []OneClaimPerIdentity
<1>1. RequestSystemInit => RequestCore
  BY RequestCoreInit DEF RequestSystemInit
<1>2. RequestCore => OneClaimPerIdentity
  BY DEF RequestCore, IdentitiesInv
<1> QED BY <1>1, <1>2, RequestCoreInductive, PTL DEF RequestSafetySpec

\* Where a request names an identity that cannot be sold, nobody but the
\* claimant passes the eligibility check of a challenge, so no claim of it is
\* ever challenged.
THEOREM RequiredIdentityBlocksChallenges ==
  RequestSafetySpec => []RequiredIdentityIsUnchallenged
<1>1. RequestSystemInit => RequestCore
  BY RequestCoreInit DEF RequestSystemInit
<1>2. RequestCore => RequiredIdentityIsUnchallenged
  BY DEF RequestCore, IdentitiesInv
<1> QED BY <1>1, <1>2, RequestCoreInductive, PTL DEF RequestSafetySpec

\* classifyAuditRequestClaims reads only claims that nothing changes any more:
\* whatever is called after a batch, the claims of the batch and what was
\* decided of them stay as they were.
THEOREM ClassificationIsFinal == RequestSafetySpec => ClassifiedClaimsAreFinal
<1> DEFINE Kept == \A r \in RequestIds : \A c \in Classified(r) :
                     /\ claims'[c] = claims[c]
                     /\ claimSettlements'[c].eligible = claimSettlements[c].eligible
<1>1. RequestSystemInit => RequestCore
  BY RequestCoreInit DEF RequestSystemInit
<1>2. RequestCore /\ [RequestSystemNext]_RequestSystemVars
        => [Kept]_RequestSystemVars
  <2> SUFFICES ASSUME RequestCore, RequestSystemNext
               PROVE  Kept
    OBVIOUS
  <2>1. CASE RequestNext /\ UNCHANGED now
    BY <2>1, RequestNextKeepsClassified DEF RequestCore
  <2>2. CASE LetTimePass
    BY <2>2 DEF LetTimePass, requestVars
  <2> QED BY <2>1, <2>2 DEF RequestSystemNext
<1> QED
  BY <1>1, <1>2, RequestCoreInductive, PTL
  DEF RequestSafetySpec, ClassifiedClaimsAreFinal

-----------------------------------------------------------------------------
(***************************************************************************)
(* The invariant: claims are well-typed records, and the slots above       *)
(* nextClaimId are blank, so that a submission overwrites nothing.         *)
(***************************************************************************)
ClaimsInv ==
  /\ now \in Nat
  /\ nextClaimId \in 0..MaxClaims
  /\ claims \in [ClaimIds -> ClaimRecord]
  /\ \A c \in ClaimIds : c > nextClaimId => claims[c] = NoClaim

\* The stage of each kind of claim, as separate facts.
LEMMA StageOfClaim ==
  ASSUME NEW claim \in ClaimRecord
  PROVE  /\ claim.state = "None" => ClaimStage(claim) = "None"
         /\ claim.state = "Submitted" => ClaimStage(claim) = "Published"
         /\ claim.state = "Challenged" => ClaimStage(claim) = "Challenged"
         /\ claim.state = "Slashed" => ClaimStage(claim) = "Upheld"
         /\ claim.state = "Resolved" => ClaimStage(claim) = "Rejected"
BY DEF ClaimStage

\* A call that rewrites one claim keeps the invariant, and is the lifecycle
\* step between the claim's stages.
LEMMA OneClaim ==
  ASSUME ClaimsInv, now' = now,
         nextClaimId' \in 0..MaxClaims, nextClaimId <= nextClaimId',
         NEW c \in ClaimIds, c <= nextClaimId',
         NEW claim \in ClaimRecord,
         claims' = [claims EXCEPT ![c] = claim]
  PROVE  /\ ClaimsInv'
         /\ RequestLifecycle!Move(c, ClaimStage(claims[c]), ClaimStage(claim))
<1>1. claims' \in [ClaimIds -> ClaimRecord]
  BY DEF ClaimsInv
<1>2. ASSUME NEW d \in ClaimIds, d > nextClaimId'
      PROVE  claims'[d] = NoClaim
  <2>1. d > nextClaimId /\ d # c
    BY <1>2, RequestConstantsAssumption DEF ClaimsInv, ClaimIds
  <2> QED BY <2>1 DEF ClaimsInv
<1>3. ClaimStages' = [ClaimStages EXCEPT ![c] = ClaimStage(claim)]
  BY <1>1 DEF ClaimStages, ClaimsInv
<1>4. ClaimStages[c] = ClaimStage(claims[c])
  BY DEF ClaimStages
<1>5. RequestLifecycle!Move(c, ClaimStage(claims[c]), ClaimStage(claim))
  BY <1>3, <1>4 DEF RequestLifecycle!Move
<1> QED BY <1>1, <1>2, <1>5 DEF ClaimsInv

\* A claim that is not blank has been given out.
LEMMA ClaimGivenOut ==
  ASSUME ClaimsInv, NEW c \in ClaimIds, claims[c].state # "None"
  PROVE  c <= nextClaimId
BY RequestConstantsAssumption DEF ClaimsInv, ClaimIds, NoClaim

-----------------------------------------------------------------------------
(***************************************************************************)
(* The four calls that rewrite a claim.                                    *)
(***************************************************************************)
LEMMA SubmitFollows ==
  ASSUME ClaimsInv, now' = now, NEW sender \in Address, NEW value \in MsgValues,
         NEW requestId \in RequestIds,
         NEW registry \in Registry \cup {NoAddress},
         NEW agentId \in AgentId \cup {0},
         SubmitAuditRequestClaim(sender, value, requestId, registry, agentId)
  PROVE  ClaimsInv' /\ \E c \in ClaimIds : RequestLifecycle!Publish(c)
<1> DEFINE c == nextClaimId + 1
           claim == [NoClaim EXCEPT !.requestId = requestId, !.auditor = sender,
                                    !.agentRegistry = registry,
                                    !.agentId = agentId, !.submittedAt = now,
                                    !.stakeAmount = value,
                                    !.state = "Submitted"]
<1>a. /\ nextClaimId < MaxClaims /\ nextClaimId' = c
      /\ claims' = [claims EXCEPT ![c] = claim]
  BY DEF SubmitAuditRequestClaim
<1>b. nextClaimId \in Nat /\ MaxClaims \in Nat /\ nextClaimId <= MaxClaims
  BY RequestConstantsAssumption DEF ClaimsInv
<1>1. /\ c \in ClaimIds /\ nextClaimId' = c
      /\ nextClaimId' \in 0..MaxClaims /\ nextClaimId <= nextClaimId'
      /\ c > nextClaimId
      /\ claims' = [claims EXCEPT ![c] = claim]
  BY <1>a, <1>b DEF ClaimIds
<1>2. claim \in ClaimRecord
  <2>1. requestId \in 0..MaxRequests
    BY RequestConstantsAssumption DEF RequestIds
  <2>2. now \in Nat /\ value \in Nat /\ 0 \in Nat
    BY BoundAssumption DEF ClaimsInv
  <2>3. sender \in AnyAddress /\ NoAddress \in AnyAddress
    BY DEF AnyAddress
  <2>4. "Submitted" \in ClaimState
    BY DEF ClaimState
  <2> DEFINE named == [NoClaim EXCEPT !.requestId = requestId, !.auditor = sender,
                                      !.agentRegistry = registry,
                                      !.agentId = agentId]
  <2>5. NoClaim \in ClaimRecord
    BY <2>2, <2>3, RequestConstantsAssumption
    DEF NoClaim, ClaimRecord, ClaimState, ClaimResolution
  <2>6. named \in ClaimRecord
    BY <2>1, <2>3, <2>5 DEF ClaimRecord
  <2>7. claim = [named EXCEPT !.submittedAt = now, !.stakeAmount = value,
                              !.state = "Submitted"]
    OBVIOUS
  <2> HIDE DEF named, claim
  <2> QED BY <2>2, <2>4, <2>6, <2>7 DEF ClaimRecord
<1>3. claims[c] = NoClaim /\ claims[c] \in ClaimRecord
  BY <1>1 DEF ClaimsInv
<1>4. claims[c].state = "None" /\ claim.state = "Submitted"
  BY <1>3 DEF NoClaim
<1>5. c <= nextClaimId'
  BY <1>1
<1> HIDE DEF c, claim
<1>6. ClaimStage(claims[c]) = "None" /\ ClaimStage(claim) = "Published"
  BY <1>2, <1>3, <1>4, StageOfClaim
<1> QED BY <1>1, <1>2, <1>5, <1>6, OneClaim DEF RequestLifecycle!Publish

LEMMA ChallengeFollows ==
  ASSUME ClaimsInv, now' = now, NEW sender \in Address, NEW value \in MsgValues,
         NEW c \in ClaimIds, NEW registry, NEW agentId,
         ChallengeAuditRequestClaim(sender, value, c, registry, agentId)
  PROVE  ClaimsInv' /\ RequestLifecycle!Challenge(c)
<1> DEFINE claim == [claims[c] EXCEPT !.state = "Challenged",
                                      !.challengedAt = now,
                                      !.challengeBond = value,
                                      !.challenger = sender]
<1>1. /\ claims' = [claims EXCEPT ![c] = claim]
      /\ nextClaimId' = nextClaimId
      /\ claims[c].state = "Submitted"
  BY DEF ChallengeAuditRequestClaim
<1>2. claims[c] \in ClaimRecord
  BY DEF ClaimsInv
<1>3. claim \in ClaimRecord /\ claim.state = "Challenged"
  BY <1>2, BoundAssumption DEF ClaimsInv, ClaimRecord, ClaimState, AnyAddress
<1>4. c <= nextClaimId'
  BY <1>1, ClaimGivenOut
<1> HIDE DEF claim
<1>5. ClaimStage(claims[c]) = "Published" /\ ClaimStage(claim) = "Challenged"
  BY <1>1, <1>2, <1>3, StageOfClaim
<1>6. nextClaimId' \in 0..MaxClaims /\ nextClaimId <= nextClaimId'
  BY <1>1, RequestConstantsAssumption DEF ClaimsInv
<1> QED
  BY <1>1, <1>3, <1>4, <1>5, <1>6, OneClaim DEF RequestLifecycle!Challenge

LEMMA ResolveFollows ==
  ASSUME ClaimsInv, now' = now, NEW sender \in Address, NEW c \in ClaimIds,
         NEW upheld \in BOOLEAN,
         ResolveAuditRequestClaimChallenge(sender, c, upheld)
  PROVE  ClaimsInv' /\ RequestLifecycle!Resolve(c, upheld)
<1> DEFINE claim == [claims[c] EXCEPT
                       !.state = IF upheld THEN "Slashed" ELSE "Resolved",
                       !.resolution = IF upheld THEN "ChallengeUpheld"
                                                ELSE "ChallengeRejected"]
<1>1. /\ claims' = [claims EXCEPT ![c] = claim]
      /\ nextClaimId' = nextClaimId
      /\ claims[c].state = "Challenged"
  BY DEF ResolveAuditRequestClaimChallenge
<1>2. claims[c] \in ClaimRecord
  BY DEF ClaimsInv
<1>3. /\ claim \in ClaimRecord
      /\ claim.state = IF upheld THEN "Slashed" ELSE "Resolved"
  BY <1>2 DEF ClaimRecord, ClaimState, ClaimResolution
<1>4. c <= nextClaimId'
  BY <1>1, ClaimGivenOut
<1> HIDE DEF claim
<1>5. /\ ClaimStage(claims[c]) = "Challenged"
      /\ ClaimStage(claim) = IF upheld THEN "Upheld" ELSE "Rejected"
  BY <1>1, <1>2, <1>3, StageOfClaim
<1>6. nextClaimId' \in 0..MaxClaims /\ nextClaimId <= nextClaimId'
  BY <1>1, RequestConstantsAssumption DEF ClaimsInv
<1> QED
  BY <1>1, <1>3, <1>4, <1>5, <1>6, OneClaim DEF RequestLifecycle!Resolve

LEMMA ExpireFollows ==
  ASSUME ClaimsInv, now' = now, NEW c \in ClaimIds,
         ExpireAuditRequestClaimChallenge(c)
  PROVE  ClaimsInv' /\ RequestLifecycle!Expire(c)
<1> DEFINE claim == [claims[c] EXCEPT !.state = "Submitted",
                                      !.challengedAt = 0,
                                      !.challengeBond = 0,
                                      !.challenger = NoAddress]
<1>1. /\ claims' = [claims EXCEPT ![c] = claim]
      /\ nextClaimId' = nextClaimId
      /\ claims[c].state = "Challenged"
  BY DEF ExpireAuditRequestClaimChallenge
<1>2. claims[c] \in ClaimRecord
  BY DEF ClaimsInv
<1>3. claim \in ClaimRecord /\ claim.state = "Submitted"
  BY <1>2 DEF ClaimRecord, ClaimState, AnyAddress
<1>4. c <= nextClaimId'
  BY <1>1, ClaimGivenOut
<1> HIDE DEF claim
<1>5. ClaimStage(claims[c]) = "Challenged" /\ ClaimStage(claim) = "Published"
  BY <1>1, <1>2, <1>3, StageOfClaim
<1>6. nextClaimId' \in 0..MaxClaims /\ nextClaimId <= nextClaimId'
  BY <1>1, RequestConstantsAssumption DEF ClaimsInv
<1> QED
  BY <1>1, <1>3, <1>4, <1>5, <1>6, OneClaim DEF RequestLifecycle!Expire

-----------------------------------------------------------------------------
(***************************************************************************)
(* The other calls leave every claim alone.                                *)
(***************************************************************************)
LEMMA RequestNextFollows ==
  ASSUME ClaimsInv, now' = now, RequestNext
  PROVE  ClaimsInv' /\ [RequestLifecycle!LifecycleNext]_ClaimStages
<1>1. ClaimIds = RequestLifecycle!Entries
  BY DEF RequestLifecycle!Entries
<1>2. ASSUME UNCHANGED <<claims, nextClaimId>>
      PROVE  ClaimsInv' /\ [RequestLifecycle!LifecycleNext]_ClaimStages
  BY <1>2 DEF ClaimsInv, ClaimStages
<1>3. CASE \E sender \in Address, value \in MsgValues, requestId \in RequestIds,
              registry \in Registry \cup {NoAddress}, agentId \in AgentId \cup {0} :
             SubmitAuditRequestClaim(sender, value, requestId, registry, agentId)
  BY <1>1, <1>3, SubmitFollows DEF RequestLifecycle!LifecycleNext
<1>4. CASE \E sender \in Address, value \in MsgValues, claimId \in ClaimIds,
              registry \in Registry \cup {NoAddress}, agentId \in AgentId \cup {0} :
             ChallengeAuditRequestClaim(sender, value, claimId, registry, agentId)
  BY <1>1, <1>4, ChallengeFollows DEF RequestLifecycle!LifecycleNext
<1>5. CASE \E sender \in Address, claimId \in ClaimIds, upheld \in BOOLEAN :
             ResolveAuditRequestClaimChallenge(sender, claimId, upheld)
  BY <1>1, <1>5, ResolveFollows DEF RequestLifecycle!LifecycleNext
<1>6. CASE \E claimId \in ClaimIds : ExpireAuditRequestClaimChallenge(claimId)
  BY <1>1, <1>6, ExpireFollows DEF RequestLifecycle!LifecycleNext
<1>7. CASE \/ \E sender \in Address, value \in MsgValues, bountyAmount \in Bounties,
                 responseWindow \in ResponseWindows, eligibility \in Eligibilities :
                CreateAuditRequest(sender, value, bountyAmount, responseWindow,
                                   eligibility)
           \/ \E sender \in Address : WithdrawExpiredChallengeBond(sender)
           \/ \E requestId \in RequestIds : ExpireAuditRequest(requestId)
           \/ \E sender \in Address, requestId \in RequestIds :
                RefundExpiredAuditRequest(sender, requestId)
           \/ \E requestId \in RequestIds, maxClaims \in BatchSizes :
                ClassifyAuditRequestClaims(requestId, maxClaims)
           \/ \E requestId \in RequestIds :
                FinalizeAuditRequestSettlement(requestId)
           \/ \E claimId \in ClaimIds :
                WithdrawAuditRequestClaimSettlement(claimId)
           \/ \E sender \in Address, requestId \in RequestIds :
                WithdrawAuditRequestRefund(sender, requestId)
           \/ \E sender \in Address : WithdrawFees(sender)
           \/ \E identity \in Transferable, to \in Address :
                TransferIdentity(identity, to)
  <2>1. UNCHANGED <<claims, nextClaimId>>
    BY <1>7, CallFrames
  <2> QED BY <2>1, <1>2
<1> QED BY <1>3, <1>4, <1>5, <1>6, <1>7 DEF RequestNext

\* The marketplace flow implements the lifecycle of a claim: through every
\* submission, challenge, verdict, expiry and settlement a claim moves only as
\* AuditLifecycle allows, and once ruled on it stays ruled on.
THEOREM RequestImplementsLifecycle ==
  RequestSafetySpec => ClaimsFollowLifecycle
<1>1. RequestSystemInit => ClaimsInv
  BY RequestConstantsAssumption
  DEF RequestSystemInit, ChainInit, RequestInit, ClaimsInv, NoClaim, ClaimRecord,
      ClaimState, ClaimResolution, AnyAddress
<1>2. RequestSystemInit => RequestLifecycle!LifecycleInit
  BY DEF RequestSystemInit, RequestInit, RequestLifecycle!LifecycleInit,
         RequestLifecycle!Entries, ClaimStages, ClaimStage, NoClaim
<1>3. ClaimsInv /\ [RequestSystemNext]_RequestSystemVars
        => ClaimsInv' /\ [RequestLifecycle!LifecycleNext]_ClaimStages
  <2> SUFFICES ASSUME ClaimsInv, [RequestSystemNext]_RequestSystemVars
               PROVE  ClaimsInv' /\ [RequestLifecycle!LifecycleNext]_ClaimStages
    OBVIOUS
  <2>1. CASE RequestNext /\ UNCHANGED now
    BY <2>1, RequestNextFollows
  <2>2. CASE UNCHANGED <<claims, nextClaimId>> /\ now' \in Nat
    BY <2>2 DEF ClaimsInv, ClaimStages
  <2>3. CASE LetTimePass
    BY <2>2, <2>3 DEF LetTimePass, AdvanceTime, requestVars, ClaimsInv
  <2>4. CASE UNCHANGED RequestSystemVars
    BY <2>2, <2>4 DEF RequestSystemVars, requestVars, ClaimsInv
  <2> QED BY <2>1, <2>3, <2>4 DEF RequestSystemNext
<1> QED
  BY <1>1, <1>2, <1>3, PTL
  DEF RequestSafetySpec, ClaimsFollowLifecycle, RequestLifecycle!LifecycleSpec

-----------------------------------------------------------------------------
(***************************************************************************)
(* The rules of a request as RequestMarketplace has them: that module      *)
(* reduces submitAuditRequestClaim to ContractAdmits.                      *)
(***************************************************************************)
Marketplace == INSTANCE RequestEligibility WITH Service <- {}

\* An identity of the registries, and the absence of one.
AsIdentity(registry, agentId) ==
  IF registry = NoAddress \/ agentId = 0 THEN Marketplace!NoIdentity
  ELSE Marketplace!Identity(agentId, registry)

AsRules(config) ==
  [minimumStake |-> config.minimumStakeAmount,
   allowlist    |-> config.allowlistEnabled,
   allowlisted  |-> config.allowlistedAuditors,
   required     |-> AsIdentity(config.identityRegistry, config.requiredAgentId)]

Owners ==
  [identity \in {Marketplace!Identity(i[2], i[1]) : i \in Identity}
     |-> identityOwner[<<identity.registry, identity.agent>>]]

\* The reduced contract that the API's marketplace is checked against admits
\* exactly the claimants and stakes that submitAuditRequestClaim admits, on a
\* request that requires a whole identity or none, as the API opens them.
THEOREM ReducedContractAgrees ==
  ASSUME RequestTypeOK, NEW r \in RequestIds, NEW sender \in Address,
         NEW value \in Nat, NEW registry \in Registry \cup {NoAddress},
         NEW agentId \in AgentId \cup {0},
         requests[r].eligibility.identityRegistry = NoAddress
           <=> requests[r].eligibility.requiredAgentId = 0
  PROVE  /\ EligibleAuditor(r, sender, registry, agentId)
         /\ value >= MinimumStake(r)
         <=> Marketplace!ContractAdmits(AsRules(requests[r].eligibility),
                                        AsIdentity(registry, agentId),
                                        sender, value, Owners)
<1> DEFINE config == requests[r].eligibility
           named == AsIdentity(registry, agentId)
           required == AsIdentity(config.identityRegistry, config.requiredAgentId)
<1>0. /\ config \in EligibilityConfig
      /\ config.minimumStakeAmount \in Nat
      /\ RequiredStake \in Nat
      /\ NoAddress \notin Registry /\ 0 \notin AgentId
  BY ParameterAssumption, RequestConstantsAssumption
  DEF RequestTypeOK, RequestRecord, EligibilityConfig
<1>1. named # Marketplace!NoIdentity <=> registry # NoAddress /\ agentId # 0
  BY DEF AsIdentity, Marketplace!NoIdentity, Marketplace!Identity
<1>2. required # Marketplace!NoIdentity
        <=> config.identityRegistry # NoAddress /\ config.requiredAgentId # 0
  BY DEF AsIdentity, Marketplace!NoIdentity, Marketplace!Identity
<1>3. ASSUME registry # NoAddress, agentId # 0,
             config.identityRegistry # NoAddress, config.requiredAgentId # 0
      PROVE  named = required <=> /\ registry = config.identityRegistry
                                  /\ agentId = config.requiredAgentId
  <2>1. /\ named = [agent |-> agentId, registry |-> registry]
        /\ required = [agent    |-> config.requiredAgentId,
                       registry |-> config.identityRegistry]
    BY <1>3 DEF AsIdentity, Marketplace!Identity
  <2> QED BY <2>1
<1>4. ASSUME registry # NoAddress, agentId # 0
      PROVE  Owners[named] = identityOwner[<<registry, agentId>>]
  <2>1. <<registry, agentId>> \in Identity
    BY <1>0, <1>4 DEF Identity
  <2>2. /\ named = Marketplace!Identity(agentId, registry)
        /\ named.registry = registry /\ named.agent = agentId
    BY <1>4 DEF AsIdentity, Marketplace!Identity
  <2>3. named \in {Marketplace!Identity(i[2], i[1]) : i \in Identity}
    BY <2>1, <2>2
  <2> HIDE DEF named
  <2> QED BY <2>2, <2>3 DEF Owners
<1>5. value >= MinimumStake(r)
        <=> value >= RequiredStake /\ value >= config.minimumStakeAmount
  BY <1>0 DEF MinimumStake
<1>6. Marketplace!ContractAdmits(AsRules(config), named, sender, value, Owners)
        <=> /\ named # Marketplace!NoIdentity
            /\ config.allowlistEnabled => sender \in config.allowlistedAuditors
            /\ required # Marketplace!NoIdentity => named = required
            /\ Owners[named] = sender
            /\ value >= RequiredStake /\ value >= config.minimumStakeAmount
  BY DEF Marketplace!ContractAdmits, AsRules
<1>7. EligibleAuditor(r, sender, registry, agentId)
        <=> /\ registry # NoAddress
            /\ agentId # 0
            /\ config.allowlistEnabled => sender \in config.allowlistedAuditors
            /\ config.identityRegistry # NoAddress
                 => config.identityRegistry = registry
            /\ config.requiredAgentId # 0 => config.requiredAgentId = agentId
            /\ identityOwner[<<registry, agentId>>] = sender
  BY DEF EligibleAuditor
<1> HIDE DEF config, named, required
<1>8. config.identityRegistry = NoAddress <=> config.requiredAgentId = 0
  BY DEF config
<1>9. /\ EligibleAuditor(r, sender, registry, agentId)
      /\ value >= MinimumStake(r)
      <=> Marketplace!ContractAdmits(AsRules(config), named, sender, value, Owners)
  BY <1>1, <1>2, <1>3, <1>4, <1>5, <1>6, <1>7, <1>8
<1> QED BY <1>9 DEF config, named
=============================================================================
