-------------------------- MODULE RequestEscrowProofs --------------------------
(***************************************************************************)
(* What the amounts of the marketplace flow add up to, for every set of    *)
(* accounts, identities, rules, windows and amounts and every number of    *)
(* requests and claims: the totals that batches accumulate are those of a  *)
(* single pass, the shares fit into the bounty, and the contract holds     *)
(* exactly what it owes.                                                   *)
(*                                                                         *)
(* The proofs stand on RequestCore, the invariant of                       *)
(* RequestInvariantProofs, and add to it what classification has counted   *)
(* (RequestTotals) and what withdrawals have paid (RequestFigures).        *)
(***************************************************************************)
EXTENDS RequestInvariantProofs

\* The classified claims that the arbiter did not slash.
Survivors(r) == {c \in Classified(r) : claims[c].state # "Slashed"}

WithdrawnClaims(r) == {c \in ClaimsOf(r) : claimSettlements[c].withdrawn}

RequestTotal(r) ==
  /\ EligibleClaims(r) = Survivors(r)
  /\ settlements[r].eligibleClaimCount = Cardinality(Survivors(r))
  /\ settlements[r].eligibleStakeTotal = StakeOf(Survivors(r))

RequestTotals == \A r \in RequestIds : RequestTotal(r)

-----------------------------------------------------------------------------
(***************************************************************************)
(* What classification counts.                                             *)
(***************************************************************************)

\* Only a batch decides whether a claim is eligible.
LEMMA EligibleMoves ==
  ASSUME RequestShape, RequestNext, NEW c \in ClaimIds
  PROVE  \/ claimSettlements'[c].eligible = claimSettlements[c].eligible
         \/ \E q \in RequestIds, maxClaims \in BatchSizes :
              /\ ClassifyAuditRequestClaims(q, maxClaims)
              /\ c \in NextBatch(q, maxClaims)
<1> DEFINE Kept == claimSettlements'[c].eligible = claimSettlements[c].eligible
<1>1. ASSUME NEW q \in RequestIds, NEW maxClaims \in BatchSizes,
             ClassifyAuditRequestClaims(q, maxClaims)
      PROVE  c \in NextBatch(q, maxClaims) \/ Kept
  BY <1>1 DEF ClassifyAuditRequestClaims, NextBatch
<1>2. ASSUME NEW claimId \in ClaimIds, WithdrawAuditRequestClaimSettlement(claimId)
      PROVE  Kept
  BY <1>2 DEF WithdrawAuditRequestClaimSettlement, RequestShape
<1>3. ASSUME claimSettlements' = claimSettlements
      PROVE  Kept
  BY <1>3
<1>4. CASE \E sender \in Address, value \in MsgValues, bountyAmount \in Bounties,
              responseWindow \in ResponseWindows, eligibility \in Eligibilities :
             CreateAuditRequest(sender, value, bountyAmount, responseWindow,
                                eligibility)
  BY <1>3, <1>4 DEF CreateAuditRequest
<1>9. CASE \E sender \in Address, value \in MsgValues, requestId \in RequestIds,
              registry \in Registry \cup {NoAddress}, agentId \in AgentId \cup {0} :
             SubmitAuditRequestClaim(sender, value, requestId, registry, agentId)
  BY <1>3, <1>9 DEF SubmitAuditRequestClaim
<1>10. CASE \E sender \in Address, value \in MsgValues, claimId \in ClaimIds,
               registry \in Registry \cup {NoAddress}, agentId \in AgentId \cup {0} :
              ChallengeAuditRequestClaim(sender, value, claimId, registry, agentId)
  BY <1>3, <1>10 DEF ChallengeAuditRequestClaim
<1>8. CASE \/ \E sender \in Address, claimId \in ClaimIds, upheld \in BOOLEAN :
                ResolveAuditRequestClaimChallenge(sender, claimId, upheld)
           \/ \E claimId \in ClaimIds : ExpireAuditRequestClaimChallenge(claimId)
  BY <1>3, <1>8
  DEF ResolveAuditRequestClaimChallenge, ExpireAuditRequestClaimChallenge
<1>7. CASE \/ \E sender \in Address : WithdrawExpiredChallengeBond(sender)
           \/ \E requestId \in RequestIds : ExpireAuditRequest(requestId)
           \/ \E sender \in Address, requestId \in RequestIds :
                RefundExpiredAuditRequest(sender, requestId)
           \/ \E requestId \in RequestIds : FinalizeAuditRequestSettlement(requestId)
           \/ \E sender \in Address, requestId \in RequestIds :
                WithdrawAuditRequestRefund(sender, requestId)
           \/ \E sender \in Address : WithdrawFees(sender)
           \/ \E identity \in Transferable, to \in Address :
                TransferIdentity(identity, to)
  BY <1>3, <1>7
  DEF WithdrawExpiredChallengeBond, ExpireAuditRequest,
      RefundExpiredAuditRequest, FinalizeAuditRequestSettlement,
      WithdrawAuditRequestRefund, WithdrawFees, TransferIdentity
<1> HIDE DEF Kept
<1>5. CASE \E q \in RequestIds, maxClaims \in BatchSizes :
             ClassifyAuditRequestClaims(q, maxClaims)
  BY <1>1, <1>5 DEF Kept
<1>6. CASE \E claimId \in ClaimIds : WithdrawAuditRequestClaimSettlement(claimId)
  BY <1>2, <1>6 DEF Kept
<1> QED BY <1>4, <1>5, <1>6, <1>7, <1>8, <1>9, <1>10 DEF RequestNext, Kept

\* A claim belongs to the same request from its submission on.
LEMMA RequestOfClaim ==
  ASSUME RequestCore, RequestNext, now' = now, NEW r \in RequestIds,
         NEW c \in ClaimIds
  PROVE  /\ c \in ClaimsOf(r) => c <= nextClaimId /\ claims'[c].requestId = r
                                 /\ claims'[c].stakeAmount = claims[c].stakeAmount
         /\ c <= nextClaimId /\ claims'[c].requestId = r => c \in ClaimsOf(r)
<1> USE DEF RequestCore
<1>0. c \in Nat /\ nextClaimId \in Nat /\ r # 0
  BY ConstantTypes DEF RequestShape, ClaimIds, RequestIds
<1>1. c \in ClaimsOf(r) => c <= nextClaimId
  BY <1>0 DEF ClaimsGivenOut, ClaimsOf, NoClaim
<1>2. c <= nextClaimId => SameClaim(claims'[c], claims[c])
  BY RequestNextClaims
<1> QED BY <1>1, <1>2 DEF ClaimsOf, SameClaim

\* The cursor of a request keeps, or moves with a batch, which it covers.
LEMMA BatchMovesCursor ==
  ASSUME RequestShape, NEW q \in RequestIds, NEW maxClaims \in BatchSizes,
         ClassifyAuditRequestClaims(q, maxClaims)
  PROVE  /\ TargetCursor(q, maxClaims) \in Nat
         /\ TargetCursor(q, maxClaims) <= Len(claimIds[q])
         /\ settlements'[q].classifiedClaimCount # settlements[q].classifiedClaimCount
         /\ ~settlements[q].finalized
<1>1. /\ settlements[q] \in SettlementShape /\ Len(claimIds[q]) \in Nat
      /\ settlements[q].classifiedClaimCount \in Nat /\ maxClaims \in Nat
  BY ConstantTypes DEF RequestShape, SettlementShape
<1>2. settlements'[q].classifiedClaimCount = TargetCursor(q, maxClaims)
  BY <1>1 DEF ClassifyAuditRequestClaims, RequestShape, SettlementShape
<1>3. /\ maxClaims # 0 /\ settlements[q].classifiedClaimCount < Len(claimIds[q])
      /\ ~settlements[q].finalized
  BY DEF ClassifyAuditRequestClaims
<1> QED BY <1>1, <1>2, <1>3 DEF TargetCursor

\* The stakes of given claims add up to the same before and after a call.
LEMMA SameStakes ==
  ASSUME NEW S \in SUBSET ClaimIds,
         \A c \in S : claims'[c].stakeAmount = claims[c].stakeAmount
  PROVE  SumFunctionOnSet([c \in ClaimIds |-> claims'[c].stakeAmount], S)
           = SumFunctionOnSet([c \in ClaimIds |-> claims[c].stakeAmount], S)
<1> DEFINE f == [c \in ClaimIds |-> claims'[c].stakeAmount]
           g == [c \in ClaimIds |-> claims[c].stakeAmount]
<1>1. IsFiniteSet(S) /\ \A c \in S : f[c] = g[c]
  BY ConstantTypes, FS_Subset
<1> HIDE DEF f, g
<1>2. SumFunctionOnSet(f, S) = SumFunctionOnSet(g, S)
  BY <1>1, SumSame
<1> QED BY <1>2 DEF f, g

\* While the cursor of a request rests, so do its survivors and its totals.
LEMMA TotalKept ==
  ASSUME RequestCore, RequestTotals, RequestNext, now' = now, NEW r \in RequestIds,
         Classified(r)' = Classified(r),
         SameClassification(settlements'[r], settlements[r])
  PROVE  /\ RequestTotal(r)'
         /\ Survivors(r)' = Survivors(r)
         /\ EligibleClaims(r)' = EligibleClaims(r)
<1> USE DEF RequestCore
<1>1. /\ Survivors(r) \subseteq Classified(r) /\ Survivors(r) \in SUBSET ClaimIds
      /\ \A c \in Classified(r) : claims'[c] = claims[c]
  BY ClassifiedGivenOut, RequestNextKeepsClassified DEF Survivors, ClaimsOf
<1>2. Survivors(r)' = Survivors(r)
  BY <1>1 DEF Survivors
<1>3. ASSUME NEW c \in ClaimIds, claims'[c].requestId = r \/ c \in ClaimsOf(r)
      PROVE  claimSettlements'[c].eligible = claimSettlements[c].eligible
  <2> SUFFICES ASSUME NEW q \in RequestIds, NEW maxClaims \in BatchSizes,
                      ClassifyAuditRequestClaims(q, maxClaims),
                      c \in NextBatch(q, maxClaims)
               PROVE  FALSE
    BY EligibleMoves
  <2>1. /\ TargetCursor(q, maxClaims) \in Nat
        /\ TargetCursor(q, maxClaims) <= Len(claimIds[q])
        /\ settlements'[q].classifiedClaimCount # settlements[q].classifiedClaimCount
    BY BatchMovesCursor
  <2>2. c \in ClaimsOf(q)
    BY <2>1, BatchIsNew DEF NextBatch
  <2>3. claims'[c].requestId = q
    BY <2>2, RequestOfClaim
  <2>4. q = r
    BY <1>3, <2>2, <2>3 DEF ClaimsOf
  <2> QED BY <2>1, <2>4 DEF SameClassification
<1>4. EligibleClaims(r)' = EligibleClaims(r)
  <2>1. ASSUME NEW c \in ClaimIds
        PROVE  claims'[c].requestId = r /\ claimSettlements'[c].eligible
                 <=> claims[c].requestId = r /\ claimSettlements[c].eligible
    <3>1. CASE c <= nextClaimId
      BY <1>3, <3>1, RequestOfClaim DEF ClaimsOf
    <3>2. CASE ~(c <= nextClaimId)
      <4>1. c > nextClaimId
        BY <3>2, ConstantTypes DEF RequestShape, ClaimIds
      <4>2. ~claimSettlements[c].eligible /\ c \notin ClaimsOf(r)
        BY <3>2, <4>1, RequestOfClaim DEF ClaimsGivenOut
      <4> QED BY <1>3, <4>2
    <3> QED BY <3>1, <3>2
  <2> QED BY <2>1 DEF EligibleClaims, ClaimsOf
<1>5. RequestTotal(r)
  BY DEF RequestTotals
<1>6. StakeOf(Survivors(r))' = StakeOf(Survivors(r))
  BY <1>1, <1>2, SameStakes DEF StakeOf
<1>7. RequestTotal(r)'
  BY <1>2, <1>4, <1>5, <1>6 DEF RequestTotal, SameClassification
<1> QED BY <1>2, <1>4, <1>7

\* A batch adds what it counts: its claims were in no total before, and none
\* of them is counted twice.
LEMMA TotalGrows ==
  ASSUME RequestCore, RequestTotals, NEW r \in RequestIds,
         NEW maxClaims \in BatchSizes, ClassifyAuditRequestClaims(r, maxClaims),
         Classified(r)' = Classified(r) \cup NextBatch(r, maxClaims)
  PROVE  RequestTotal(r)'
<1> USE DEF RequestCore
<1> DEFINE B == NextBatch(r, maxClaims)
           E == EligibleIn(B)
           S == Survivors(r)
           f == [c \in ClaimIds |-> claims[c].stakeAmount]
<1>0. RequestTotal(r)
  BY DEF RequestTotals
<1>1. B \subseteq ClaimsOf(r) /\ B \cap Classified(r) = {}
  <2>1. /\ TargetCursor(r, maxClaims) \in Nat
        /\ TargetCursor(r, maxClaims) <= Len(claimIds[r])
    BY BatchMovesCursor
  <2> QED BY <2>1, BatchIsNew DEF NextBatch
<1>2. Classified(r) \subseteq ClaimsOf(r)
  BY ClassifiedGivenOut
<1>3. E \subseteq B /\ S \subseteq Classified(r)
      /\ \A c \in B : c \in E <=> claims[c].state # "Slashed"
  BY DEF EligibleIn, ClaimEligible, Survivors
<1>4. claims' = claims
      /\ settlements[r] \in SettlementShape
      /\ settlements' = [settlements EXCEPT
           ![r].classifiedClaimCount = TargetCursor(r, maxClaims),
           ![r].eligibleClaimCount = @ + Cardinality(E),
           ![r].eligibleStakeTotal = @ + StakeOf(E)]
      /\ \A c \in ClaimIds :
           claimSettlements'[c] = IF c \in B
                                  THEN [claimSettlements[c] EXCEPT !.eligible = c \in E]
                                  ELSE claimSettlements[c]
  BY DEF ClassifyAuditRequestClaims, NextBatch, RequestShape
<1>5. /\ settlements'[r].eligibleClaimCount
           = settlements[r].eligibleClaimCount + Cardinality(E)
      /\ settlements'[r].eligibleStakeTotal
           = settlements[r].eligibleStakeTotal + StakeOf(E)
  <2> HIDE DEF E
  <2> QED BY <1>4 DEF RequestShape, SettlementShape
<1>6. Survivors(r)' = S \cup E
  <2> HIDE DEF B, E
  <2> QED BY <1>3, <1>4 DEF Survivors, B
<1>7. EligibleClaims(r)' = S \cup E
  <2>1. S = EligibleClaims(r)
    BY <1>0 DEF RequestTotal
  <2>2. ASSUME NEW c \in ClaimIds
        PROVE  c \in EligibleClaims(r)' <=> c \in S \cup E
    <3>1. c \in EligibleClaims(r)' <=>
            claims[c].requestId = r /\ claimSettlements'[c].eligible
      BY <1>4 DEF EligibleClaims, ClaimsOf
    <3>2. CASE c \in B
      <4>1. claimSettlements'[c].eligible = (c \in E)
        <5> HIDE DEF E, B
        <5> QED BY <1>4, <3>2 DEF RequestShape
      <4>2. claims[c].requestId = r /\ c \notin S
        BY <1>1, <1>3, <3>2 DEF ClaimsOf
      <4> HIDE DEF E, B, S
      <4> QED BY <3>1, <4>1, <4>2
    <3>3. CASE c \notin B
      <4>1. claimSettlements'[c] = claimSettlements[c] /\ c \notin E
        BY <1>3, <1>4, <3>3
      <4> HIDE DEF E, B, S
      <4> QED BY <2>1, <3>1, <4>1 DEF EligibleClaims, ClaimsOf
    <3> QED BY <3>2, <3>3
  <2>3. S \cup E \subseteq ClaimIds /\ EligibleClaims(r)' \subseteq ClaimIds
    BY <1>1, <1>2, <1>3 DEF ClaimsOf, EligibleClaims
  <2> HIDE DEF E, S
  <2> QED BY <2>2, <2>3
<1>8. /\ S \subseteq ClaimIds /\ E \subseteq ClaimIds /\ S \cap E = {}
      /\ IsFiniteSet(S) /\ IsFiniteSet(E)
  <2>1. S \subseteq ClaimIds /\ E \subseteq ClaimIds /\ S \cap E = {}
    BY <1>1, <1>2, <1>3 DEF ClaimsOf
  <2> HIDE DEF S, E
  <2> QED BY <2>1, ConstantTypes, FS_Subset
<1>9. Cardinality(S \cup E) = Cardinality(S) + Cardinality(E)
  <2> HIDE DEF S, E
  <2>1. Cardinality(S) \in Nat /\ Cardinality(E) \in Nat
    BY <1>8, FS_CardinalityType
  <2>2. Cardinality(S \cup E) = Cardinality(S) + Cardinality(E) - Cardinality({})
    BY <1>8, FS_Union
  <2> QED BY <2>1, <2>2, FS_EmptySet
<1>10. SumFunctionOnSet(f, S \cup E) = StakeOf(S) + StakeOf(E)
  <2>1. \A c \in S \cup E : f[c] \in Int
    BY <1>8 DEF RequestShape, ClaimRecord
  <2>2. SumFunctionOnSet(f, S \cup E) = SumFunctionOnSet(f, S) + SumFunctionOnSet(f, E)
    <3> HIDE DEF f, S, E
    <3> QED BY <1>8, <2>1, SumUnion
  <2> QED BY <2>2 DEF StakeOf
<1>11. StakeOf(Survivors(r))' = SumFunctionOnSet(f, S \cup E)
  BY <1>4, <1>6 DEF StakeOf
<1>12. /\ settlements[r].eligibleClaimCount = Cardinality(S)
       /\ settlements[r].eligibleStakeTotal = StakeOf(S)
  BY <1>0 DEF RequestTotal
<1> HIDE DEF S, E, f, B
<1> QED
  BY <1>5, <1>6, <1>7, <1>9, <1>10, <1>11, <1>12 DEF RequestTotal

\* What a call does to the totals of a request, batch or no batch.
LEMMA RequestNextTotals ==
  ASSUME RequestCore, RequestTotals, RequestNext, now' = now
  PROVE  RequestTotals'
<1> SUFFICES ASSUME NEW r \in RequestIds
             PROVE  RequestTotal(r)'
  BY DEF RequestTotals
<1>1. CASE /\ Classified(r)' = Classified(r)
           /\ SameClassification(settlements'[r], settlements[r])
  BY <1>1, TotalKept
<1>2. CASE \E maxClaims \in BatchSizes :
             /\ ClassifyAuditRequestClaims(r, maxClaims)
             /\ Classified(r)' = Classified(r) \cup NextBatch(r, maxClaims)
  BY <1>2, TotalGrows
<1> QED BY <1>1, <1>2, RequestNextClassified DEF RequestCore

-----------------------------------------------------------------------------
(***************************************************************************)
(* What withdrawals pay.  Before finalization nobody is paid; after it the *)
(* amounts that shares are cut from stand still, every payment is recorded *)
(* once, and the requester comes last.                                     *)
(***************************************************************************)
RequestFigure(r) ==
  LET settlement == settlements[r] IN
  /\ WithdrawnClaims(r) \subseteq EligibleClaims(r)
  /\ settlement.claimantWithdrawnCount = Cardinality(WithdrawnClaims(r))
  /\ ~settlement.finalized =>
       /\ WithdrawnClaims(r) = {}
       /\ settlement.distributableBountyAmount = 0
       /\ settlement.cumulativeBountyWithdrawn = 0
       /\ ~settlement.requesterRefundWithdrawn
  /\ settlement.finalized =>
       /\ settlement.distributableBountyAmount \in 0..requests[r].bountyAmount
       /\ settlement.eligibleStakeTotal = 0 =>
            settlement.distributableBountyAmount = requests[r].bountyAmount
       /\ settlement.cumulativeBountyWithdrawn = SharesOf(r, WithdrawnClaims(r))
  /\ settlement.requesterRefundWithdrawn =>
       EligibleClaims(r) = WithdrawnClaims(r)

RequestFigures == \A r \in RequestIds : RequestFigure(r)

RequestInvariant == RequestCore /\ RequestTotals /\ RequestFigures

\* What the settlement of a request says of its payments.
SamePayments(new, old) ==
  /\ new.claimantWithdrawnCount = old.claimantWithdrawnCount
  /\ new.finalized = old.finalized
  /\ new.requesterRefundWithdrawn = old.requesterRefundWithdrawn
  /\ new.distributableBountyAmount = old.distributableBountyAmount
  /\ new.cumulativeBountyWithdrawn = old.cumulativeBountyWithdrawn

\* After finalization no call moves the cursor, the eligible claims, the
\* stakes behind them or the bounty.
LEMMA FinalizedKeeps ==
  ASSUME RequestCore, RequestTotals, RequestNext, now' = now, NEW r \in RequestIds,
         settlements[r].finalized
  PROVE  /\ SameClassification(settlements'[r], settlements[r])
         /\ EligibleClaims(r)' = EligibleClaims(r)
         /\ EligibleClaims(r) \subseteq ClaimIds
         /\ \A c \in EligibleClaims(r) : claims'[c] = claims[c]
         /\ requests'[r].bountyAmount = requests[r].bountyAmount
<1> USE DEF RequestCore
<1>1. /\ Classified(r)' = Classified(r)
      /\ SameClassification(settlements'[r], settlements[r])
  BY RequestNextClassified, BatchMovesCursor
<1>2. EligibleClaims(r)' = EligibleClaims(r)
  BY <1>1, TotalKept
<1>3. EligibleClaims(r) \subseteq Classified(r)
  BY DEF RequestTotals, RequestTotal, Survivors
<1>4. \A c \in Classified(r) : claims'[c] = claims[c]
  BY RequestNextKeepsClassified
<1>5. r <= nextRequestId
  BY ConstantTypes DEF RequestsGivenOut, NoSettlement, RequestShape, RequestIds
<1>6. requests'[r].bountyAmount = requests[r].bountyAmount
  BY <1>5, RequestNextRequests DEF SameTerms
<1>7. EligibleClaims(r) \subseteq ClaimIds
  BY DEF EligibleClaims, ClaimsOf
<1> QED BY <1>1, <1>2, <1>3, <1>4, <1>6, <1>7

\* A share is cut from three amounts and nothing else.
LEMMA SameShare ==
  ASSUME NEW claim, NEW new, NEW old,
         new.eligibleStakeTotal = old.eligibleStakeTotal,
         new.distributableBountyAmount = old.distributableBountyAmount
  PROVE  ClaimBountyShare(claim, new) = ClaimBountyShare(claim, old)
BY DEF ClaimBountyShare

\* So the shares of given eligible claims add up to the same after a call.
LEMMA SameShares ==
  ASSUME RequestCore, RequestTotals, RequestNext, now' = now, NEW r \in RequestIds,
         settlements[r].finalized,
         settlements'[r].distributableBountyAmount
           = settlements[r].distributableBountyAmount,
         NEW W \in SUBSET EligibleClaims(r)
  PROVE  SumFunctionOnSet([c \in ClaimIds |->
                             ClaimBountyShare(claims'[c], settlements'[r])], W)
           = SumFunctionOnSet([c \in ClaimIds |->
                                 ClaimBountyShare(claims[c], settlements[r])], W)
<1> DEFINE f == [c \in ClaimIds |-> ClaimBountyShare(claims'[c], settlements'[r])]
           g == [c \in ClaimIds |-> ClaimBountyShare(claims[c], settlements[r])]
<1>1. /\ W \in SUBSET ClaimIds
      /\ \A c \in W : claims'[c] = claims[c]
      /\ settlements'[r].eligibleStakeTotal = settlements[r].eligibleStakeTotal
  BY FinalizedKeeps DEF SameClassification
<1>2. \A c \in W : f[c] = g[c]
  BY <1>1, SameShare
<1>3. IsFiniteSet(W)
  BY <1>1, ConstantTypes, FS_Subset
<1> HIDE DEF f, g
<1>4. SumFunctionOnSet(f, W) = SumFunctionOnSet(g, W)
  BY <1>2, <1>3, SumSame
<1> QED BY <1>4 DEF f, g

\* A call that pays nobody of a request keeps its figures.
LEMMA FigureKept ==
  ASSUME RequestInvariant, RequestNext, now' = now, NEW r \in RequestIds,
         SamePayments(settlements'[r], settlements[r]),
         WithdrawnClaims(r)' = WithdrawnClaims(r)
  PROVE  RequestFigure(r)'
<1>0. RequestCore /\ RequestTotals /\ RequestFigure(r)
  BY DEF RequestInvariant, RequestFigures
<1>1. CASE settlements[r].finalized
  <2>1. /\ EligibleClaims(r)' = EligibleClaims(r)
        /\ requests'[r].bountyAmount = requests[r].bountyAmount
        /\ settlements'[r].eligibleStakeTotal = settlements[r].eligibleStakeTotal
    BY <1>0, <1>1, FinalizedKeeps DEF SameClassification
  <2>2. SharesOf(r, WithdrawnClaims(r))' = SharesOf(r, WithdrawnClaims(r))
    BY <1>0, <1>1, SameShares DEF SharesOf, SamePayments, RequestFigure
  <2> QED BY <1>0, <1>1, <2>1, <2>2 DEF RequestFigure, SamePayments
<1>2. CASE ~settlements[r].finalized
  BY <1>0, <1>2 DEF RequestFigure, SamePayments
<1> QED BY <1>1, <1>2

\* A call that marks no claim of a request as withdrawn keeps those that are.
LEMMA WithdrawnKept ==
  ASSUME RequestCore, RequestNext, now' = now, NEW r \in RequestIds,
         \A c \in ClaimIds :
           claims[c].requestId = r \/ claims'[c].requestId = r =>
             claimSettlements'[c].withdrawn = claimSettlements[c].withdrawn
  PROVE  WithdrawnClaims(r)' = WithdrawnClaims(r)
<1>1. ASSUME NEW c \in ClaimIds
      PROVE  claims'[c].requestId = r /\ claimSettlements'[c].withdrawn
               <=> claims[c].requestId = r /\ claimSettlements[c].withdrawn
  <2>1. CASE c <= nextClaimId
    BY <2>1, RequestOfClaim DEF ClaimsOf
  <2>2. CASE ~(c <= nextClaimId)
    <3>1. c > nextClaimId
      BY <2>2, ConstantTypes DEF RequestCore, RequestShape, ClaimIds
    <3>2. ~claimSettlements[c].withdrawn /\ c \notin ClaimsOf(r)
      BY <2>2, <3>1, RequestOfClaim DEF RequestCore, ClaimsGivenOut
    <3> QED BY <3>2
  <2> QED BY <2>1, <2>2
<1> QED BY <1>1 DEF WithdrawnClaims, ClaimsOf

\* finalizeAuditRequestSettlement fixes what there is to distribute.
LEMMA FinalizeFigure ==
  ASSUME RequestInvariant, now' = now, NEW r \in RequestIds,
         FinalizeAuditRequestSettlement(r)
  PROVE  RequestFigure(r)'
<1>0. RequestCore /\ RequestTotals /\ RequestFigure(r) /\ RequestShape
  BY DEF RequestInvariant, RequestFigures, RequestCore
<1>1. /\ settlements[r] \in SettlementShape
      /\ requests[r] \in RequestShapeRecord
      /\ requests[r].bountyAmount \in Nat
  BY <1>0 DEF RequestShape, RequestShapeRecord
<1>2. /\ SettlementFee(r) \in 0..requests[r].bountyAmount
      /\ settlements[r].eligibleStakeTotal = 0 => SettlementFee(r) = 0
  <2>1. ProtocolFeeBps \in 0..FeeDenominator
    BY ParameterAssumption
  <2>2. FeeOf(requests[r].bountyAmount, ProtocolFeeBps)
          \in 0..requests[r].bountyAmount
    BY <1>1, <2>1, FeeIsPart
  <2> QED BY <1>1, <2>2 DEF SettlementFee
<1>3. /\ ~settlements[r].finalized
      /\ settlements'[r] = [settlements[r] EXCEPT
           !.finalized = TRUE,
           !.protocolFeeAmount = SettlementFee(r),
           !.distributableBountyAmount =
              requests[r].bountyAmount - SettlementFee(r)]
      /\ claims' = claims /\ claimSettlements' = claimSettlements
      /\ requests' = [requests EXCEPT ![r].state = "Settled"]
  BY <1>0 DEF FinalizeAuditRequestSettlement, RequestShape
<1>4. /\ settlements'[r].finalized
      /\ settlements'[r].distributableBountyAmount
           = requests[r].bountyAmount - SettlementFee(r)
      /\ settlements'[r].eligibleStakeTotal = settlements[r].eligibleStakeTotal
      /\ settlements'[r].claimantWithdrawnCount
           = settlements[r].claimantWithdrawnCount
      /\ settlements'[r].cumulativeBountyWithdrawn
           = settlements[r].cumulativeBountyWithdrawn
      /\ settlements'[r].requesterRefundWithdrawn
           = settlements[r].requesterRefundWithdrawn
  BY <1>1, <1>3 DEF SettlementShape
<1>5. /\ requests'[r].bountyAmount = requests[r].bountyAmount
      /\ WithdrawnClaims(r)' = WithdrawnClaims(r)
      /\ EligibleClaims(r)' = EligibleClaims(r)
  <2>1. requests'[r].bountyAmount = requests[r].bountyAmount
    BY <1>0, <1>1, <1>3 DEF RequestShape, RequestShapeRecord
  <2> QED BY <1>3, <2>1 DEF WithdrawnClaims, EligibleClaims, ClaimsOf
<1>6. WithdrawnClaims(r) = {}
  BY <1>0, <1>3 DEF RequestFigure
<1>7. SharesOf(r, WithdrawnClaims(r))' = 0
  BY <1>5, <1>6, SumEmpty DEF SharesOf
<1>8. /\ settlements[r].claimantWithdrawnCount = Cardinality({})
      /\ settlements[r].cumulativeBountyWithdrawn = 0
      /\ ~settlements[r].requesterRefundWithdrawn
  BY <1>0, <1>3, <1>6 DEF RequestFigure
<1>9. requests[r].bountyAmount - SettlementFee(r) \in 0..requests[r].bountyAmount
      /\ (SettlementFee(r) = 0 =>
            requests[r].bountyAmount - SettlementFee(r) = requests[r].bountyAmount)
  BY <1>1, <1>2
<1> QED
  BY <1>2, <1>4, <1>5, <1>6, <1>7, <1>8, <1>9 DEF RequestFigure

\* withdrawAuditRequestClaimSettlement pays one share and records it.
LEMMA WithdrawFigure ==
  ASSUME RequestInvariant, RequestNext, now' = now, NEW r \in RequestIds,
         NEW c \in ClaimsOf(r), WithdrawAuditRequestClaimSettlement(c)
  PROVE  /\ RequestFigure(r)'
         /\ ~settlements[r].requesterRefundWithdrawn
<1> DEFINE W == WithdrawnClaims(r)
           share == ClaimBountyShare(claims[c], settlements[r])
           f == [d \in ClaimIds |-> ClaimBountyShare(claims[d], settlements[r])]
<1>0. RequestCore /\ RequestTotals /\ RequestFigure(r) /\ RequestShape
  BY DEF RequestInvariant, RequestFigures, RequestCore
<1>1. c \in ClaimIds /\ claims[c].requestId = r
      /\ settlements[r] \in SettlementShape /\ claims[c] \in ClaimRecord
  BY <1>0 DEF ClaimsOf, RequestShape
<1>2. /\ settlements[r].finalized
      /\ claimSettlements[c].eligible /\ ~claimSettlements[c].withdrawn
      /\ settlements'[r] = AfterClaimWithdrawal(settlements[r], share)
      /\ claimSettlements' = [claimSettlements EXCEPT ![c].withdrawn = TRUE]
      /\ claims' = claims /\ requests' = requests
  BY <1>0, <1>1 DEF WithdrawAuditRequestClaimSettlement, RequestShape
<1>3. /\ settlements'[r].claimantWithdrawnCount
           = settlements[r].claimantWithdrawnCount + 1
      /\ settlements'[r].cumulativeBountyWithdrawn
           = settlements[r].cumulativeBountyWithdrawn + share
      /\ settlements'[r].finalized
      /\ settlements'[r].distributableBountyAmount
           = settlements[r].distributableBountyAmount
      /\ settlements'[r].eligibleStakeTotal = settlements[r].eligibleStakeTotal
      /\ settlements'[r].requesterRefundWithdrawn
           = settlements[r].requesterRefundWithdrawn
  <2> HIDE DEF share
  <2> QED BY <1>1, <1>2 DEF AfterClaimWithdrawal, SettlementShape
<1>4. c \notin W /\ c \in EligibleClaims(r)
  BY <1>1, <1>2 DEF WithdrawnClaims, EligibleClaims, ClaimsOf
<1>5. WithdrawnClaims(r)' = W \cup {c}
  <2>1. \A d \in ClaimIds :
          claimSettlements'[d].withdrawn <=> d = c \/ claimSettlements[d].withdrawn
    BY <1>0, <1>1, <1>2 DEF RequestShape
  <2> QED BY <1>1, <1>2, <2>1 DEF WithdrawnClaims, ClaimsOf
<1>6. EligibleClaims(r)' = EligibleClaims(r) /\ EligibleClaims(r) \subseteq ClaimIds
      /\ W \subseteq EligibleClaims(r)
  BY <1>0, <1>2, FinalizedKeeps DEF RequestFigure
<1>7. ~settlements[r].requesterRefundWithdrawn
  BY <1>0, <1>4 DEF RequestFigure
<1>8. IsFiniteSet(W)
  BY <1>6, ConstantTypes, FS_Subset
<1>9. Cardinality(W \cup {c}) = Cardinality(W) + 1
  BY <1>4, <1>8, FS_AddElement
<1>10. SumFunctionOnSet(f, W \cup {c}) = SumFunctionOnSet(f, W) + share
  <2>1. \A d \in W \cup {c} : f[d] \in Int
    BY <1>0, <1>1, <1>6, ShareIsInt DEF RequestShape
  <2>2. (W \cup {c}) \ {c} = W /\ c \in W \cup {c} /\ f[c] = share
    BY <1>1, <1>4
  <2>3. IsFiniteSet(W \cup {c})
    BY <1>8, FS_AddElement
  <2> HIDE DEF f, W, share
  <2>4. SumFunctionOnSet(f, W \cup {c}) = f[c] + SumFunctionOnSet(f, W)
    BY <2>1, <2>2, <2>3, SumSplit
  <2>5. SumFunctionOnSet(f, W) \in Int /\ f[c] \in Int
    BY <1>8, <2>1, SumInt
  <2> QED BY <2>2, <2>4, <2>5
<1>11. SharesOf(r, WithdrawnClaims(r))' = SumFunctionOnSet(f, W \cup {c})
  <2>1. W \cup {c} \in SUBSET EligibleClaims(r)
    BY <1>4, <1>6
  <2>2. SumFunctionOnSet([d \in ClaimIds |->
                             ClaimBountyShare(claims'[d], settlements'[r])], W \cup {c})
          = SumFunctionOnSet(f, W \cup {c})
    <3> HIDE DEF W
    <3> QED BY <1>0, <1>2, <1>3, <2>1, SameShares
  <2> QED BY <1>5, <2>2 DEF SharesOf
<1>12. /\ settlements[r].claimantWithdrawnCount = Cardinality(W)
       /\ settlements[r].cumulativeBountyWithdrawn = SumFunctionOnSet(f, W)
       /\ settlements[r].distributableBountyAmount \in 0..requests[r].bountyAmount
       /\ settlements[r].eligibleStakeTotal = 0 =>
            settlements[r].distributableBountyAmount = requests[r].bountyAmount
  BY <1>0, <1>2 DEF RequestFigure, SharesOf
<1>13. requests'[r].bountyAmount = requests[r].bountyAmount
  BY <1>2
<1> HIDE DEF W, f, share
<1> QED
  BY <1>3, <1>4, <1>5, <1>6, <1>7, <1>9, <1>10, <1>11, <1>12, <1>13
  DEF RequestFigure

\* withdrawAuditRequestRefund waits for every eligible claimant.
LEMMA RefundFigure ==
  ASSUME RequestInvariant, now' = now, NEW r \in RequestIds, NEW sender,
         WithdrawAuditRequestRefund(sender, r)
  PROVE  RequestFigure(r)'
<1>0. RequestCore /\ RequestTotals /\ RequestFigure(r) /\ RequestShape
  BY DEF RequestInvariant, RequestFigures, RequestCore
<1>1. /\ settlements[r] \in SettlementShape /\ settlements[r].finalized
      /\ \/ settlements[r].eligibleClaimCount = 0
         \/ settlements[r].claimantWithdrawnCount
              = settlements[r].eligibleClaimCount
      /\ settlements' = [settlements EXCEPT ![r].requesterRefundWithdrawn = TRUE]
      /\ UNCHANGED <<requests, claims, claimSettlements>>
  BY <1>0 DEF WithdrawAuditRequestRefund, RefundReady, RequestShape
<1>2. /\ settlements'[r].claimantWithdrawnCount
           = settlements[r].claimantWithdrawnCount
      /\ settlements'[r].cumulativeBountyWithdrawn
           = settlements[r].cumulativeBountyWithdrawn
      /\ settlements'[r].finalized
      /\ settlements'[r].distributableBountyAmount
           = settlements[r].distributableBountyAmount
      /\ settlements'[r].eligibleStakeTotal = settlements[r].eligibleStakeTotal
  BY <1>0, <1>1 DEF RequestShape, SettlementShape
<1>3. /\ WithdrawnClaims(r)' = WithdrawnClaims(r)
      /\ EligibleClaims(r)' = EligibleClaims(r)
      /\ requests'[r] = requests[r]
  BY <1>1 DEF WithdrawnClaims, EligibleClaims, ClaimsOf
<1>4. SharesOf(r, WithdrawnClaims(r))' = SharesOf(r, WithdrawnClaims(r))
  <2> DEFINE f == [d \in ClaimIds |-> ClaimBountyShare(claims[d], settlements'[r])]
             g == [d \in ClaimIds |-> ClaimBountyShare(claims[d], settlements[r])]
  <2>1. f = g
    BY <1>2, SameShare
  <2> QED BY <1>1, <1>3, <2>1 DEF SharesOf
<1>5. EligibleClaims(r) = WithdrawnClaims(r)
  <2>1. /\ WithdrawnClaims(r) \subseteq EligibleClaims(r)
        /\ settlements[r].claimantWithdrawnCount = Cardinality(WithdrawnClaims(r))
        /\ settlements[r].eligibleClaimCount = Cardinality(EligibleClaims(r))
    BY <1>0 DEF RequestFigure, RequestTotals, RequestTotal
  <2>2. IsFiniteSet(EligibleClaims(r))
    <3>1. EligibleClaims(r) \in SUBSET ClaimIds
      BY DEF EligibleClaims, ClaimsOf
    <3> QED BY <3>1, ConstantTypes, FS_Subset
  <2>3. CASE settlements[r].eligibleClaimCount = 0
    BY <2>1, <2>2, <2>3, FS_EmptySet
  <2>4. CASE settlements[r].claimantWithdrawnCount
               = settlements[r].eligibleClaimCount
    BY <2>1, <2>2, <2>4, FS_Subset
  <2> QED BY <1>1, <2>3, <2>4
<1> QED BY <1>0, <1>1, <1>2, <1>3, <1>4, <1>5 DEF RequestFigure

LEMMA RequestNextFigures ==
  ASSUME RequestInvariant, RequestNext, now' = now
  PROVE  RequestFigures'
<1> SUFFICES ASSUME NEW r \in RequestIds
             PROVE  RequestFigure(r)'
  BY DEF RequestFigures
<1>0. RequestCore /\ RequestShape
      /\ \A c \in ClaimIds : claimSettlements[c] \in
                               [eligible : BOOLEAN, withdrawn : BOOLEAN]
  BY DEF RequestInvariant, RequestCore, RequestShape
\* A call that pays nobody of the request.
<1>a. ASSUME SamePayments(settlements'[r], settlements[r]),
             \A c \in ClaimIds :
               claims[c].requestId = r \/ claims'[c].requestId = r =>
                 claimSettlements'[c].withdrawn = claimSettlements[c].withdrawn
      PROVE  RequestFigure(r)'
  <2>1. WithdrawnClaims(r)' = WithdrawnClaims(r)
    BY <1>0, <1>a, WithdrawnKept
  <2> QED BY <1>a, <2>1, FigureKept
<1>b. ASSUME UNCHANGED <<settlements, claimSettlements>>
      PROVE  RequestFigure(r)'
  BY <1>a, <1>b DEF SamePayments
<1>1. ASSUME NEW q \in RequestIds, NEW maxClaims \in BatchSizes,
             ClassifyAuditRequestClaims(q, maxClaims)
      PROVE  RequestFigure(r)'
  <2>1. \A c \in ClaimIds :
          claimSettlements'[c].withdrawn = claimSettlements[c].withdrawn
    BY <1>0, <1>1 DEF ClassifyAuditRequestClaims
  <2>2. SamePayments(settlements'[r], settlements[r])
    <3>1. CASE r # q
      <4>1. settlements'[r] = settlements[r]
        BY <1>0, <1>1, <3>1 DEF ClassifyAuditRequestClaims, RequestShape
      <4> QED BY <4>1 DEF SamePayments
    <3>2. CASE r = q
      <4>1. PICK target, count, stake :
              settlements'[r] = [settlements[r] EXCEPT !.classifiedClaimCount = target,
                                                       !.eligibleClaimCount = count,
                                                       !.eligibleStakeTotal = stake]
        BY <1>0, <1>1, <3>2 DEF ClassifyAuditRequestClaims, RequestShape
      <4>2. settlements[r] \in SettlementShape
        BY <1>0 DEF RequestShape
      <4> QED BY <4>1, <4>2 DEF SettlementShape, SamePayments
    <3> QED BY <3>1, <3>2
  <2> QED BY <1>a, <2>1, <2>2
<1>2. ASSUME NEW q \in RequestIds, FinalizeAuditRequestSettlement(q)
      PROVE  RequestFigure(r)'
  <2>1. CASE q = r
    BY <1>2, <2>1, FinalizeFigure
  <2>2. CASE q # r
    <3>1. settlements'[r] = settlements[r] /\ claimSettlements' = claimSettlements
      BY <1>0, <1>2, <2>2 DEF FinalizeAuditRequestSettlement, RequestShape
    <3> QED BY <1>a, <3>1 DEF SamePayments
  <2> QED BY <2>1, <2>2
<1>3. ASSUME NEW c \in ClaimIds, WithdrawAuditRequestClaimSettlement(c)
      PROVE  RequestFigure(r)'
  <2>1. CASE claims[c].requestId = r
    BY <1>3, <2>1, WithdrawFigure DEF ClaimsOf
  <2>2. CASE claims[c].requestId # r
    <3>1. /\ settlements'[r] = settlements[r] /\ claims' = claims
          /\ \A d \in ClaimIds \ {c} : claimSettlements'[d] = claimSettlements[d]
      BY <1>0, <1>3, <2>2
      DEF WithdrawAuditRequestClaimSettlement, RequestShape
    <3> QED BY <1>a, <2>2, <3>1 DEF SamePayments
  <2> QED BY <2>1, <2>2
<1>4. ASSUME NEW sender \in Address, NEW q \in RequestIds,
             WithdrawAuditRequestRefund(sender, q)
      PROVE  RequestFigure(r)'
  <2>1. CASE q = r
    BY <1>4, <2>1, RefundFigure
  <2>2. CASE q # r
    <3>1. settlements'[r] = settlements[r] /\ claimSettlements' = claimSettlements
      BY <1>0, <1>4, <2>2 DEF WithdrawAuditRequestRefund, RequestShape
    <3> QED BY <1>a, <3>1 DEF SamePayments
  <2> QED BY <2>1, <2>2
<1>5. CASE \E sender \in Address, value \in MsgValues, bountyAmount \in Bounties,
              responseWindow \in ResponseWindows, eligibility \in Eligibilities :
             CreateAuditRequest(sender, value, bountyAmount, responseWindow,
                                eligibility)
  BY <1>b, <1>5 DEF CreateAuditRequest
<1>6. CASE \E sender \in Address, value \in MsgValues, requestId \in RequestIds,
              registry \in Registry \cup {NoAddress}, agentId \in AgentId \cup {0} :
             SubmitAuditRequestClaim(sender, value, requestId, registry, agentId)
  BY <1>b, <1>6 DEF SubmitAuditRequestClaim
<1>7. CASE \E sender \in Address, value \in MsgValues, claimId \in ClaimIds,
              registry \in Registry \cup {NoAddress}, agentId \in AgentId \cup {0} :
             ChallengeAuditRequestClaim(sender, value, claimId, registry, agentId)
  BY <1>b, <1>7 DEF ChallengeAuditRequestClaim
<1>8. CASE \/ \E sender \in Address, claimId \in ClaimIds, upheld \in BOOLEAN :
                ResolveAuditRequestClaimChallenge(sender, claimId, upheld)
           \/ \E claimId \in ClaimIds : ExpireAuditRequestClaimChallenge(claimId)
  BY <1>b, <1>8
  DEF ResolveAuditRequestClaimChallenge, ExpireAuditRequestClaimChallenge
<1>9. CASE \/ \E sender \in Address : WithdrawExpiredChallengeBond(sender)
           \/ \E requestId \in RequestIds : ExpireAuditRequest(requestId)
           \/ \E sender \in Address, requestId \in RequestIds :
                RefundExpiredAuditRequest(sender, requestId)
           \/ \E sender \in Address : WithdrawFees(sender)
           \/ \E identity \in Transferable, to \in Address :
                TransferIdentity(identity, to)
  BY <1>b, <1>9
  DEF WithdrawExpiredChallengeBond, ExpireAuditRequest,
      RefundExpiredAuditRequest, WithdrawFees, TransferIdentity
<1> QED
  BY <1>1, <1>2, <1>3, <1>4, <1>5, <1>6, <1>7, <1>8, <1>9 DEF RequestNext

-----------------------------------------------------------------------------
(***************************************************************************)
(* The whole invariant is inductive.                                       *)
(***************************************************************************)
LEMMA RequestInvariantInit ==
  ASSUME ChainInit, RequestInit
  PROVE  RequestInvariant
<1>1. RequestCore
  BY RequestCoreInit
<1>2. /\ \A r \in RequestIds :
           /\ settlements[r].classifiedClaimCount = 0
           /\ settlements[r].eligibleClaimCount = 0
           /\ settlements[r].eligibleStakeTotal = 0
           /\ settlements[r].claimantWithdrawnCount = 0
           /\ settlements[r].distributableBountyAmount = 0
           /\ settlements[r].cumulativeBountyWithdrawn = 0
           /\ settlements[r].finalized = FALSE
           /\ settlements[r].requesterRefundWithdrawn = FALSE
      /\ \A c \in ClaimIds : /\ claimSettlements[c].eligible = FALSE
                             /\ claimSettlements[c].withdrawn = FALSE
  BY DEF RequestInit, NoSettlement
<1>3. ASSUME NEW r \in RequestIds
      PROVE  Survivors(r) = {} /\ EligibleClaims(r) = {} /\ WithdrawnClaims(r) = {}
  <2>1. Classified(r) = {}
    <3>1. (0 + 1)..0 = {}
      OBVIOUS
    <3> QED BY <1>2, <3>1 DEF Classified, ClaimsBetween
  <2> QED BY <1>2, <2>1 DEF Survivors, EligibleClaims, WithdrawnClaims, ClaimsOf
<1>4. RequestTotals
  <2>1. StakeOf({}) = 0 /\ Cardinality({}) = 0
    BY SumEmpty, FS_EmptySet DEF StakeOf
  <2> QED BY <1>2, <1>3, <2>1 DEF RequestTotals, RequestTotal
<1>5. RequestFigures
  BY <1>2, <1>3, FS_EmptySet DEF RequestFigures, RequestFigure
<1> QED BY <1>1, <1>4, <1>5 DEF RequestInvariant

LEMMA RequestInvariantNext ==
  ASSUME RequestInvariant, RequestNext, now' = now
  PROVE  RequestInvariant'
BY RequestCoreNext, RequestNextTotals, RequestNextFigures DEF RequestInvariant

LEMMA RequestInvariantLater ==
  ASSUME RequestInvariant, now' \in Time, now <= now', balance' \in Nat,
         UNCHANGED requestVars
  PROVE  RequestInvariant'
<1>1. RequestCore'
  BY RequestCoreLater DEF RequestInvariant
<1>2. RequestTotals'
  <2>1. settlements' = settlements
        /\ \A r \in RequestIds : /\ Survivors(r)' = Survivors(r)
                                 /\ EligibleClaims(r)' = EligibleClaims(r)
    BY DEF requestVars, Survivors, EligibleClaims, ClaimsOf, Classified, ClaimsBetween
  <2>2. \A r \in RequestIds : StakeOf(Survivors(r))' = StakeOf(Survivors(r))
    BY <2>1 DEF StakeOf, requestVars
  <2> QED BY <2>1, <2>2 DEF RequestInvariant, RequestTotals, RequestTotal
<1>3. RequestFigures'
  <2>1. /\ settlements' = settlements /\ requests' = requests
        /\ \A r \in RequestIds : /\ WithdrawnClaims(r)' = WithdrawnClaims(r)
                                 /\ EligibleClaims(r)' = EligibleClaims(r)
    BY DEF requestVars, EligibleClaims, ClaimsOf, WithdrawnClaims
  <2>2. \A r \in RequestIds :
          SharesOf(r, WithdrawnClaims(r))' = SharesOf(r, WithdrawnClaims(r))
    BY <2>1 DEF SharesOf, requestVars
  <2>3. \A r \in RequestIds : RequestFigure(r)
    BY DEF RequestInvariant, RequestFigures
  <2> QED BY <2>1, <2>2, <2>3 DEF RequestFigures, RequestFigure
<1> QED BY <1>1, <1>2, <1>3 DEF RequestInvariant

LEMMA RequestInvariantInductive ==
  ASSUME RequestInvariant, [RequestSystemNext]_RequestSystemVars
  PROVE  RequestInvariant'
<1>1. CASE RequestNext /\ UNCHANGED now
  BY <1>1, RequestInvariantNext
<1>2. CASE LetTimePass
  <2>1. now' \in Time /\ now <= now' /\ balance' \in Nat
    BY <1>2, BoundAssumption
    DEF LetTimePass, AdvanceTime, RequestInvariant, RequestCore, ChainTypeOK, Time
  <2> QED BY <1>2, <2>1, RequestInvariantLater DEF LetTimePass
<1>3. CASE UNCHANGED RequestSystemVars
  <2>1. now' \in Time /\ now <= now' /\ balance' \in Nat /\ UNCHANGED requestVars
    BY <1>3
    DEF RequestSystemVars, RequestInvariant, RequestCore, ChainTypeOK, Time
  <2> QED BY <2>1, RequestInvariantLater
<1> QED BY <1>1, <1>2, <1>3 DEF RequestSystemNext

-----------------------------------------------------------------------------
(***************************************************************************)
(* What the invariant says of the properties.                              *)
(***************************************************************************)
LEMMA InvariantMatchesTotals ==
  ASSUME RequestInvariant
  PROVE  TotalsMatchClaims
<1> USE DEF RequestInvariant, RequestCore
<1>1. ASSUME NEW r \in RequestIds
      PROVE  settlements[r].finalized => Classified(r) = ClaimsOf(r)
  <2>1. Len(claimIds[r]) \in Nat
    BY DEF RequestShape
  <2> QED BY <2>1, ListedClaims DEF RequestStages, RequestStage, Classified
<1>2. ASSUME NEW r \in RequestIds, NEW c \in ClaimsOf(r), claimSettlements[c].withdrawn
      PROVE  settlements[r].finalized /\ claimSettlements[c].eligible
  <2>1. RequestFigure(r) /\ c \in WithdrawnClaims(r)
    BY <1>2 DEF RequestFigures, WithdrawnClaims
  <2> QED BY <2>1 DEF RequestFigure, EligibleClaims
<1>3. \A r \in RequestIds : RequestTotal(r)
  BY DEF RequestTotals
<1> QED
  BY <1>1, <1>2, <1>3 DEF TotalsMatchClaims, RequestTotal, Survivors

\* The floor of a product, as classification needs it.
LEMMA FloorBelow ==
  ASSUME NEW x \in Nat, NEW y \in Nat \ {0}
  PROVE  x \div y \in Nat /\ y * (x \div y) <= x
OBVIOUS

\* The shares of the eligible claims of a request fit into what there is to
\* distribute, although each is a floor of its own.
LEMMA SharesFitTheBounty ==
  ASSUME RequestInvariant, NEW r \in RequestIds, settlements[r].finalized
  PROVE  /\ SharesOf(r, EligibleClaims(r)) <= settlements[r].distributableBountyAmount
         /\ \A c \in ClaimIds : ClaimBountyShare(claims[c], settlements[r]) \in Nat
<1> DEFINE E == EligibleClaims(r)
           D == settlements[r].distributableBountyAmount
           total == settlements[r].eligibleStakeTotal
           f == [c \in ClaimIds |-> ClaimBountyShare(claims[c], settlements[r])]
           g == [c \in ClaimIds |-> claims[c].stakeAmount]
<1>0. RequestCore /\ RequestShape /\ RequestTotal(r) /\ RequestFigure(r)
  BY DEF RequestInvariant, RequestCore, RequestTotals, RequestFigures
<1>1. D \in Nat /\ total \in Nat /\ \A c \in ClaimIds : g[c] \in Nat
  <2>1. settlements[r] \in SettlementShape /\ requests[r].bountyAmount \in Nat
    BY <1>0 DEF RequestShape, RequestShapeRecord
  <2> QED
    BY <1>0, <2>1 DEF RequestFigure, RequestShape, SettlementShape, ClaimRecord
<1>2. E \subseteq ClaimIds /\ IsFiniteSet(E)
  <2>1. E \subseteq ClaimIds
    BY DEF EligibleClaims, ClaimsOf
  <2> HIDE DEF E
  <2> QED BY <2>1, ConstantTypes, FS_Subset
<1>3. total = SumFunctionOnSet(g, E)
  BY <1>0 DEF RequestTotal, StakeOf
<1>4. \A c \in ClaimIds : f[c] = IF total = 0 THEN 0 ELSE (D * g[c]) \div total
  BY DEF ClaimBountyShare
<1>5. \A c \in ClaimIds : f[c] = ClaimBountyShare(claims[c], settlements[r])
  OBVIOUS
<1>6. SharesOf(r, E) = SumFunctionOnSet(f, E)
  BY DEF SharesOf
<1> HIDE DEF D, total, f, g, E
<1>7. ASSUME NEW c \in ClaimIds
      PROVE  f[c] \in Nat /\ total * f[c] <= D * g[c]
  <2>1. g[c] \in Nat /\ D * g[c] \in Nat
    BY <1>1
  <2>2. CASE total = 0
    <3>1. f[c] = 0 /\ total * f[c] = 0
      BY <1>4, <2>2
    <3> QED BY <2>1, <3>1
  <2>3. CASE total # 0
    <3>1. f[c] = (D * g[c]) \div total
      BY <1>4, <2>3
    <3>2. \A x \in Nat : x \div total \in Nat /\ total * (x \div total) <= x
      BY <1>1, <2>3, FloorBelow
    <3> QED BY <2>1, <3>1, <3>2
  <2> QED BY <2>2, <2>3
<1>8. SumFunctionOnSet(f, E) \in Nat
  BY <1>2, <1>7, SumNat
<1>9. SumFunctionOnSet(f, E) <= D
  <2>1. CASE total = 0
    <3>1. \A c \in E : f[c] = 0
      BY <1>2, <1>4, <2>1
    <3>2. SumFunctionOnSet(f, E) = 0
      BY <1>2, <3>1, SumZero
    <3> QED BY <1>1, <3>2
  <2>2. CASE total # 0
    <3>1. \A c \in E : /\ f[c] \in Int /\ g[c] \in Int
                       /\ total * f[c] <= D * g[c]
      BY <1>1, <1>2, <1>7
    <3>2. total * SumFunctionOnSet(f, E) <= D * SumFunctionOnSet(g, E)
      BY <1>1, <1>2, <3>1, SumScaled
    <3>3. \A x, y \in Nat, z \in Nat \ {0} : z * x <= y * z => x <= y
      OBVIOUS
    <3> QED BY <1>1, <1>3, <1>8, <2>2, <3>2, <3>3
  <2> QED BY <2>1, <2>2
<1>10. SharesOf(r, E) <= D /\ \A c \in ClaimIds :
                               ClaimBountyShare(claims[c], settlements[r]) \in Nat
  BY <1>5, <1>6, <1>7, <1>9
<1> QED BY <1>10 DEF E, D

LEMMA InvariantSettlesShares ==
  ASSUME RequestInvariant
  PROVE  SharesAreSettled
<1>1. \A r \in RequestIds : RequestFigure(r)
  BY DEF RequestInvariant, RequestFigures
<1>2. SharesFit
  BY <1>1, SharesFitTheBounty DEF SharesFit, RequestFigure, WithdrawnClaims
<1>3. RefundIsLast
  BY <1>1 DEF RefundIsLast, RequestFigure, WithdrawnClaims
<1> QED BY <1>2, <1>3 DEF SharesAreSettled

\* Counters count claims that exist, and no figure goes below zero.
LEMMA InvariantTypes ==
  ASSUME RequestInvariant
  PROVE  RequestSystemTypeOK
<1>0. /\ ChainTypeOK /\ RequestShape /\ ClaimsListed
      /\ \A r \in RequestIds : RequestTotal(r) /\ RequestFigure(r)
      /\ MaxClaims \in Nat
  BY ConstantTypes
  DEF RequestInvariant, RequestCore, RequestTotals, RequestFigures
<1>1. ASSUME NEW S \in SUBSET ClaimIds
      PROVE  IsFiniteSet(S) /\ Cardinality(S) \in 0..MaxClaims
  <2>1. IsFiniteSet(ClaimIds) /\ Cardinality(ClaimIds) = MaxClaims
    <3>1. IsFiniteSet(1..MaxClaims)
          /\ Cardinality(1..MaxClaims) = IF 1 > MaxClaims THEN 0 ELSE MaxClaims - 1 + 1
      BY <1>0, FS_Interval
    <3> QED BY <1>0, <3>1 DEF ClaimIds
  <2>2. IsFiniteSet(S) /\ Cardinality(S) <= Cardinality(ClaimIds)
    BY <2>1, FS_Subset
  <2>3. Cardinality(S) \in Nat
    BY <2>2, FS_CardinalityType
  <2> QED BY <1>0, <2>1, <2>2, <2>3
<1>2. ASSUME NEW r \in RequestIds
      PROVE  requests[r] \in RequestRecord /\ settlements[r] \in SettlementRecord
  <2>1. /\ requests[r] \in RequestShapeRecord /\ settlements[r] \in SettlementShape
        /\ Len(claimIds[r]) \in 0..MaxClaims
        /\ requests[r].claimCount = Len(claimIds[r])
        /\ settlements[r].classifiedClaimCount \in 0..MaxClaims
    <3>1. /\ Len(claimIds[r]) \in Nat /\ nextClaimId \in 0..MaxClaims
          /\ settlements[r].classifiedClaimCount \in Nat
      BY <1>0 DEF RequestShape, SettlementShape
    <3>2. /\ Len(claimIds[r]) <= nextClaimId
          /\ settlements[r].classifiedClaimCount <= Len(claimIds[r])
          /\ requests[r].claimCount = Len(claimIds[r])
      BY <1>0 DEF ClaimsListed
    <3> QED BY <1>0, <3>1, <3>2 DEF RequestShape
  <2>2. requests[r] \in RequestRecord
    BY <2>1 DEF RequestRecord, RequestShapeRecord
  <2>3. /\ settlements[r].eligibleClaimCount \in 0..MaxClaims
        /\ settlements[r].claimantWithdrawnCount \in 0..MaxClaims
    <3>1. Survivors(r) \in SUBSET ClaimIds /\ WithdrawnClaims(r) \in SUBSET ClaimIds
      BY <1>0 DEF RequestTotal, EligibleClaims, ClaimsOf, WithdrawnClaims
    <3> QED BY <1>0, <1>1, <3>1 DEF RequestTotal, RequestFigure
  <2>4. /\ settlements[r].distributableBountyAmount \in Nat
        /\ settlements[r].cumulativeBountyWithdrawn \in Nat
    <3>1. CASE ~settlements[r].finalized
      BY <1>0, <3>1 DEF RequestFigure
    <3>2. CASE settlements[r].finalized
      <4> DEFINE f == [c \in ClaimIds |->
                         ClaimBountyShare(claims[c], settlements[r])]
                 W == WithdrawnClaims(r)
      <4>1. W \in SUBSET ClaimIds /\ \A c \in W : f[c] \in Nat
        BY <3>2, SharesFitTheBounty DEF WithdrawnClaims, ClaimsOf
      <4>2. SumFunctionOnSet(f, W) \in Nat
        <5> HIDE DEF f, W
        <5> QED BY <1>1, <4>1, SumNat
      <4>3. settlements[r].cumulativeBountyWithdrawn \in Nat
        BY <1>0, <3>2, <4>2 DEF RequestFigure, SharesOf
      <4>4. requests[r].bountyAmount \in Nat
        BY <2>1 DEF RequestShapeRecord
      <4>5. settlements[r].distributableBountyAmount \in Nat
        BY <1>0, <3>2, <4>4 DEF RequestFigure
      <4> QED BY <4>3, <4>5
    <3> QED BY <3>1, <3>2
  <2>5. settlements[r] \in SettlementRecord
    BY <2>1, <2>3, <2>4 DEF SettlementRecord, SettlementShape
  <2> QED BY <2>2, <2>5
<1>3. RequestTypeOK
  BY <1>0, <1>2 DEF RequestTypeOK, RequestShape
<1> QED BY <1>0, <1>3 DEF RequestSystemTypeOK

-----------------------------------------------------------------------------
(***************************************************************************)
(* Solvency: what a call adds to the balance is what it adds to the debts. *)
(***************************************************************************)
ClaimsHeld == SumFunctionOnSet([c \in ClaimIds |-> ClaimHeld(c)], ClaimIds)

RequestsHeld == SumFunctionOnSet([r \in RequestIds |-> RequestHeld(r)], RequestIds)

RefundsHeld == SumFunctionOnSet(bondRefunds, Address)

LEMMA HeldTypes ==
  ASSUME RequestShape
  PROVE  /\ \A c \in ClaimIds : ClaimHeld(c) \in Nat
         /\ \A r \in RequestIds : RequestHeld(r) \in Int
         /\ \A a \in Address : bondRefunds[a] \in Nat
         /\ ClaimsHeld \in Nat /\ RequestsHeld \in Int /\ RefundsHeld \in Nat
         /\ RequestEscrow = ClaimsHeld + RequestsHeld + RefundsHeld
                              + protocolFees + resolutionFees
<1>1. \A c \in ClaimIds : ClaimHeld(c) \in Nat
  <2>1. \A c \in ClaimIds : claims[c].stakeAmount \in Nat
                            /\ claims[c].challengeBond \in Nat
    BY DEF RequestShape, ClaimRecord
  <2> QED BY <2>1 DEF ClaimHeld
<1>2. \A r \in RequestIds : RequestHeld(r) \in Int
  <2>1. \A r \in RequestIds : /\ requests[r].bountyAmount \in Int
                              /\ settlements[r].distributableBountyAmount \in Int
                              /\ settlements[r].cumulativeBountyWithdrawn \in Int
    BY DEF RequestShape, RequestShapeRecord, SettlementShape
  <2> QED BY <2>1 DEF RequestHeld
<1>3. \A a \in Address : bondRefunds[a] \in Nat
  BY DEF RequestShape
<1>4. ClaimsHeld \in Nat
  <2> DEFINE f == [c \in ClaimIds |-> ClaimHeld(c)]
  <2>1. \A c \in ClaimIds : f[c] \in Nat
    BY <1>1
  <2>2. SumFunctionOnSet(f, ClaimIds) \in Nat
    <3> HIDE DEF f
    <3> QED BY <2>1, ConstantTypes, SumNat
  <2> QED BY <2>2 DEF ClaimsHeld
<1>5. RequestsHeld \in Int
  <2> DEFINE f == [r \in RequestIds |-> RequestHeld(r)]
  <2>1. \A r \in RequestIds : f[r] \in Int
    BY <1>2
  <2>2. SumFunctionOnSet(f, RequestIds) \in Int
    <3> HIDE DEF f
    <3> QED BY <2>1, ConstantTypes, SumInt
  <2> QED BY <2>2 DEF RequestsHeld
<1>6. RefundsHeld \in Nat
  BY <1>3, ConstantTypes, SumNat DEF RefundsHeld
<1>7. RequestEscrow = ClaimsHeld + RequestsHeld + RefundsHeld
                        + protocolFees + resolutionFees
  BY DEF RequestEscrow, ClaimsHeld, RequestsHeld, RefundsHeld
<1> QED BY <1>1, <1>2, <1>3, <1>4, <1>5, <1>6, <1>7

\* A call that changes what is owed on one claim.
LEMMA OneClaimHeld ==
  ASSUME RequestShape, RequestShape', NEW c \in ClaimIds,
         \A d \in ClaimIds \ {c} : /\ claims'[d] = claims[d]
                                   /\ claimSettlements'[d].withdrawn
                                        = claimSettlements[d].withdrawn
  PROVE  ClaimsHeld' = ClaimsHeld - ClaimHeld(c) + ClaimHeld(c)'
<1> DEFINE f == [d \in ClaimIds |-> ClaimHeld(d)]
           g == [d \in ClaimIds |-> ClaimHeld(d)']
<1>1. \A d \in ClaimIds : f[d] \in Int /\ g[d] \in Int
  <2>1. \A d \in ClaimIds : ClaimHeld(d) \in Nat
    BY HeldTypes
  <2>2. \A d \in ClaimIds : claims'[d].stakeAmount \in Nat
                            /\ claims'[d].challengeBond \in Nat
    BY DEF RequestShape, ClaimRecord
  <2>3. \A d \in ClaimIds : ClaimHeld(d)' \in Nat
    BY <2>2 DEF ClaimHeld
  <2> QED BY <2>1, <2>3
<1>2. \A d \in ClaimIds \ {c} : f[d] = g[d]
  BY DEF ClaimHeld
<1>3. f[c] = ClaimHeld(c) /\ g[c] = ClaimHeld(c)'
  OBVIOUS
<1>4. ClaimsHeld = SumFunctionOnSet(f, ClaimIds)
      /\ ClaimsHeld' = SumFunctionOnSet(g, ClaimIds)
  BY DEF ClaimsHeld
<1> HIDE DEF f, g
<1>5. SumFunctionOnSet(g, ClaimIds) = SumFunctionOnSet(f, ClaimIds) - f[c] + g[c]
  BY <1>1, <1>2, ConstantTypes, SumChange
<1> QED BY <1>3, <1>4, <1>5

\* A call that changes what is owed on one request.
LEMMA OneRequestHeld ==
  ASSUME RequestShape, RequestShape', NEW r \in RequestIds,
         \A q \in RequestIds \ {r} : /\ requests'[q] = requests[q]
                                     /\ settlements'[q] = settlements[q]
  PROVE  RequestsHeld' = RequestsHeld - RequestHeld(r) + RequestHeld(r)'
<1> DEFINE f == [q \in RequestIds |-> RequestHeld(q)]
           g == [q \in RequestIds |-> RequestHeld(q)']
<1>1. \A q \in RequestIds : f[q] \in Int /\ g[q] \in Int
  <2>1. \A q \in RequestIds : RequestHeld(q) \in Int
    BY HeldTypes
  <2>2. \A q \in RequestIds : /\ requests'[q].bountyAmount \in Int
                              /\ settlements'[q].distributableBountyAmount \in Int
                              /\ settlements'[q].cumulativeBountyWithdrawn \in Int
    <3>1. \A q \in RequestIds : /\ requests'[q] \in RequestShapeRecord
                                /\ settlements'[q] \in SettlementShape
      BY DEF RequestShape
    <3> QED BY <3>1 DEF RequestShapeRecord, SettlementShape
  <2>3. \A q \in RequestIds : RequestHeld(q)' \in Int
    BY <2>2 DEF RequestHeld
  <2> QED BY <2>1, <2>3
<1>2. \A q \in RequestIds \ {r} : f[q] = g[q]
  BY DEF RequestHeld
<1>3. f[r] = RequestHeld(r) /\ g[r] = RequestHeld(r)'
  OBVIOUS
<1>4. RequestsHeld = SumFunctionOnSet(f, RequestIds)
      /\ RequestsHeld' = SumFunctionOnSet(g, RequestIds)
  BY DEF RequestsHeld
<1> HIDE DEF f, g
<1>5. SumFunctionOnSet(g, RequestIds) = SumFunctionOnSet(f, RequestIds) - f[r] + g[r]
  BY <1>1, <1>2, ConstantTypes, SumChange
<1> QED BY <1>3, <1>4, <1>5

\* A call that changes the refund of one challenger.
LEMMA OneRefundHeld ==
  ASSUME RequestShape, NEW a \in Address, NEW amount \in Nat,
         bondRefunds' = [bondRefunds EXCEPT ![a] = amount]
  PROVE  RefundsHeld' = RefundsHeld - bondRefunds[a] + amount
<1> DEFINE f == bondRefunds
           g == bondRefunds'
<1>1. /\ \A b \in Address : f[b] \in Int /\ g[b] \in Int
      /\ \A b \in Address \ {a} : f[b] = g[b]
      /\ g[a] = amount
  BY DEF RequestShape
<1>2. RefundsHeld = SumFunctionOnSet(f, Address)
      /\ RefundsHeld' = SumFunctionOnSet(g, Address)
      /\ f[a] = bondRefunds[a]
  BY DEF RefundsHeld
<1> HIDE DEF f, g
<1>3. SumFunctionOnSet(g, Address) = SumFunctionOnSet(f, Address) - f[a] + g[a]
  BY <1>1, ConstantTypes, SumChange
<1> QED BY <1>1, <1>2, <1>3

\* A call that leaves the claims, or the requests, as they are.
LEMMA ClaimsHeldKept ==
  ASSUME claims' = claims,
         \A c \in ClaimIds :
           claimSettlements'[c].withdrawn = claimSettlements[c].withdrawn
  PROVE  ClaimsHeld' = ClaimsHeld
<1>1. \A c \in ClaimIds : ClaimHeld(c)' = ClaimHeld(c)
  BY DEF ClaimHeld
<1> QED BY <1>1 DEF ClaimsHeld

LEMMA RequestsHeldKept ==
  ASSUME UNCHANGED <<requests, settlements>>
  PROVE  RequestsHeld' = RequestsHeld
<1>1. \A r \in RequestIds : RequestHeld(r)' = RequestHeld(r)
  BY DEF RequestHeld
<1> QED BY <1>1 DEF RequestsHeld

\* Who withdrew a claim's stake can no longer be challenged over it.
LEMMA WithdrawnIsReady ==
  ASSUME RequestInvariant, NEW c \in ClaimIds, claims[c].requestId # 0
  PROVE  /\ claims[c].requestId \in RequestIds /\ c <= nextClaimId
         /\ claims[c] \in ClaimRecord
         /\ c \in ClaimsOf(claims[c].requestId)
         /\ claimSettlements[c].eligible =>
              claims[c].state \in {"Submitted", "Resolved"}
         /\ claimSettlements[c].withdrawn =>
              claimSettlements[c].eligible /\ ClaimReady(claims[c])
<1> DEFINE r == claims[c].requestId
<1>0. /\ RequestShape /\ ClaimsGivenOut /\ ClassifiedReady
      /\ RequestTotals /\ RequestFigures
  BY DEF RequestInvariant, RequestCore
<1>1. r \in RequestIds /\ c <= nextClaimId
  <2>1. c \in Nat /\ nextClaimId \in Nat /\ nextRequestId \in 0..MaxRequests
        /\ MaxRequests \in Nat
    BY <1>0, ConstantTypes DEF RequestShape, ClaimIds
  <2>2. c <= nextClaimId /\ r \in 1..nextRequestId
    BY <1>0, <2>1 DEF ClaimsGivenOut, NoClaim
  <2> QED BY <2>1, <2>2 DEF RequestIds
<1>2. claims[c] \in ClaimRecord /\ c \in ClaimsOf(r)
  BY <1>0 DEF RequestShape, ClaimsOf
<1>3. claimSettlements[c].eligible => c \in Classified(r) /\ claims[c].state # "Slashed"
  BY <1>0, <1>1, <1>2
  DEF RequestTotals, RequestTotal, EligibleClaims, Survivors
<1>4. claimSettlements[c].withdrawn => claimSettlements[c].eligible
  BY <1>0, <1>1, <1>2
  DEF RequestFigures, RequestFigure, EligibleClaims, WithdrawnClaims
<1>5. claimSettlements[c].eligible => ClaimReady(claims[c])
  BY <1>0, <1>1, <1>3 DEF ClassifiedReady
<1> QED BY <1>1, <1>2, <1>3, <1>4, <1>5 DEF ClaimReady

EscrowMoves == RequestEscrow' = RequestEscrow + (balance' - balance)

\* The debts and the balance as numbers, before and after a call.
LEMMA MovesAddUp ==
  ASSUME RequestShape, balance \in Nat, balance' \in Nat,
         NEW dClaims \in Int, NEW dRequests \in Int, NEW dRefunds \in Int,
         NEW dFees \in Int,
         ClaimsHeld' = ClaimsHeld + dClaims,
         RequestsHeld' = RequestsHeld + dRequests,
         RefundsHeld' = RefundsHeld + dRefunds,
         protocolFees' + resolutionFees' = protocolFees + resolutionFees + dFees,
         protocolFees' \in Nat, resolutionFees' \in Nat,
         balance' - balance = dClaims + dRequests + dRefunds + dFees
  PROVE  EscrowMoves
<1>1. /\ ClaimsHeld \in Nat /\ RequestsHeld \in Int /\ RefundsHeld \in Nat
      /\ protocolFees \in Nat /\ resolutionFees \in Nat
      /\ RequestEscrow = ClaimsHeld + RequestsHeld + RefundsHeld
                           + protocolFees + resolutionFees
  BY HeldTypes DEF RequestShape
<1>2. RequestEscrow' = ClaimsHeld' + RequestsHeld' + RefundsHeld'
                         + protocolFees' + resolutionFees'
  BY DEF RequestEscrow, ClaimsHeld, RequestsHeld, RefundsHeld
<1>3. ClaimsHeld' \in Int /\ RequestsHeld' \in Int /\ RefundsHeld' \in Int
  BY <1>1
<1>a. \A a, b, c, d, e \in Int : a + b + c + d + e = (a + b + c) + (d + e)
  OBVIOUS
<1>b. /\ RequestEscrow = (ClaimsHeld + RequestsHeld + RefundsHeld)
                           + (protocolFees + resolutionFees)
      /\ RequestEscrow' = (ClaimsHeld' + RequestsHeld' + RefundsHeld')
                            + (protocolFees' + resolutionFees')
  BY <1>1, <1>2, <1>3, <1>a
<1>c. /\ ClaimsHeld + RequestsHeld + RefundsHeld \in Int
      /\ protocolFees + resolutionFees \in Int
      /\ dClaims + dRequests + dRefunds \in Int
      /\ ClaimsHeld' + RequestsHeld' + RefundsHeld'
           = (ClaimsHeld + RequestsHeld + RefundsHeld)
               + (dClaims + dRequests + dRefunds)
  BY <1>1
<1>d. \A held, fees, d \in Int :
        (held + d) + (fees + dFees) = (held + fees) + (d + dFees)
  OBVIOUS
<1>4. RequestEscrow' = RequestEscrow + (dClaims + dRequests + dRefunds + dFees)
  BY <1>b, <1>c, <1>d
<1> QED BY <1>4 DEF EscrowMoves

\* The calls that bring ether in.
LEMMA CreateMoves ==
  ASSUME RequestInvariant, RequestShape', balance' \in Nat,
         NEW sender \in Address, NEW value \in MsgValues,
         NEW bountyAmount \in Bounties, NEW responseWindow \in ResponseWindows,
         NEW eligibility \in Eligibilities,
         CreateAuditRequest(sender, value, bountyAmount, responseWindow, eligibility)
  PROVE  EscrowMoves
<1>0. RequestShape /\ RequestsGivenOut /\ balance \in Nat /\ value \in Nat
  BY ConstantTypes DEF RequestInvariant, RequestCore, ChainTypeOK
<1>a. nextRequestId + 1 \in RequestIds /\ nextRequestId + 1 > nextRequestId
  BY <1>0, ConstantTypes DEF CreateAuditRequest, RequestShape, RequestIds
<1>1. PICK r \in RequestIds : r = nextRequestId + 1 /\ r > nextRequestId
  BY <1>a
<1>2. RequestHeld(r) = 0
  BY <1>0, <1>1 DEF RequestsGivenOut, RequestHeld, NoRequest, NoSettlement
<1>3. /\ requests'[r].state = "Open" /\ requests'[r].bountyAmount = value
      /\ ~settlements[r].finalized
      /\ \A q \in RequestIds \ {r} : requests'[q] = requests[q]
      /\ settlements' = settlements /\ balance' = balance + value
      /\ UNCHANGED <<claims, claimSettlements, bondRefunds, protocolFees,
                     resolutionFees>>
  BY <1>0, <1>1
  DEF CreateAuditRequest, Accept, RequestShape, RequestsGivenOut, NoSettlement
<1>4. RequestHeld(r)' = value
  BY <1>3 DEF RequestHeld
<1>5. RequestsHeld' = RequestsHeld - 0 + value
  BY <1>0, <1>1, <1>2, <1>3, <1>4, OneRequestHeld
<1>6. ClaimsHeld' = ClaimsHeld /\ RefundsHeld' = RefundsHeld
  BY <1>3, ClaimsHeldKept DEF RefundsHeld
<1>7. ClaimsHeld \in Nat /\ RequestsHeld \in Int /\ RefundsHeld \in Nat
      /\ protocolFees \in Nat /\ resolutionFees \in Nat
  BY <1>0, HeldTypes DEF RequestShape
<1>8. /\ ClaimsHeld' = ClaimsHeld + 0 /\ RequestsHeld' = RequestsHeld + value
      /\ RefundsHeld' = RefundsHeld + 0
      /\ protocolFees' + resolutionFees' = protocolFees + resolutionFees + 0
      /\ protocolFees' \in Nat /\ resolutionFees' \in Nat
      /\ balance' - balance = 0 + value + 0 + 0
  BY <1>0, <1>3, <1>5, <1>6, <1>7
<1>9. 0 \in Int /\ value \in Int
  BY <1>0
<1> QED BY <1>0, <1>8, <1>9, MovesAddUp

\* A call that moves ether for one claim, and perhaps a refund or a fee.
LEMMA ClaimMoves ==
  ASSUME RequestShape, RequestShape', balance \in Nat, balance' \in Nat,
         NEW c \in ClaimIds,
         \A d \in ClaimIds \ {c} : /\ claims'[d] = claims[d]
                                   /\ claimSettlements'[d].withdrawn
                                        = claimSettlements[d].withdrawn,
         RequestsHeld' = RequestsHeld,
         NEW dRefunds \in Int, NEW dFees \in Int,
         RefundsHeld' = RefundsHeld + dRefunds,
         protocolFees' = protocolFees, resolutionFees' = resolutionFees + dFees,
         NEW old \in Nat, NEW new \in Nat,
         ClaimHeld(c) = old, ClaimHeld(c)' = new,
         balance' - balance = (new - old) + dRefunds + dFees
  PROVE  EscrowMoves
<1>1. ClaimsHeld' = ClaimsHeld - old + new
  BY OneClaimHeld
<1>2. ClaimsHeld \in Nat /\ RequestsHeld \in Int
      /\ protocolFees \in Nat /\ resolutionFees \in Nat
      /\ protocolFees' \in Nat /\ resolutionFees' \in Nat
  BY HeldTypes DEF RequestShape
<1>3. ClaimsHeld' = ClaimsHeld + (new - old) /\ new - old \in Int
  BY <1>1, <1>2
<1>4. RequestsHeld' = RequestsHeld + 0 /\ 0 \in Int
  BY <1>2
<1>5. protocolFees' + resolutionFees' = protocolFees + resolutionFees + dFees
  BY <1>2
<1>6. balance' - balance = (new - old) + 0 + dRefunds + dFees
  BY <1>3
<1> QED BY <1>2, <1>3, <1>4, <1>5, <1>6, MovesAddUp

LEMMA SubmitMoves ==
  ASSUME RequestInvariant, RequestShape', balance' \in Nat,
         NEW sender \in Address, NEW value \in MsgValues,
         NEW requestId \in RequestIds, NEW registry, NEW agentId,
         SubmitAuditRequestClaim(sender, value, requestId, registry, agentId)
  PROVE  EscrowMoves
<1>0. RequestShape /\ ClaimsGivenOut /\ balance \in Nat /\ value \in Nat
  BY ConstantTypes DEF RequestInvariant, RequestCore, ChainTypeOK
<1>a. nextClaimId + 1 \in ClaimIds /\ nextClaimId + 1 > nextClaimId
  BY <1>0, ConstantTypes DEF SubmitAuditRequestClaim, RequestShape, ClaimIds
<1>1. PICK c \in ClaimIds : c = nextClaimId + 1 /\ c > nextClaimId
  BY <1>a
<1>2. claims[c].state = "None" /\ claimSettlements[c].withdrawn = FALSE
  BY <1>0, <1>1 DEF ClaimsGivenOut, NoClaim
<1>3. /\ claims'[c].state = "Submitted" /\ claims'[c].stakeAmount = value
      /\ \A d \in ClaimIds \ {c} : claims'[d] = claims[d]
  BY <1>0, <1>1 DEF SubmitAuditRequestClaim, RequestShape, NoClaim
<1>4. /\ claimSettlements' = claimSettlements /\ settlements' = settlements
      /\ requests' = [requests EXCEPT ![requestId].claimCount = @ + 1]
      /\ UNCHANGED <<bondRefunds, protocolFees, resolutionFees>>
      /\ balance' = balance + value
  BY DEF SubmitAuditRequestClaim, Accept
<1>5. ClaimHeld(c) = 0 /\ ClaimHeld(c)' = value
  BY <1>2, <1>3, <1>4 DEF ClaimHeld
<1>6. RequestsHeld' = RequestsHeld
  <2>1. \A r \in RequestIds : /\ requests'[r].state = requests[r].state
                              /\ requests'[r].bountyAmount = requests[r].bountyAmount
    <3>1. requests[requestId] \in RequestShapeRecord
      BY <1>0 DEF RequestShape
    <3> QED BY <1>0, <1>4, <3>1 DEF RequestShape, RequestShapeRecord
  <2>2. \A r \in RequestIds : RequestHeld(r)' = RequestHeld(r)
    BY <1>4, <2>1 DEF RequestHeld
  <2> QED BY <2>2 DEF RequestsHeld
<1>7. RefundsHeld' = RefundsHeld + 0 /\ resolutionFees' = resolutionFees + 0
      /\ 0 \in Int /\ 0 \in Nat
  <2>1. RefundsHeld' = RefundsHeld + 0
    BY <1>0, <1>4, HeldTypes DEF RefundsHeld
  <2>2. resolutionFees' = resolutionFees + 0
    BY <1>0, <1>4 DEF RequestShape
  <2> QED BY <2>1, <2>2
<1>8. balance' - balance = (value - 0) + 0 + 0
  BY <1>0, <1>4
<1> QED BY <1>0, <1>3, <1>4, <1>5, <1>6, <1>7, <1>8, ClaimMoves

LEMMA ChallengeMoves ==
  ASSUME RequestInvariant, RequestShape', balance' \in Nat,
         NEW sender \in Address, NEW value \in MsgValues, NEW c \in ClaimIds,
         NEW registry, NEW agentId,
         ChallengeAuditRequestClaim(sender, value, c, registry, agentId)
  PROVE  EscrowMoves
<1>0. RequestShape /\ balance \in Nat /\ value \in Nat
      /\ claims[c] \in ClaimRecord /\ claims[c].stakeAmount \in Nat
  BY ConstantTypes
  DEF RequestInvariant, RequestCore, ChainTypeOK, RequestShape, ClaimRecord
<1>1. /\ claims[c].requestId # 0 /\ claims[c].state = "Submitted"
      /\ ~Elapsed(claims[c].submittedAt, ChallengeWindow)
      /\ claims' = [claims EXCEPT ![c] =
           [claims[c] EXCEPT !.state = "Challenged", !.challengedAt = now,
                             !.challengeBond = value, !.challenger = sender]]
      /\ balance' = balance + value
      /\ UNCHANGED <<requests, settlements, claimSettlements, bondRefunds,
                     protocolFees, resolutionFees>>
  BY DEF ChallengeAuditRequestClaim, Accept
<1>2. ~claimSettlements[c].withdrawn
  BY <1>1, WithdrawnIsReady DEF ClaimReady
<1>3. /\ claims'[c].state = "Challenged" /\ claims'[c].challengeBond = value
      /\ claims'[c].stakeAmount = claims[c].stakeAmount
      /\ \A d \in ClaimIds \ {c} : claims'[d] = claims[d]
  BY <1>0, <1>1 DEF RequestShape, ClaimRecord
<1>4. ClaimHeld(c) = claims[c].stakeAmount
      /\ ClaimHeld(c)' = claims[c].stakeAmount + value
  BY <1>1, <1>2, <1>3 DEF ClaimHeld
<1>5. RequestsHeld' = RequestsHeld
  BY <1>1, RequestsHeldKept
<1>6. RefundsHeld' = RefundsHeld + 0 /\ resolutionFees' = resolutionFees + 0
      /\ 0 \in Int /\ claims[c].stakeAmount + value \in Nat
  <2>1. RefundsHeld' = RefundsHeld + 0
    BY <1>0, <1>1, HeldTypes DEF RefundsHeld
  <2>2. resolutionFees' = resolutionFees + 0
    BY <1>0, <1>1 DEF RequestShape
  <2> QED BY <1>0, <2>1, <2>2
<1>7. balance' - balance
        = ((claims[c].stakeAmount + value) - claims[c].stakeAmount) + 0 + 0
  BY <1>0, <1>1
<1> QED BY <1>0, <1>1, <1>3, <1>4, <1>5, <1>6, <1>7, ClaimMoves

LEMMA ResolveMoves ==
  ASSUME RequestInvariant, RequestShape', balance' \in Nat,
         NEW sender, NEW c \in ClaimIds, NEW upheld \in BOOLEAN,
         ResolveAuditRequestClaimChallenge(sender, c, upheld)
  PROVE  EscrowMoves
<1> DEFINE stake == claims[c].stakeAmount
           bond == claims[c].challengeBond
           gross == IF upheld THEN stake + bond ELSE bond
           fee == FeeOf(gross, ResolutionFeeBps)
<1>0. RequestShape /\ balance \in Nat /\ claims[c] \in ClaimRecord
      /\ stake \in Nat /\ bond \in Nat
  BY DEF RequestInvariant, RequestCore, ChainTypeOK, RequestShape, ClaimRecord
<1>1. /\ claims[c].requestId # 0 /\ claims[c].state = "Challenged"
      /\ claims' = [claims EXCEPT ![c] =
           [claims[c] EXCEPT
              !.state = IF upheld THEN "Slashed" ELSE "Resolved",
              !.resolution = IF upheld THEN "ChallengeUpheld"
                                       ELSE "ChallengeRejected"]]
      /\ resolutionFees' = resolutionFees + fee
      /\ balance' = balance - (gross - fee)
      /\ UNCHANGED <<requests, settlements, claimSettlements, bondRefunds,
                     protocolFees>>
  BY DEF ResolveAuditRequestClaimChallenge, SendValue
<1>2. ~claimSettlements[c].withdrawn
  BY <1>1, WithdrawnIsReady DEF ClaimReady
<1>3. /\ claims'[c].state = IF upheld THEN "Slashed" ELSE "Resolved"
      /\ claims'[c].stakeAmount = stake
      /\ \A d \in ClaimIds \ {c} : claims'[d] = claims[d]
  BY <1>0, <1>1 DEF RequestShape, ClaimRecord
<1>4. fee \in 0..gross /\ gross \in Nat
  <2>1. gross \in Nat /\ ResolutionFeeBps \in 0..FeeDenominator
    BY <1>0, ParameterAssumption
  <2> QED BY <2>1, FeeIsPart
<1>5. PICK new \in Nat : new = IF upheld THEN 0 ELSE stake
  BY <1>0
<1>6. ClaimHeld(c) = stake + bond /\ ClaimHeld(c)' = new
  <2>1. ClaimHeld(c) = stake + bond
    BY <1>1 DEF ClaimHeld
  <2>2. ClaimHeld(c)' = IF upheld THEN 0 ELSE stake
    BY <1>1, <1>2, <1>3 DEF ClaimHeld
  <2> QED BY <1>5, <2>1, <2>2
<1>7. RequestsHeld' = RequestsHeld
  BY <1>1, RequestsHeldKept
<1>8. balance' - balance = (new - (stake + bond)) + 0 + fee
      /\ stake + bond \in Nat /\ fee \in Int /\ 0 \in Int
  <2> HIDE DEF fee, stake, bond
  <2>1. gross = (stake + bond) - new
    BY <1>0, <1>5
  <2> HIDE DEF gross
  <2> QED BY <1>0, <1>1, <1>4, <1>5, <2>1
<1>9. RefundsHeld' = RefundsHeld + 0
  BY <1>0, <1>1, HeldTypes DEF RefundsHeld
<1> HIDE DEF stake, bond, gross, fee
<1> QED BY <1>0, <1>1, <1>3, <1>6, <1>7, <1>8, <1>9, ClaimMoves

LEMMA ExpireMoves ==
  ASSUME RequestInvariant, RequestShape', balance' \in Nat, NEW c \in ClaimIds,
         ExpireAuditRequestClaimChallenge(c)
  PROVE  EscrowMoves
<1> DEFINE stake == claims[c].stakeAmount
           bond == claims[c].challengeBond
           a == claims[c].challenger
<1>0. RequestShape /\ balance \in Nat /\ claims[c] \in ClaimRecord
      /\ stake \in Nat /\ bond \in Nat /\ ClaimWindow(c)
  BY DEF RequestInvariant, RequestCore, ChainTypeOK, RequestShape, ClaimRecord,
         ClaimWindows
<1>1. /\ claims[c].requestId # 0 /\ claims[c].state = "Challenged"
      /\ claims' = [claims EXCEPT ![c] =
           [claims[c] EXCEPT !.state = "Submitted", !.challengedAt = 0,
                             !.challengeBond = 0, !.challenger = NoAddress]]
      /\ bondRefunds' = [bondRefunds EXCEPT ![a] = @ + bond]
      /\ balance' = balance
      /\ UNCHANGED <<requests, settlements, claimSettlements, protocolFees,
                     resolutionFees>>
  BY DEF ExpireAuditRequestClaimChallenge
<1>2. ~claimSettlements[c].withdrawn
  BY <1>1, WithdrawnIsReady DEF ClaimReady
<1>3. /\ claims'[c].state = "Submitted" /\ claims'[c].stakeAmount = stake
      /\ \A d \in ClaimIds \ {c} : claims'[d] = claims[d]
  BY <1>0, <1>1 DEF RequestShape, ClaimRecord
<1>4. ClaimHeld(c) = stake + bond /\ ClaimHeld(c)' = stake
  BY <1>1, <1>2, <1>3 DEF ClaimHeld
<1>5. a \in Address /\ bondRefunds[a] \in Nat
  BY <1>0, <1>1 DEF ClaimWindow, RequestShape
<1>6. RefundsHeld' = RefundsHeld - bondRefunds[a] + (bondRefunds[a] + bond)
  <2> HIDE DEF a, bond
  <2>1. PICK amount \in Nat : amount = bondRefunds[a] + bond
    BY <1>0, <1>5
  <2>2. bondRefunds' = [bondRefunds EXCEPT ![a] = amount]
    BY <1>1, <2>1
  <2> QED BY <1>0, <1>5, <2>1, <2>2, OneRefundHeld
<1>7. RequestsHeld' = RequestsHeld
  BY <1>1, RequestsHeldKept
<1>8. RefundsHeld \in Nat /\ resolutionFees \in Nat
  BY <1>0, HeldTypes DEF RequestShape
<1> HIDE DEF stake, bond, a
<1>9. RefundsHeld' = RefundsHeld + bond /\ resolutionFees' = resolutionFees + 0
      /\ bond \in Int /\ 0 \in Int /\ stake + bond \in Nat
      /\ balance' - balance = (stake - (stake + bond)) + bond + 0
  BY <1>0, <1>1, <1>5, <1>6, <1>8
<1> QED BY <1>0, <1>1, <1>3, <1>4, <1>7, <1>9, ClaimMoves

\* A call that moves ether for one request, and perhaps a protocol fee.
LEMMA RequestMoves ==
  ASSUME RequestShape, RequestShape', balance \in Nat, balance' \in Nat,
         NEW r \in RequestIds,
         \A q \in RequestIds \ {r} : /\ requests'[q] = requests[q]
                                     /\ settlements'[q] = settlements[q],
         NEW dClaims \in Int, NEW dFees \in Int,
         ClaimsHeld' = ClaimsHeld + dClaims, bondRefunds' = bondRefunds,
         protocolFees' = protocolFees + dFees, resolutionFees' = resolutionFees,
         NEW old \in Int, NEW new \in Int,
         RequestHeld(r) = old, RequestHeld(r)' = new,
         balance' - balance = dClaims + (new - old) + dFees
  PROVE  EscrowMoves
<1>1. RequestsHeld' = RequestsHeld - old + new
  BY OneRequestHeld
<1>2. ClaimsHeld \in Nat /\ RequestsHeld \in Int /\ RefundsHeld \in Nat
      /\ protocolFees \in Nat /\ resolutionFees \in Nat
      /\ protocolFees' \in Nat /\ resolutionFees' \in Nat
  BY HeldTypes DEF RequestShape
<1>3. RequestsHeld' = RequestsHeld + (new - old) /\ new - old \in Int
  BY <1>1, <1>2
<1>4. RefundsHeld' = RefundsHeld + 0 /\ 0 \in Int
  BY <1>2 DEF RefundsHeld
<1>5. protocolFees' + resolutionFees' = protocolFees + resolutionFees + dFees
  BY <1>2
<1>6. balance' - balance = dClaims + (new - old) + 0 + dFees
  BY <1>3
<1> QED BY <1>2, <1>3, <1>4, <1>5, <1>6, MovesAddUp

\* The bounty of a request without claims stays until it is refunded.
LEMMA RefundExpiredMoves ==
  ASSUME RequestInvariant, RequestShape', balance' \in Nat,
         NEW sender, NEW r \in RequestIds, RefundExpiredAuditRequest(sender, r)
  PROVE  EscrowMoves
<1> DEFINE bounty == requests[r].bountyAmount
<1>0. RequestShape /\ RequestStage(r) /\ balance \in Nat
      /\ requests[r] \in RequestShapeRecord /\ bounty \in Nat
  BY DEF RequestInvariant, RequestCore, ChainTypeOK, RequestShape,
         RequestShapeRecord, RequestStages
<1>1. /\ requests[r].state = "Expired"
      /\ requests' = [requests EXCEPT ![r].state = "Settled"]
      /\ balance' = balance - bounty
      /\ UNCHANGED <<claims, settlements, claimSettlements, bondRefunds,
                     protocolFees, resolutionFees>>
  BY DEF RefundExpiredAuditRequest, SendValue
<1>2. /\ requests'[r].state = "Settled" /\ ~settlements[r].finalized
      /\ \A q \in RequestIds \ {r} : requests'[q] = requests[q]
  BY <1>0, <1>1 DEF RequestShape, RequestShapeRecord, RequestStage
<1>3. RequestHeld(r) = bounty /\ RequestHeld(r)' = 0
  BY <1>1, <1>2 DEF RequestHeld
<1>4. ClaimsHeld' = ClaimsHeld
  BY <1>1, ClaimsHeldKept
<1>5. ClaimsHeld \in Nat /\ protocolFees \in Nat
  BY <1>0, HeldTypes DEF RequestShape
<1> HIDE DEF bounty
<1>6. /\ ClaimsHeld' = ClaimsHeld + 0 /\ protocolFees' = protocolFees + 0
      /\ 0 \in Int /\ bounty \in Int
      /\ balance' - balance = 0 + (0 - bounty) + 0
  BY <1>0, <1>1, <1>4, <1>5
<1> QED BY <1>0, <1>1, <1>2, <1>3, <1>6, RequestMoves

\* Finalization parts the bounty into what is distributed and the fee.
LEMMA FinalizeMoves ==
  ASSUME RequestInvariant, RequestShape', balance' \in Nat,
         NEW r \in RequestIds, FinalizeAuditRequestSettlement(r)
  PROVE  EscrowMoves
<1> DEFINE bounty == requests[r].bountyAmount
           fee == SettlementFee(r)
<1>0. RequestShape /\ RequestFigure(r) /\ balance \in Nat
      /\ requests[r] \in RequestShapeRecord /\ bounty \in Nat
      /\ settlements[r] \in SettlementShape
  BY DEF RequestInvariant, RequestCore, ChainTypeOK, RequestShape,
         RequestShapeRecord, RequestFigures
<1>1. /\ AuditRequestState(r) = "Closed" /\ ~settlements[r].finalized
      /\ settlements' = [settlements EXCEPT ![r] =
           [settlements[r] EXCEPT !.finalized = TRUE,
                                  !.protocolFeeAmount = fee,
                                  !.distributableBountyAmount = bounty - fee]]
      /\ requests' = [requests EXCEPT ![r].state = "Settled"]
      /\ protocolFees' = protocolFees + fee
      /\ balance' = balance
      /\ UNCHANGED <<claims, claimSettlements, bondRefunds, resolutionFees>>
  BY DEF FinalizeAuditRequestSettlement
<1>2. fee \in Nat
  <2>1. ProtocolFeeBps \in 0..FeeDenominator
    BY ParameterAssumption
  <2>2. FeeOf(bounty, ProtocolFeeBps) \in 0..bounty
    BY <1>0, <2>1, FeeIsPart
  <2> QED BY <1>0, <2>2 DEF SettlementFee
<1> HIDE DEF fee
<1>3. requests[r].state = "Open"
  BY <1>0, <1>1 DEF AuditRequestState, RequestShapeRecord
<1>4. /\ requests'[r].state = "Settled"
      /\ \A q \in RequestIds \ {r} : /\ requests'[q] = requests[q]
                                     /\ settlements'[q] = settlements[q]
  BY <1>0, <1>1 DEF RequestShape, RequestShapeRecord
<1>5. /\ settlements'[r].finalized
      /\ settlements'[r].distributableBountyAmount = bounty - fee
      /\ settlements'[r].cumulativeBountyWithdrawn = 0
      /\ settlements'[r].requesterRefundWithdrawn = FALSE
  <2>1. settlements[r].cumulativeBountyWithdrawn = 0
        /\ settlements[r].requesterRefundWithdrawn = FALSE
    BY <1>0, <1>1 DEF RequestFigure, SettlementShape
  <2> QED BY <1>0, <1>1, <2>1 DEF RequestShape, SettlementShape
<1>6. RequestHeld(r) = bounty /\ RequestHeld(r)' = bounty - fee
  <2>1. RequestHeld(r) = bounty
    BY <1>1, <1>3 DEF RequestHeld
  <2>2. RequestHeld(r)' = (bounty - fee) - 0
    BY <1>4, <1>5 DEF RequestHeld
  <2> QED BY <1>0, <1>2, <2>1, <2>2
<1>7. ClaimsHeld' = ClaimsHeld
  BY <1>1, ClaimsHeldKept
<1>8. ClaimsHeld \in Nat
  BY <1>0, HeldTypes
<1> HIDE DEF bounty
<1>9. /\ ClaimsHeld' = ClaimsHeld + 0 /\ 0 \in Int /\ bounty \in Int
      /\ fee \in Int /\ bounty - fee \in Int
      /\ balance' - balance = 0 + ((bounty - fee) - bounty) + fee
  BY <1>0, <1>1, <1>2, <1>7, <1>8
<1> QED BY <1>0, <1>1, <1>4, <1>6, <1>9, RequestMoves

\* A withdrawal pays what was held on the claim and on the share.
LEMMA WithdrawMoves ==
  ASSUME RequestInvariant, RequestNext, RequestShape', now' = now, balance' \in Nat,
         NEW c \in ClaimIds, WithdrawAuditRequestClaimSettlement(c)
  PROVE  EscrowMoves
<1>0. RequestShape /\ balance \in Nat /\ \A q \in RequestIds : RequestStage(q)
  BY DEF RequestInvariant, RequestCore, ChainTypeOK, RequestStages
<1>a. claims[c].requestId # 0
  BY DEF WithdrawAuditRequestClaimSettlement
<1>b. /\ claims[c].requestId \in RequestIds /\ claims[c] \in ClaimRecord
      /\ c \in ClaimsOf(claims[c].requestId)
      /\ claimSettlements[c].eligible =>
           claims[c].state \in {"Submitted", "Resolved"}
  BY <1>a, WithdrawnIsReady
<1>1. PICK r \in RequestIds : r = claims[c].requestId
  BY <1>b
<1> DEFINE stake == claims[c].stakeAmount
           share == ClaimBountyShare(claims[c], settlements[r])
           held == settlements[r].distributableBountyAmount
                     - settlements[r].cumulativeBountyWithdrawn
<1>2. /\ settlements[r].finalized
      /\ claimSettlements[c].eligible /\ ~claimSettlements[c].withdrawn
      /\ settlements' = [settlements EXCEPT ![r] =
                           AfterClaimWithdrawal(settlements[r], share)]
      /\ claimSettlements' = [claimSettlements EXCEPT ![c].withdrawn = TRUE]
      /\ balance' = balance - (stake + share)
      /\ UNCHANGED <<requests, claims, bondRefunds, protocolFees, resolutionFees>>
  BY <1>1 DEF WithdrawAuditRequestClaimSettlement, SendValue
<1>3. /\ settlements[r] \in SettlementShape
      /\ stake \in Nat /\ share \in Int /\ held \in Int
  <2>1. settlements[r] \in SettlementShape
    BY <1>0 DEF RequestShape
  <2>2. held \in Int
    BY <2>1 DEF SettlementShape
  <2>3. stake \in Nat
    BY <1>b DEF ClaimRecord
  <2> QED BY <1>b, <2>1, <2>2, <2>3, ShareIsInt
<1>4. /\ settlements'[r].finalized
      /\ settlements'[r].distributableBountyAmount
           = settlements[r].distributableBountyAmount
      /\ settlements'[r].cumulativeBountyWithdrawn
           = settlements[r].cumulativeBountyWithdrawn + share
      /\ settlements'[r].requesterRefundWithdrawn
           = settlements[r].requesterRefundWithdrawn
      /\ \A q \in RequestIds \ {r} : settlements'[q] = settlements[q]
  <2> HIDE DEF share
  <2> QED
    BY <1>0, <1>2, <1>3 DEF AfterClaimWithdrawal, RequestShape, SettlementShape
<1>5. /\ claimSettlements'[c].withdrawn = TRUE
      /\ \A d \in ClaimIds \ {c} : claimSettlements'[d] = claimSettlements[d]
  BY <1>0, <1>2 DEF RequestShape
<1>6. ClaimHeld(c) = stake /\ ClaimHeld(c)' = 0
  BY <1>b, <1>2, <1>5 DEF ClaimHeld
<1>7. RequestHeld(r) = held /\ RequestHeld(r)' = held - share
  <2>1. ~settlements[r].requesterRefundWithdrawn
    BY <1>b, <1>1, WithdrawFigure
  <2>2. requests[r].state = "Settled"
    BY <1>0, <1>2 DEF RequestStage
  <2>3. RequestHeld(r) = held
    BY <1>2, <2>1, <2>2 DEF RequestHeld
  <2>4. RequestHeld(r)' = settlements[r].distributableBountyAmount
                            - (settlements[r].cumulativeBountyWithdrawn + share)
    BY <1>2, <1>4, <2>1, <2>2 DEF RequestHeld
  <2>5. settlements[r].distributableBountyAmount \in Int
        /\ settlements[r].cumulativeBountyWithdrawn \in Int
    BY <1>3 DEF SettlementShape
  <2> HIDE DEF share
  <2> QED BY <1>3, <2>3, <2>4, <2>5
<1>8. ClaimsHeld' = ClaimsHeld - stake + 0
  BY <1>0, <1>2, <1>5, <1>6, OneClaimHeld
<1>9. ClaimsHeld \in Nat /\ protocolFees \in Nat
  BY <1>0, HeldTypes DEF RequestShape
<1>10. \A q \in RequestIds \ {r} : requests'[q] = requests[q]
  BY <1>2
<1> HIDE DEF stake, share, held
<1>11. /\ ClaimsHeld' = ClaimsHeld + (0 - stake) /\ 0 - stake \in Int
       /\ protocolFees' = protocolFees + 0 /\ 0 \in Int /\ held - share \in Int
       /\ balance' - balance = (0 - stake) + ((held - share) - held) + 0
  BY <1>0, <1>2, <1>3, <1>8, <1>9
<1> QED
  BY <1>0, <1>2, <1>3, <1>4, <1>7, <1>10, <1>11, RequestMoves

\* The requester's refund is all that is still held on the request.
LEMMA RefundMoves ==
  ASSUME RequestInvariant, RequestShape', balance' \in Nat,
         NEW sender, NEW r \in RequestIds, WithdrawAuditRequestRefund(sender, r)
  PROVE  EscrowMoves
<1> DEFINE held == settlements[r].distributableBountyAmount
                     - settlements[r].cumulativeBountyWithdrawn
           paid == IF settlements[r].eligibleClaimCount = 0
                   THEN requests[r].bountyAmount ELSE held
<1>0. RequestShape /\ balance \in Nat /\ RequestStage(r) /\ RequestTotal(r)
      /\ RequestFigure(r) /\ settlements[r] \in SettlementShape
  BY DEF RequestInvariant, RequestCore, ChainTypeOK, RequestStages,
         RequestTotals, RequestFigures, RequestShape
<1>1. /\ settlements[r].finalized /\ ~settlements[r].requesterRefundWithdrawn
      /\ settlements' = [settlements EXCEPT ![r].requesterRefundWithdrawn = TRUE]
      /\ balance' = balance - paid
      /\ UNCHANGED <<requests, claims, claimSettlements, bondRefunds,
                     protocolFees, resolutionFees>>
  BY DEF WithdrawAuditRequestRefund, RefundReady, SendValue
<1>2. /\ settlements'[r].requesterRefundWithdrawn = TRUE
      /\ \A q \in RequestIds \ {r} : settlements'[q] = settlements[q]
      /\ \A q \in RequestIds \ {r} : requests'[q] = requests[q]
  BY <1>0, <1>1 DEF RequestShape, SettlementShape
<1>3. requests[r].state = "Settled"
  BY <1>0, <1>1 DEF RequestStage
<1>4. RequestHeld(r) = held /\ RequestHeld(r)' = 0
  BY <1>1, <1>2, <1>3 DEF RequestHeld
<1>5. paid = held
  <2>1. CASE settlements[r].eligibleClaimCount = 0
    <3>1. Survivors(r) = {}
      <4>1. Survivors(r) \in SUBSET ClaimIds
        BY <1>0 DEF RequestTotal, EligibleClaims, ClaimsOf
      <4>2. IsFiniteSet(Survivors(r))
        BY <4>1, ConstantTypes, FS_Subset
      <4> QED BY <1>0, <2>1, <4>2, FS_EmptySet DEF RequestTotal
    <3>2. settlements[r].eligibleStakeTotal = 0
      BY <1>0, <3>1, SumEmpty DEF RequestTotal, StakeOf
    <3>3. WithdrawnClaims(r) = {}
      BY <1>0, <3>1 DEF RequestTotal, RequestFigure
    <3>4. settlements[r].cumulativeBountyWithdrawn = 0
      BY <1>0, <1>1, <3>3, SumEmpty DEF RequestFigure, SharesOf
    <3>5. settlements[r].distributableBountyAmount = requests[r].bountyAmount
          /\ requests[r].bountyAmount \in Nat
      BY <1>0, <1>1, <3>2
      DEF RequestFigure, RequestShape, RequestShapeRecord
    <3> QED BY <2>1, <3>4, <3>5
  <2>2. CASE settlements[r].eligibleClaimCount # 0
    BY <2>2
  <2> QED BY <2>1, <2>2
<1>6. held \in Int
  BY <1>0 DEF SettlementShape
<1>7. ClaimsHeld' = ClaimsHeld
  BY <1>1, ClaimsHeldKept
<1>8. ClaimsHeld \in Nat /\ protocolFees \in Nat
  BY <1>0, HeldTypes DEF RequestShape
<1> HIDE DEF held, paid
<1>9. /\ ClaimsHeld' = ClaimsHeld + 0 /\ protocolFees' = protocolFees + 0
      /\ 0 \in Int
      /\ balance' - balance = 0 + (0 - held) + 0
  BY <1>0, <1>1, <1>5, <1>6, <1>7, <1>8
<1> QED BY <1>0, <1>1, <1>2, <1>4, <1>6, <1>9, RequestMoves

\* Two withdrawals that touch neither claims nor requests.
LEMMA BondMoves ==
  ASSUME RequestInvariant, RequestShape', balance' \in Nat, NEW sender \in Address,
         WithdrawExpiredChallengeBond(sender)
  PROVE  EscrowMoves
<1>0. RequestShape /\ balance \in Nat /\ bondRefunds[sender] \in Nat
  BY DEF RequestInvariant, RequestCore, ChainTypeOK, RequestShape
<1>1. /\ bondRefunds' = [bondRefunds EXCEPT ![sender] = 0]
      /\ balance' = balance - bondRefunds[sender]
      /\ UNCHANGED <<requests, claims, settlements, claimSettlements,
                     protocolFees, resolutionFees>>
  BY DEF WithdrawExpiredChallengeBond, SendValue
<1>2. RefundsHeld' = RefundsHeld - bondRefunds[sender] + 0
  BY <1>0, <1>1, OneRefundHeld
<1>3. ClaimsHeld' = ClaimsHeld /\ RequestsHeld' = RequestsHeld
  BY <1>1, ClaimsHeldKept, RequestsHeldKept
<1>4. ClaimsHeld \in Nat /\ RequestsHeld \in Int /\ RefundsHeld \in Nat
      /\ protocolFees \in Nat /\ resolutionFees \in Nat
  BY <1>0, HeldTypes DEF RequestShape
<1>5. /\ ClaimsHeld' = ClaimsHeld + 0 /\ RequestsHeld' = RequestsHeld + 0
      /\ RefundsHeld' = RefundsHeld + (0 - bondRefunds[sender])
      /\ protocolFees' + resolutionFees' = protocolFees + resolutionFees + 0
      /\ protocolFees' \in Nat /\ resolutionFees' \in Nat
      /\ 0 \in Int /\ 0 - bondRefunds[sender] \in Int
      /\ balance' - balance = 0 + 0 + (0 - bondRefunds[sender]) + 0
  BY <1>0, <1>1, <1>2, <1>3, <1>4
<1> QED BY <1>0, <1>5, MovesAddUp

LEMMA FeesMove ==
  ASSUME RequestInvariant, RequestShape', balance' \in Nat, NEW sender,
         WithdrawFees(sender)
  PROVE  EscrowMoves
<1>0. RequestShape /\ balance \in Nat
  BY DEF RequestInvariant, RequestCore, ChainTypeOK
<1>1. /\ protocolFees' = 0 /\ resolutionFees' = 0
      /\ balance' = balance - (protocolFees + resolutionFees)
      /\ UNCHANGED <<requests, claims, settlements, claimSettlements, bondRefunds>>
  BY DEF WithdrawFees, SendValue
<1>2. ClaimsHeld' = ClaimsHeld /\ RequestsHeld' = RequestsHeld
      /\ RefundsHeld' = RefundsHeld
  BY <1>1, ClaimsHeldKept, RequestsHeldKept DEF RefundsHeld
<1>3. ClaimsHeld \in Nat /\ RequestsHeld \in Int /\ RefundsHeld \in Nat
      /\ protocolFees \in Nat /\ resolutionFees \in Nat
  BY <1>0, HeldTypes DEF RequestShape
<1>4. PICK fees \in Nat : fees = protocolFees + resolutionFees
  BY <1>3
<1>5. /\ ClaimsHeld' = ClaimsHeld + 0 /\ RequestsHeld' = RequestsHeld + 0
      /\ RefundsHeld' = RefundsHeld + 0
      /\ protocolFees' + resolutionFees' = protocolFees + resolutionFees + (0 - fees)
      /\ protocolFees' \in Nat /\ resolutionFees' \in Nat
      /\ 0 \in Int /\ 0 - fees \in Int
      /\ balance' - balance = 0 + 0 + 0 + (0 - fees)
  BY <1>0, <1>1, <1>2, <1>3, <1>4
<1> QED BY <1>0, <1>5, MovesAddUp

\* Expiring a request only renames it: the bounty is still held for it.
LEMMA ExpireRequestMoves ==
  ASSUME RequestInvariant, RequestShape', balance' \in Nat,
         NEW r \in RequestIds, ExpireAuditRequest(r)
  PROVE  EscrowMoves
<1> DEFINE bounty == requests[r].bountyAmount
<1>0. RequestShape /\ RequestStage(r) /\ balance \in Nat
      /\ requests[r] \in RequestShapeRecord /\ bounty \in Nat
  BY DEF RequestInvariant, RequestCore, ChainTypeOK, RequestShape,
         RequestShapeRecord, RequestStages
<1>1. /\ AuditRequestState(r) = "Closed"
      /\ requests' = [requests EXCEPT ![r].state = "Expired"]
      /\ UNCHANGED <<balance, claims, settlements, claimSettlements, bondRefunds,
                     protocolFees, resolutionFees>>
  BY DEF ExpireAuditRequest
<1>2. requests[r].state = "Open" /\ ~settlements[r].finalized
  BY <1>0, <1>1 DEF AuditRequestState, RequestShapeRecord, RequestStage
<1>3. /\ requests'[r].state = "Expired" /\ requests'[r].bountyAmount = bounty
      /\ \A q \in RequestIds \ {r} : requests'[q] = requests[q]
  BY <1>0, <1>1 DEF RequestShape, RequestShapeRecord
<1>4. RequestHeld(r) = bounty /\ RequestHeld(r)' = bounty
  BY <1>1, <1>2, <1>3 DEF RequestHeld
<1>5. ClaimsHeld' = ClaimsHeld
  BY <1>1, ClaimsHeldKept
<1>6. ClaimsHeld \in Nat /\ protocolFees \in Nat
  BY <1>0, HeldTypes DEF RequestShape
<1> HIDE DEF bounty
<1>7. /\ ClaimsHeld' = ClaimsHeld + 0 /\ protocolFees' = protocolFees + 0
      /\ 0 \in Int /\ bounty \in Int
      /\ balance' - balance = 0 + (bounty - bounty) + 0
  BY <1>0, <1>1, <1>5, <1>6
<1> QED BY <1>0, <1>1, <1>3, <1>4, <1>7, RequestMoves

\* A call that moves no ether and settles nothing leaves the debts alone.
LEMMA NothingMoves ==
  ASSUME RequestInvariant, balance' = balance,
         UNCHANGED <<requests, claims, bondRefunds, protocolFees, resolutionFees>>,
         \A r \in RequestIds : SamePayments(settlements'[r], settlements[r]),
         \A c \in ClaimIds :
           claimSettlements'[c].withdrawn = claimSettlements[c].withdrawn
  PROVE  EscrowMoves
<1>1. RequestEscrow \in Int /\ balance \in Nat
  <2>1. RequestShape /\ ChainTypeOK
    BY DEF RequestInvariant, RequestCore
  <2>2. ClaimsHeld \in Nat /\ RequestsHeld \in Int /\ RefundsHeld \in Nat
        /\ protocolFees \in Nat /\ resolutionFees \in Nat
        /\ RequestEscrow = ClaimsHeld + RequestsHeld + RefundsHeld
                             + protocolFees + resolutionFees
    BY <2>1, HeldTypes DEF RequestShape
  <2> QED BY <2>1, <2>2 DEF ChainTypeOK
<1>2. ClaimsHeld' = ClaimsHeld
  BY ClaimsHeldKept
<1>3. RequestsHeld' = RequestsHeld
  <2>1. \A r \in RequestIds : RequestHeld(r)' = RequestHeld(r)
    BY DEF RequestHeld, SamePayments
  <2> QED BY <2>1 DEF RequestsHeld
<1>4. RequestEscrow' = RequestEscrow
  BY <1>2, <1>3 DEF RequestEscrow, ClaimsHeld, RequestsHeld
<1> QED BY <1>1, <1>4 DEF EscrowMoves

LEMMA ClassifyMoves ==
  ASSUME RequestInvariant, NEW r \in RequestIds, NEW maxClaims \in BatchSizes,
         ClassifyAuditRequestClaims(r, maxClaims)
  PROVE  EscrowMoves
<1>0. RequestShape
  BY DEF RequestInvariant, RequestCore
<1>1. \A q \in RequestIds : SamePayments(settlements'[q], settlements[q])
  <2>1. \A q \in RequestIds : settlements[q] \in SettlementShape
    BY <1>0 DEF RequestShape
  <2> QED
    BY <1>0, <2>1
    DEF ClassifyAuditRequestClaims, RequestShape, SettlementShape, SamePayments
<1>2. \A c \in ClaimIds :
        claimSettlements'[c].withdrawn = claimSettlements[c].withdrawn
  BY <1>0 DEF ClassifyAuditRequestClaims, RequestShape
<1>3. UNCHANGED <<balance, requests, claims, bondRefunds, protocolFees,
                  resolutionFees>>
  BY DEF ClassifyAuditRequestClaims
<1> QED BY <1>1, <1>2, <1>3, NothingMoves

\* Whatever is called, the debts move as the balance does.
LEMMA RequestNextMoves ==
  ASSUME RequestInvariant, RequestNext, now' = now
  PROVE  EscrowMoves
<1>0. RequestShape' /\ balance' \in Nat
  BY RequestNextShape DEF RequestInvariant, RequestCore
<1>1. CASE \E sender \in Address, value \in MsgValues, bountyAmount \in Bounties,
              responseWindow \in ResponseWindows, eligibility \in Eligibilities :
             CreateAuditRequest(sender, value, bountyAmount, responseWindow,
                                eligibility)
  BY <1>0, <1>1, CreateMoves
<1>2. CASE \E sender \in Address, value \in MsgValues, requestId \in RequestIds,
              registry \in Registry \cup {NoAddress}, agentId \in AgentId \cup {0} :
             SubmitAuditRequestClaim(sender, value, requestId, registry, agentId)
  BY <1>0, <1>2, SubmitMoves
<1>3. CASE \E sender \in Address, value \in MsgValues, claimId \in ClaimIds,
              registry \in Registry \cup {NoAddress}, agentId \in AgentId \cup {0} :
             ChallengeAuditRequestClaim(sender, value, claimId, registry, agentId)
  BY <1>0, <1>3, ChallengeMoves
<1>4. CASE \/ \E sender \in Address, claimId \in ClaimIds, upheld \in BOOLEAN :
                ResolveAuditRequestClaimChallenge(sender, claimId, upheld)
           \/ \E claimId \in ClaimIds : ExpireAuditRequestClaimChallenge(claimId)
  BY <1>0, <1>4, ResolveMoves, ExpireMoves
<1>5. CASE \E sender \in Address : \/ WithdrawExpiredChallengeBond(sender)
                                   \/ WithdrawFees(sender)
  BY <1>0, <1>5, BondMoves, FeesMove
<1>6. CASE \/ \E requestId \in RequestIds : ExpireAuditRequest(requestId)
           \/ \E sender \in Address, requestId \in RequestIds :
                RefundExpiredAuditRequest(sender, requestId)
  BY <1>0, <1>6, ExpireRequestMoves, RefundExpiredMoves
<1>7. CASE \E requestId \in RequestIds, maxClaims \in BatchSizes :
             ClassifyAuditRequestClaims(requestId, maxClaims)
  BY <1>7, ClassifyMoves
<1>8. CASE \E requestId \in RequestIds : FinalizeAuditRequestSettlement(requestId)
  BY <1>0, <1>8, FinalizeMoves
<1>9. CASE \E claimId \in ClaimIds : WithdrawAuditRequestClaimSettlement(claimId)
  BY <1>0, <1>9, WithdrawMoves
<1>10. CASE \E sender \in Address, requestId \in RequestIds :
              WithdrawAuditRequestRefund(sender, requestId)
  BY <1>0, <1>10, RefundMoves
<1>11. CASE \E identity \in Transferable, to \in Address :
              TransferIdentity(identity, to)
  BY <1>11, NothingMoves DEF TransferIdentity, SamePayments
<1> QED
  BY <1>1, <1>2, <1>3, <1>4, <1>5, <1>6, <1>7, <1>8, <1>9, <1>10, <1>11
  DEF RequestNext

-----------------------------------------------------------------------------
(***************************************************************************)
(* The theorems.                                                           *)
(***************************************************************************)
LEMMA NothingOwedAtFirst ==
  ASSUME ChainInit, RequestInit
  PROVE  RequestEscrow = 0
<1>1. ClaimsHeld = 0
  <2> DEFINE f == [c \in ClaimIds |-> ClaimHeld(c)]
  <2>1. \A c \in ClaimIds : f[c] = 0
    BY DEF RequestInit, ClaimHeld, NoClaim
  <2>2. SumFunctionOnSet(f, ClaimIds) = 0
    <3> HIDE DEF f
    <3> QED BY <2>1, ConstantTypes, SumZero
  <2> QED BY <2>2 DEF ClaimsHeld
<1>2. RequestsHeld = 0
  <2> DEFINE f == [r \in RequestIds |-> RequestHeld(r)]
  <2>1. \A r \in RequestIds : f[r] = 0
    BY DEF RequestInit, RequestHeld, NoRequest, NoSettlement
  <2>2. SumFunctionOnSet(f, RequestIds) = 0
    <3> HIDE DEF f
    <3> QED BY <2>1, ConstantTypes, SumZero
  <2> QED BY <2>2 DEF RequestsHeld
<1>3. RefundsHeld = 0
  <2>1. \A a \in Address : bondRefunds[a] = 0
    BY DEF RequestInit
  <2> QED BY <2>1, ConstantTypes, SumZero DEF RefundsHeld
<1>4. protocolFees = 0 /\ resolutionFees = 0
  BY DEF RequestInit
<1>5. RequestEscrow = ClaimsHeld + RequestsHeld + RefundsHeld
                        + protocolFees + resolutionFees
  BY DEF RequestEscrow, ClaimsHeld, RequestsHeld, RefundsHeld
<1> QED BY <1>1, <1>2, <1>3, <1>4, <1>5

\* Time moves no debt.
LEMMA EscrowInTime ==
  ASSUME UNCHANGED requestVars
  PROVE  RequestEscrow' = RequestEscrow
<1>1. ClaimsHeld' = ClaimsHeld /\ RequestsHeld' = RequestsHeld
  BY ClaimsHeldKept, RequestsHeldKept DEF requestVars
<1> QED BY <1>1 DEF RequestEscrow, ClaimsHeld, RequestsHeld, requestVars

RequestSafety == RequestInvariant /\ RequestSolvency

LEMMA RequestSafetyInductive ==
  ASSUME RequestSafety, [RequestSystemNext]_RequestSystemVars
  PROVE  RequestSafety'
<1> USE DEF RequestSafety
<1>1. RequestInvariant'
  BY RequestInvariantInductive
<1>2. RequestSolvency'
  <2>1. CASE RequestNext /\ UNCHANGED now
    <3>1. EscrowMoves
      BY <2>1, RequestNextMoves
    <3>2. balance \in Int /\ balance' \in Int
      BY <1>1 DEF RequestInvariant, RequestCore, ChainTypeOK
    <3>3. balance = RequestEscrow
      BY DEF RequestSolvency
    <3>4. RequestEscrow' = balance + (balance' - balance)
      BY <3>1, <3>3 DEF EscrowMoves
    <3>5. \A x, y \in Int : x + (y - x) = y
      OBVIOUS
    <3>6. RequestEscrow' = balance'
      BY <3>2, <3>4, <3>5
    <3> QED BY <3>6 DEF RequestSolvency
  <2>2. CASE UNCHANGED <<balance, requestVars>>
    BY <2>2, EscrowInTime DEF RequestSolvency
  <2> QED
    BY <2>1, <2>2 DEF RequestSystemNext, LetTimePass, RequestSystemVars
<1> QED BY <1>1, <1>2

LEMMA RequestSafetyInit ==
  ASSUME RequestSystemInit
  PROVE  RequestSafety
<1>1. RequestInvariant
  BY RequestInvariantInit DEF RequestSystemInit
<1>2. RequestSolvency
  BY NothingOwedAtFirst DEF RequestSystemInit, ChainInit, RequestSolvency
<1> QED BY <1>1, <1>2 DEF RequestSafety

\* The counters of a settlement never pass the claims that exist, and no
\* amount that the contract subtracts from ever goes below zero.
THEOREM RequestTypesHold == RequestSafetySpec => []RequestSystemTypeOK
<1>1. RequestSafety => RequestSystemTypeOK
  BY InvariantTypes DEF RequestSafety
<1> QED
  BY <1>1, RequestSafetyInit, RequestSafetyInductive, PTL DEF RequestSafetySpec

\* classifyAuditRequestClaims adds up, batch by batch and in whatever sizes,
\* the counts and stakes that one pass over the claims of a request would.
THEOREM RequestTotalsMatch == RequestSafetySpec => []TotalsMatchClaims
<1>1. RequestSafety => TotalsMatchClaims
  BY InvariantMatchesTotals DEF RequestSafety
<1> QED
  BY <1>1, RequestSafetyInit, RequestSafetyInductive, PTL DEF RequestSafetySpec

\* The shares that withdrawAuditRequestClaimSettlement pays fit into the
\* distributable bounty in whatever order claimants come, and the requester's
\* refund of the dust takes nobody's share.
THEOREM RequestSharesAreSettled == RequestSafetySpec => []SharesAreSettled
<1>1. RequestSafety => SharesAreSettled
  BY InvariantSettlesShares DEF RequestSafety
<1> QED
  BY <1>1, RequestSafetyInit, RequestSafetyInductive, PTL DEF RequestSafetySpec

\* Through every interleaving of the thirteen calls the contract holds exactly
\* the stakes, bonds, bounties, refunds and fees that are still owed.
THEOREM RequestIsSolvent == RequestSafetySpec => []RequestSolvency
<1>1. RequestSafety => RequestSolvency
  BY DEF RequestSafety
<1> QED
  BY <1>1, RequestSafetyInit, RequestSafetyInductive, PTL DEF RequestSafetySpec

-----------------------------------------------------------------------------
(***************************************************************************)
(* What finalization fixes.                                                *)
(***************************************************************************)
PaymentsOnly(new, old) ==
  new = [old EXCEPT !.claimantWithdrawnCount = new.claimantWithdrawnCount,
                    !.cumulativeBountyWithdrawn = new.cumulativeBountyWithdrawn,
                    !.requesterRefundWithdrawn = @ \/ new.requesterRefundWithdrawn]

LEMMA PaymentsOnlyRecords ==
  ASSUME NEW old \in SettlementShape, NEW new \in SettlementShape,
         SameClassification(new, old), new.finalized = old.finalized,
         new.protocolFeeAmount = old.protocolFeeAmount,
         new.distributableBountyAmount = old.distributableBountyAmount,
         old.requesterRefundWithdrawn => new.requesterRefundWithdrawn
  PROVE  PaymentsOnly(new, old)
<1>1. (old.requesterRefundWithdrawn \/ new.requesterRefundWithdrawn)
        = new.requesterRefundWithdrawn
  BY DEF SettlementShape
<1> QED BY <1>1 DEF SettlementShape, SameClassification, PaymentsOnly

\* What one call records of a finalized request.
LEMMA RequestNextPayments ==
  ASSUME RequestShape, RequestShape', RequestNext, NEW r \in RequestIds,
         settlements[r].finalized
  PROVE  PaymentsOnly(settlements'[r], settlements[r])
<1> DEFINE Kept == PaymentsOnly(settlements'[r], settlements[r])
<1>0. settlements[r] \in SettlementShape /\ settlements'[r] \in SettlementShape
  BY DEF RequestShape
<1>a. ASSUME settlements'[r] = settlements[r]
      PROVE  Kept
  BY <1>0, <1>a, PaymentsOnlyRecords DEF SameClassification
<1>1. ASSUME NEW requestId \in RequestIds,
             \/ \E maxClaims \in BatchSizes :
                  ClassifyAuditRequestClaims(requestId, maxClaims)
             \/ FinalizeAuditRequestSettlement(requestId)
      PROVE  Kept
  <2>1. requestId # r
    BY <1>1 DEF ClassifyAuditRequestClaims, FinalizeAuditRequestSettlement
  <2>2. settlements'[r] = settlements[r]
    BY <1>1, <2>1
    DEF ClassifyAuditRequestClaims, FinalizeAuditRequestSettlement, RequestShape
  <2> QED BY <1>a, <2>2
<1>2. ASSUME NEW claimId \in ClaimIds, WithdrawAuditRequestClaimSettlement(claimId)
      PROVE  Kept
  <2>1. CASE claims[claimId].requestId # r
    <3>1. settlements'[r] = settlements[r]
      BY <1>2, <2>1 DEF WithdrawAuditRequestClaimSettlement, RequestShape
    <3> QED BY <1>a, <3>1
  <2>2. CASE claims[claimId].requestId = r
    <3>1. PICK share : settlements'[r] = AfterClaimWithdrawal(settlements[r], share)
      BY <1>2, <2>2 DEF WithdrawAuditRequestClaimSettlement, RequestShape
    <3>2. /\ SameClassification(settlements'[r], settlements[r])
          /\ settlements'[r].finalized = settlements[r].finalized
          /\ settlements'[r].protocolFeeAmount = settlements[r].protocolFeeAmount
          /\ settlements'[r].distributableBountyAmount
               = settlements[r].distributableBountyAmount
          /\ settlements'[r].requesterRefundWithdrawn
               = settlements[r].requesterRefundWithdrawn
      BY <1>0, <3>1 DEF AfterClaimWithdrawal, SettlementShape, SameClassification
    <3> QED BY <1>0, <3>2, PaymentsOnlyRecords
  <2> QED BY <2>1, <2>2
<1>3. ASSUME NEW sender, NEW requestId \in RequestIds,
             WithdrawAuditRequestRefund(sender, requestId)
      PROVE  Kept
  <2>1. settlements' = [settlements EXCEPT
                          ![requestId].requesterRefundWithdrawn = TRUE]
    BY <1>3 DEF WithdrawAuditRequestRefund
  <2>2. /\ SameClassification(settlements'[r], settlements[r])
        /\ settlements'[r].finalized = settlements[r].finalized
        /\ settlements'[r].protocolFeeAmount = settlements[r].protocolFeeAmount
        /\ settlements'[r].distributableBountyAmount
             = settlements[r].distributableBountyAmount
        /\ settlements[r].requesterRefundWithdrawn
             => settlements'[r].requesterRefundWithdrawn
    BY <1>0, <2>1 DEF RequestShape, SettlementShape, SameClassification
  <2> QED BY <1>0, <2>2, PaymentsOnlyRecords
<1> HIDE DEF Kept
<1> SUFFICES Kept
  BY DEF Kept
<1>4. CASE \E sender \in Address, value \in MsgValues, bountyAmount \in Bounties,
              responseWindow \in ResponseWindows, eligibility \in Eligibilities :
             CreateAuditRequest(sender, value, bountyAmount, responseWindow,
                                eligibility)
  BY <1>a, <1>4 DEF CreateAuditRequest
<1>5. CASE \E sender \in Address, value \in MsgValues, requestId \in RequestIds,
              registry \in Registry \cup {NoAddress}, agentId \in AgentId \cup {0} :
             SubmitAuditRequestClaim(sender, value, requestId, registry, agentId)
  BY <1>a, <1>5 DEF SubmitAuditRequestClaim
<1>6. CASE \E sender \in Address, value \in MsgValues, claimId \in ClaimIds,
              registry \in Registry \cup {NoAddress}, agentId \in AgentId \cup {0} :
             ChallengeAuditRequestClaim(sender, value, claimId, registry, agentId)
  BY <1>a, <1>6 DEF ChallengeAuditRequestClaim
<1>7. CASE \/ \E sender \in Address, claimId \in ClaimIds, upheld \in BOOLEAN :
                ResolveAuditRequestClaimChallenge(sender, claimId, upheld)
           \/ \E claimId \in ClaimIds : ExpireAuditRequestClaimChallenge(claimId)
           \/ \E sender \in Address : WithdrawExpiredChallengeBond(sender)
           \/ \E requestId \in RequestIds : ExpireAuditRequest(requestId)
           \/ \E sender \in Address, requestId \in RequestIds :
                RefundExpiredAuditRequest(sender, requestId)
           \/ \E sender \in Address : WithdrawFees(sender)
           \/ \E identity \in Transferable, to \in Address :
                TransferIdentity(identity, to)
  BY <1>a, <1>7
  DEF ResolveAuditRequestClaimChallenge, ExpireAuditRequestClaimChallenge,
      WithdrawExpiredChallengeBond, ExpireAuditRequest,
      RefundExpiredAuditRequest, WithdrawFees, TransferIdentity
<1>8. CASE \E requestId \in RequestIds :
             \/ \E maxClaims \in BatchSizes :
                  ClassifyAuditRequestClaims(requestId, maxClaims)
             \/ FinalizeAuditRequestSettlement(requestId)
  BY <1>1, <1>8
<1>9. CASE \/ \E claimId \in ClaimIds : WithdrawAuditRequestClaimSettlement(claimId)
           \/ \E sender \in Address, requestId \in RequestIds :
                WithdrawAuditRequestRefund(sender, requestId)
  BY <1>2, <1>3, <1>9
<1> QED
  BY <1>4, <1>5, <1>6, <1>7, <1>8, <1>9 DEF RequestNext

\* No call takes back the mark of a withdrawal.
LEMMA RequestNextWithdrawn ==
  ASSUME RequestShape, RequestNext, NEW c \in ClaimIds, claimSettlements[c].withdrawn
  PROVE  claimSettlements'[c].withdrawn
<1>1. ASSUME NEW q \in RequestIds, NEW maxClaims \in BatchSizes,
             ClassifyAuditRequestClaims(q, maxClaims)
      PROVE  claimSettlements'[c].withdrawn
  BY <1>1 DEF ClassifyAuditRequestClaims, RequestShape
<1>2. ASSUME NEW claimId \in ClaimIds, WithdrawAuditRequestClaimSettlement(claimId)
      PROVE  claimSettlements'[c].withdrawn
  BY <1>2 DEF WithdrawAuditRequestClaimSettlement, RequestShape
<1>3. CASE \E sender \in Address, value \in MsgValues, bountyAmount \in Bounties,
              responseWindow \in ResponseWindows, eligibility \in Eligibilities :
             CreateAuditRequest(sender, value, bountyAmount, responseWindow,
                                eligibility)
  BY <1>3 DEF CreateAuditRequest
<1>4. CASE \E sender \in Address, value \in MsgValues, requestId \in RequestIds,
              registry \in Registry \cup {NoAddress}, agentId \in AgentId \cup {0} :
             SubmitAuditRequestClaim(sender, value, requestId, registry, agentId)
  BY <1>4 DEF SubmitAuditRequestClaim
<1>5. CASE \E sender \in Address, value \in MsgValues, claimId \in ClaimIds,
              registry \in Registry \cup {NoAddress}, agentId \in AgentId \cup {0} :
             ChallengeAuditRequestClaim(sender, value, claimId, registry, agentId)
  BY <1>5 DEF ChallengeAuditRequestClaim
<1>6. CASE \/ \E sender \in Address, claimId \in ClaimIds, upheld \in BOOLEAN :
                ResolveAuditRequestClaimChallenge(sender, claimId, upheld)
           \/ \E claimId \in ClaimIds : ExpireAuditRequestClaimChallenge(claimId)
           \/ \E sender \in Address : WithdrawExpiredChallengeBond(sender)
           \/ \E requestId \in RequestIds : ExpireAuditRequest(requestId)
           \/ \E sender \in Address, requestId \in RequestIds :
                RefundExpiredAuditRequest(sender, requestId)
           \/ \E requestId \in RequestIds : FinalizeAuditRequestSettlement(requestId)
           \/ \E sender \in Address, requestId \in RequestIds :
                WithdrawAuditRequestRefund(sender, requestId)
           \/ \E sender \in Address : WithdrawFees(sender)
           \/ \E identity \in Transferable, to \in Address :
                TransferIdentity(identity, to)
  BY <1>6
  DEF ResolveAuditRequestClaimChallenge, ExpireAuditRequestClaimChallenge,
      WithdrawExpiredChallengeBond, ExpireAuditRequest,
      RefundExpiredAuditRequest, FinalizeAuditRequestSettlement,
      WithdrawAuditRequestRefund, WithdrawFees, TransferIdentity
<1> QED BY <1>1, <1>2, <1>3, <1>4, <1>5, <1>6 DEF RequestNext

\* finalizeAuditRequestSettlement is the last call that decides anything about
\* the money of a request: the fee, the distributable bounty and the totals
\* stand afterwards, and a withdrawal that was recorded stays recorded.
THEOREM FinalizedFiguresStand == RequestSafetySpec => FinalizedFiguresAreFixed
<1> DEFINE Fixed ==
      \A r \in RequestIds :
        settlements[r].finalized =>
          /\ settlements'[r] =
               [settlements[r] EXCEPT
                  !.claimantWithdrawnCount = settlements'[r].claimantWithdrawnCount,
                  !.cumulativeBountyWithdrawn =
                     settlements'[r].cumulativeBountyWithdrawn,
                  !.requesterRefundWithdrawn =
                     @ \/ settlements'[r].requesterRefundWithdrawn]
          /\ \A c \in ClaimsOf(r) :
               claimSettlements[c].withdrawn => claimSettlements'[c].withdrawn
<1>1. RequestSafety /\ [RequestSystemNext]_RequestSystemVars
        => [Fixed]_RequestSystemVars
  <2> SUFFICES ASSUME RequestSafety, RequestSystemNext,
                      NEW r \in RequestIds, settlements[r].finalized
               PROVE  /\ PaymentsOnly(settlements'[r], settlements[r])
                      /\ \A c \in ClaimsOf(r) :
                           claimSettlements[c].withdrawn =>
                             claimSettlements'[c].withdrawn
    BY DEF PaymentsOnly
  <2>1. RequestShape /\ RequestShape'
    BY RequestSafetyInductive DEF RequestSafety, RequestInvariant, RequestCore
  <2>2. CASE RequestNext /\ UNCHANGED now
    BY <2>1, <2>2, RequestNextPayments, RequestNextWithdrawn DEF ClaimsOf
  <2>3. CASE LetTimePass
    <3>1. settlements' = settlements /\ claimSettlements' = claimSettlements
          /\ settlements[r] \in SettlementShape
      BY <2>1, <2>3 DEF LetTimePass, requestVars, RequestShape
    <3> QED BY <3>1, PaymentsOnlyRecords DEF SameClassification
  <2> QED BY <2>2, <2>3 DEF RequestSystemNext
<1> QED
  BY <1>1, RequestSafetyInit, RequestSafetyInductive, PTL
  DEF RequestSafetySpec, FinalizedFiguresAreFixed
=============================================================================
