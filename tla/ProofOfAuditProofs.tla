-------------------------- MODULE ProofOfAuditProofs --------------------------
(***************************************************************************)
(* Direct audits, and then the whole contract, for every set of accounts,  *)
(* every parameter and every number of audits, requests and claims: the    *)
(* two flows share one balance and neither ever pays from what the other   *)
(* owes.                                                                   *)
(*                                                                         *)
(* The facts about one direct call are stated for DirectNext, without the  *)
(* clock, so that the proof of the whole contract can use them too; it     *)
(* composes them with what RequestEscrowProofs says of the other flow.     *)
(***************************************************************************)
EXTENDS ProofOfAudit, RequestEscrowProofs

LEMMA AuditIdsAreFinite == IsFiniteSet(AuditIds)
BY MaxAuditsAssumption, FS_Interval DEF AuditIds

\* A call of this flow keeps the types of the records and of the balance.
LEMMA DirectNextTypes ==
  ASSUME ChainTypeOK, DirectTypeOK, DirectNext
  PROVE  DirectTypeOK' /\ balance' \in Nat
<1>0. /\ now \in Nat /\ balance \in Nat
      /\ nextAuditId \in 0..MaxAudits
      /\ \A id \in AuditIds : audits[id] \in AuditRecord
      /\ MsgValues \subseteq Nat
  BY BoundAssumption DEF ChainTypeOK, DirectTypeOK, Time
<1>1. ASSUME NEW id \in AuditIds, NEW audit \in AuditRecord,
             audits' = [audits EXCEPT ![id] = audit],
             nextAuditId' \in 0..MaxAudits
      PROVE  DirectTypeOK'
  BY <1>1 DEF DirectTypeOK
<1>2. ASSUME NEW amount \in Nat, NEW to, SendValue(to, amount)
      PROVE  balance' \in Nat
  BY <1>0, <1>2 DEF SendValue
<1>3. ASSUME NEW sender \in Address, NEW value \in MsgValues,
             PublishAudit(sender, value)
      PROVE  DirectTypeOK' /\ balance' \in Nat
  <2> DEFINE id == nextAuditId + 1
             audit == [NoAudit EXCEPT !.auditor = sender, !.publishedAt = now,
                                      !.stakeAmount = value,
                                      !.state = "Published"]
  <2>1. id \in AuditIds /\ nextAuditId' \in 0..MaxAudits
    BY <1>0, <1>3, MaxAuditsAssumption DEF PublishAudit, AuditIds
  <2>2. audit \in AuditRecord
    BY <1>0 DEF NoAudit, AuditRecord, AuditState, Resolution
  <2>3. audits' = [audits EXCEPT ![id] = audit] /\ balance' \in Nat
    BY <1>0, <1>3 DEF PublishAudit, Accept
  <2> QED BY <1>1, <2>1, <2>2, <2>3
<1>4. ASSUME NEW sender \in Address, NEW id \in AuditIds,
             NEW value \in MsgValues, ChallengeAudit(sender, id, value)
      PROVE  DirectTypeOK' /\ balance' \in Nat
  <2> DEFINE audit == [audits[id] EXCEPT !.state = "Challenged",
                                         !.challengedAt = now,
                                         !.challengeBond = value,
                                         !.challenger = sender]
  <2>1. audit \in AuditRecord
    BY <1>0 DEF AuditRecord, AuditState
  <2>2. /\ audits' = [audits EXCEPT ![id] = audit]
        /\ nextAuditId' = nextAuditId
        /\ balance' \in Nat
    BY <1>0, <1>4 DEF ChallengeAudit, Accept
  <2> QED BY <1>0, <1>1, <2>1, <2>2
<1>5. ASSUME NEW sender \in Address, NEW id \in AuditIds,
             NEW upheld \in BOOLEAN, ResolveChallenge(sender, id, upheld)
      PROVE  DirectTypeOK' /\ balance' \in Nat
  <2> DEFINE audit == [audits[id] EXCEPT
                         !.state = "Resolved",
                         !.resolution = IF upheld THEN "ChallengeUpheld"
                                                  ELSE "ChallengeRejected"]
  <2>1. audit \in AuditRecord
    BY <1>0 DEF AuditRecord, AuditState, Resolution
  <2>2. /\ audits' = [audits EXCEPT ![id] = audit]
        /\ nextAuditId' = nextAuditId
    BY <1>5 DEF ResolveChallenge
  <2>3. audits[id].stakeAmount + audits[id].challengeBond \in Nat
    BY <1>0 DEF AuditRecord
  <2>4. balance' \in Nat
    BY <1>5, <2>3, <1>2 DEF ResolveChallenge
  <2> QED BY <1>0, <1>1, <2>1, <2>2, <2>4
<1>6. ASSUME NEW id \in AuditIds, ReleaseStake(id)
      PROVE  DirectTypeOK' /\ balance' \in Nat
  <2> DEFINE audit == [audits[id] EXCEPT !.state = "Resolved",
                                         !.resolution = "ChallengeRejected"]
  <2>1. audit \in AuditRecord
    BY <1>0 DEF AuditRecord, AuditState, Resolution
  <2>2. /\ audits' = [audits EXCEPT ![id] = audit]
        /\ nextAuditId' = nextAuditId
    BY <1>6 DEF ReleaseStake
  <2>3. audits[id].stakeAmount \in Nat
    BY <1>0 DEF AuditRecord
  <2>4. balance' \in Nat
    BY <1>6, <2>3, <1>2 DEF ReleaseStake
  <2> QED BY <1>0, <1>1, <2>1, <2>2, <2>4
<1> QED BY <1>3, <1>4, <1>5, <1>6 DEF DirectNext

\* Rewriting one audit changes what is owed by the difference of that audit.
LEMMA EscrowOfOneAudit ==
  ASSUME DirectTypeOK, NEW id \in AuditIds, NEW audit \in AuditRecord,
         audits' = [audits EXCEPT ![id] = audit]
  PROVE  DirectEscrow' = DirectEscrow - HeldFor(audits[id]) + HeldFor(audit)
<1>1. \A rec \in AuditRecord : HeldFor(rec) \in Int
  BY DEF HeldFor, AuditRecord
<1>2. /\ Held \in [AuditIds -> Int]
      /\ Held' \in [AuditIds -> Int]
      /\ Held[id] = HeldFor(audits[id])
      /\ Held'[id] = HeldFor(audit)
      /\ \A x \in AuditIds \ {id} : Held[x] = Held'[x]
  BY <1>1 DEF Held, DirectTypeOK
<1>3. SumFunctionOnSet(Held', AuditIds)
        = SumFunctionOnSet(Held, AuditIds) - Held[id] + Held'[id]
  BY <1>2, AuditIdsAreFinite, SumChange
<1> QED BY <1>2, <1>3 DEF DirectEscrow

LEMMA DirectEscrowInt ==
  ASSUME DirectTypeOK
  PROVE  DirectEscrow \in Nat
<1>1. Held \in [AuditIds -> Nat]
  BY DEF Held, HeldFor, DirectTypeOK, AuditRecord
<1> QED BY <1>1, AuditIdsAreFinite, SumNat DEF DirectEscrow

-----------------------------------------------------------------------------
(***************************************************************************)
(* The types alone are not inductive for the money: publishing an audit    *)
(* must not overwrite one that is owed something, which is so because the  *)
(* slots above nextAuditId are blank.                                      *)
(***************************************************************************)
DirectBlank ==
  \A id \in AuditIds : id > nextAuditId => audits[id] = NoAudit

LEMMA DirectNextBlank ==
  ASSUME DirectTypeOK, DirectBlank, DirectNext
  PROVE  DirectBlank'
<1> USE MaxAuditsAssumption DEF DirectTypeOK, DirectBlank, AuditIds
<1>1. ASSUME NEW sender \in Address, NEW value \in MsgValues,
             PublishAudit(sender, value)
      PROVE  DirectBlank'
  BY <1>1 DEF PublishAudit
<1>2. ASSUME NEW sender \in Address, NEW auditId \in AuditIds,
             NEW value \in MsgValues, ChallengeAudit(sender, auditId, value)
      PROVE  DirectBlank'
  BY <1>2 DEF ChallengeAudit, NoAudit
<1>3. ASSUME NEW sender \in Address, NEW auditId \in AuditIds,
             NEW upheld \in BOOLEAN, ResolveChallenge(sender, auditId, upheld)
      PROVE  DirectBlank'
  BY <1>3 DEF ResolveChallenge, NoAudit
<1>4. ASSUME NEW auditId \in AuditIds, ReleaseStake(auditId)
      PROVE  DirectBlank'
  BY <1>4 DEF ReleaseStake, NoAudit
<1> QED BY <1>1, <1>2, <1>3, <1>4 DEF DirectNext

\* Every call moves the balance by exactly what it adds to or takes from the
\* open audits.
LEMMA DirectNextMoves ==
  ASSUME ChainTypeOK, DirectTypeOK, DirectBlank, DirectNext
  PROVE  DirectEscrow' = DirectEscrow + (balance' - balance)
<1>0. /\ DirectEscrow \in Nat
      /\ DirectTypeOK'
      /\ balance \in Nat
  BY DirectEscrowInt, DirectNextTypes DEF ChainTypeOK
<1>a. \A id \in AuditIds : audits[id] \in AuditRecord /\ audits'[id] \in AuditRecord
  BY <1>0 DEF DirectTypeOK
<1>b. ASSUME NEW id \in AuditIds, NEW audit,
             audits' = [audits EXCEPT ![id] = audit]
      PROVE  DirectEscrow' = DirectEscrow - HeldFor(audits[id]) + HeldFor(audit)
  <2>1. audits'[id] = audit
    BY <1>b DEF DirectTypeOK
  <2> QED BY <1>a, <1>b, <2>1, EscrowOfOneAudit
<1>1. ASSUME NEW sender \in Address, NEW value \in MsgValues,
             PublishAudit(sender, value)
      PROVE  DirectEscrow' = DirectEscrow + (balance' - balance)
  <2> DEFINE id == nextAuditId + 1
             audit == [NoAudit EXCEPT !.auditor = sender, !.publishedAt = now,
                                      !.stakeAmount = value,
                                      !.state = "Published"]
  <2>1. id \in AuditIds /\ audits' = [audits EXCEPT ![id] = audit]
    BY <1>1, MaxAuditsAssumption DEF PublishAudit, AuditIds, DirectTypeOK
  <2>2. audits[id] = NoAudit
    BY <2>1 DEF DirectBlank, DirectTypeOK
  <2>3. HeldFor(audits[id]) = 0 /\ HeldFor(audit) = value
    BY <2>2 DEF HeldFor, NoAudit
  <2>4. balance' = balance + value /\ value \in Nat
    BY <1>1, BoundAssumption DEF PublishAudit, Accept
  <2>5. DirectEscrow' = DirectEscrow - 0 + value
    BY <2>1, <2>3, <1>b
  <2> QED BY <2>4, <2>5, <1>0
<1>2. ASSUME NEW sender \in Address, NEW id \in AuditIds,
             NEW value \in MsgValues, ChallengeAudit(sender, id, value)
      PROVE  DirectEscrow' = DirectEscrow + (balance' - balance)
  <2> DEFINE audit == [audits[id] EXCEPT !.state = "Challenged",
                                         !.challengedAt = now,
                                         !.challengeBond = value,
                                         !.challenger = sender]
  <2>1. audits' = [audits EXCEPT ![id] = audit]
    BY <1>2 DEF ChallengeAudit
  <2>2. /\ HeldFor(audits[id]) = audits[id].stakeAmount
        /\ HeldFor(audit) = audits[id].stakeAmount + value
        /\ audits[id].stakeAmount \in Nat
    BY <1>2, <1>a DEF HeldFor, ChallengeAudit, AuditRecord
  <2>3. balance' = balance + value /\ value \in Nat
    BY <1>2, BoundAssumption DEF ChallengeAudit, Accept
  <2>4. DirectEscrow' = DirectEscrow - HeldFor(audits[id]) + HeldFor(audit)
    BY <2>1, <1>b
  <2> QED BY <2>2, <2>3, <2>4, <1>0
<1>3. ASSUME NEW sender \in Address, NEW id \in AuditIds,
             NEW upheld \in BOOLEAN, ResolveChallenge(sender, id, upheld)
      PROVE  DirectEscrow' = DirectEscrow + (balance' - balance)
  <2> DEFINE audit == [audits[id] EXCEPT
                         !.state = "Resolved",
                         !.resolution = IF upheld THEN "ChallengeUpheld"
                                                  ELSE "ChallengeRejected"]
  <2>1. audits' = [audits EXCEPT ![id] = audit]
    BY <1>3 DEF ResolveChallenge
  <2>2. /\ HeldFor(audits[id])
             = audits[id].stakeAmount + audits[id].challengeBond
        /\ HeldFor(audit) = 0
        /\ audits[id].stakeAmount + audits[id].challengeBond \in Nat
    BY <1>3, <1>a DEF HeldFor, ResolveChallenge, AuditRecord
  <2>3. balance'
          = balance - (audits[id].stakeAmount + audits[id].challengeBond)
    BY <1>3 DEF ResolveChallenge, SendValue
  <2>4. DirectEscrow' = DirectEscrow - HeldFor(audits[id]) + HeldFor(audit)
    BY <2>1, <1>b
  <2> QED BY <2>2, <2>3, <2>4, <1>0
<1>4. ASSUME NEW id \in AuditIds, ReleaseStake(id)
      PROVE  DirectEscrow' = DirectEscrow + (balance' - balance)
  <2> DEFINE audit == [audits[id] EXCEPT !.state = "Resolved",
                                         !.resolution = "ChallengeRejected"]
  <2>1. audits' = [audits EXCEPT ![id] = audit]
    BY <1>4 DEF ReleaseStake
  <2>2. /\ HeldFor(audits[id]) = audits[id].stakeAmount
        /\ HeldFor(audit) = 0
        /\ audits[id].stakeAmount \in Nat
    BY <1>4, <1>a DEF HeldFor, ReleaseStake, AuditRecord
  <2>3. balance' = balance - audits[id].stakeAmount
    BY <1>4 DEF ReleaseStake, SendValue
  <2>4. DirectEscrow' = DirectEscrow - HeldFor(audits[id]) + HeldFor(audit)
    BY <2>1, <1>b
  <2> QED BY <2>2, <2>3, <2>4, <1>0
<1> QED BY <1>1, <1>2, <1>3, <1>4 DEF DirectNext

-----------------------------------------------------------------------------

LEMMA DirectInitInv ==
  ASSUME ChainInit, DirectInit
  PROVE  /\ ChainTypeOK /\ DirectTypeOK /\ DirectBlank
         /\ DirectEscrow = 0
<1>1. ChainTypeOK /\ DirectTypeOK /\ DirectBlank
  BY MaxAuditsAssumption, BoundAssumption
  DEF ChainInit, DirectInit, ChainTypeOK, DirectTypeOK, DirectBlank, Time,
      NoAudit, AuditRecord, AuditState, Resolution
<1>2. DirectEscrow = 0
  <2>1. \A id \in AuditIds : Held[id] = 0
    BY DEF DirectInit, Held, HeldFor, NoAudit
  <2> QED BY <2>1, AuditIdsAreFinite, SumZero DEF DirectEscrow
<1> QED BY <1>1, <1>2

LEMMA AdvanceTimeTypes ==
  ASSUME ChainTypeOK, AdvanceTime, balance' = balance
  PROVE  ChainTypeOK'
BY BoundAssumption DEF ChainTypeOK, AdvanceTime, Time

DirectInv ==
  /\ DirectSystemTypeOK
  /\ DirectBlank
  /\ DirectSolvency

LEMMA DirectInvInductive ==
  ASSUME DirectInv, [DirectSystemNext]_DirectSystemVars
  PROVE  DirectInv'
<1> USE DEF DirectInv, DirectSystemTypeOK, DirectSolvency
<1>1. CASE DirectNext /\ UNCHANGED now
  <2>1. DirectSystemTypeOK'
    BY <1>1, DirectNextTypes DEF ChainTypeOK
  <2>2. DirectBlank'
    BY <1>1, DirectNextBlank
  <2>3. DirectSolvency'
    <3>1. DirectEscrow' = DirectEscrow + (balance' - balance)
      BY <1>1, DirectNextMoves
    <3>2. balance \in Nat /\ balance' \in Nat
      BY <2>1 DEF ChainTypeOK
    <3>3. DirectEscrow = balance
      OBVIOUS
    <3>4. \A x, y \in Nat : x + (y - x) = y
      OBVIOUS
    <3> QED BY <3>1, <3>2, <3>3, <3>4
  <2> QED BY <2>1, <2>2, <2>3
<1>2. CASE AdvanceTime /\ UNCHANGED <<balance, audits, nextAuditId>>
  <2>1. ChainTypeOK'
    BY <1>2, AdvanceTimeTypes
  <2>2. DirectTypeOK' /\ DirectBlank' /\ DirectEscrow' = DirectEscrow
    BY <1>2 DEF DirectTypeOK, DirectBlank, DirectEscrow, Held
  <2> QED BY <1>2, <2>1, <2>2
<1>3. CASE UNCHANGED DirectSystemVars
  <2>1. /\ ChainTypeOK' /\ DirectTypeOK' /\ DirectBlank'
        /\ DirectEscrow' = DirectEscrow
    BY <1>3 DEF DirectSystemVars, ChainTypeOK, DirectTypeOK, DirectBlank,
                DirectEscrow, Held
  <2> QED BY <1>3, <2>1 DEF DirectSystemVars
<1> QED BY <1>1, <1>2, <1>3 DEF DirectSystemNext

\* publishAudit, challengeAudit, resolveChallenge and releaseStake keep every
\* record and the balance in their types.
THEOREM DirectTypesHold == DirectSafetySpec => []DirectSystemTypeOK
<1>1. DirectSystemInit => DirectInv
  BY DirectInitInv
  DEF DirectSystemInit, DirectInv, DirectSystemTypeOK, DirectSolvency, ChainInit
<1>2. DirectInv => DirectSystemTypeOK
  BY DEF DirectInv
<1> QED BY <1>1, <1>2, DirectInvInductive, PTL DEF DirectSafetySpec

\* The single-audit flow holds exactly the stakes and bonds of its open
\* audits, whatever the parameters and however many audits there are.
THEOREM DirectIsSolvent == DirectSafetySpec => []DirectSolvency
<1>1. DirectSystemInit => DirectInv
  BY DirectInitInv
  DEF DirectSystemInit, DirectInv, DirectSystemTypeOK, DirectSolvency, ChainInit
<1>2. DirectInv => DirectSolvency
  BY DEF DirectInv
<1> QED BY <1>1, <1>2, DirectInvInductive, PTL DEF DirectSafetySpec

-----------------------------------------------------------------------------
(***************************************************************************)
(* Refinement: a call moves one audit along its lifecycle.  Publishing is  *)
(* the call that needs the invariant, for a fresh id must not have been    *)
(* used.                                                                   *)
(***************************************************************************)

\* The stage of each kind of record, as separate facts.
LEMMA StageOfRecord ==
  ASSUME NEW audit \in AuditRecord
  PROVE  /\ audit.state # "Resolved" => AuditStage(audit) = audit.state
         /\ /\ audit.state = "Resolved"
            /\ audit.resolution = "ChallengeUpheld"
            => AuditStage(audit) = "Upheld"
         /\ /\ audit.state = "Resolved"
            /\ audit.resolution # "ChallengeUpheld"
            => AuditStage(audit) = "Rejected"
BY DEF AuditStage

\* A call that rewrites one audit is the lifecycle step between its stages.
LEMMA StageOfOneAudit ==
  ASSUME DirectTypeOK, NEW id \in AuditIds, NEW audit \in AuditRecord,
         audits' = [audits EXCEPT ![id] = audit]
  PROVE  DirectLifecycle!Move(id, AuditStage(audits[id]), AuditStage(audit))
<1>1. audits' \in [AuditIds -> AuditRecord] /\ audits'[id] = audit
  BY DEF DirectTypeOK
<1>2. DirectStages' = [DirectStages EXCEPT ![id] = AuditStage(audit)]
  BY <1>1 DEF DirectStages, DirectTypeOK
<1>3. DirectStages[id] = AuditStage(audits[id])
  BY DEF DirectStages
<1> QED BY <1>2, <1>3 DEF DirectLifecycle!Move

LEMMA DirectNextLifecycle ==
  ASSUME ChainTypeOK, DirectTypeOK, DirectBlank, DirectNext
  PROVE  DirectLifecycle!LifecycleNext
<1>0. /\ now \in Nat
      /\ nextAuditId \in 0..MaxAudits
      /\ \A id \in AuditIds : audits[id] \in AuditRecord
      /\ MsgValues \subseteq Nat
  BY BoundAssumption DEF ChainTypeOK, DirectTypeOK, Time
<1>a. ASSUME NEW id \in AuditIds, NEW audit \in AuditRecord,
             audits' = [audits EXCEPT ![id] = audit]
      PROVE  DirectLifecycle!Move(id, AuditStage(audits[id]), AuditStage(audit))
  BY <1>a, StageOfOneAudit
<1>b. AuditIds = DirectLifecycle!Entries
  BY DEF DirectLifecycle!Entries
<1>1. ASSUME NEW sender \in Address, NEW value \in MsgValues,
             PublishAudit(sender, value)
      PROVE  \E id \in AuditIds : DirectLifecycle!Publish(id)
  <2> DEFINE id == nextAuditId + 1
             audit == [NoAudit EXCEPT !.auditor = sender, !.publishedAt = now,
                                      !.stakeAmount = value,
                                      !.state = "Published"]
  <2>1. id \in AuditIds /\ audits' = [audits EXCEPT ![id] = audit]
    BY <1>0, <1>1, MaxAuditsAssumption DEF PublishAudit, AuditIds
  <2>2. audit \in AuditRecord
    BY <1>0 DEF NoAudit, AuditRecord, AuditState, Resolution
  <2>3. audits[id] = NoAudit
    BY <1>0, <2>1 DEF DirectBlank
  <2>4. AuditStage(audits[id]) = "None" /\ AuditStage(audit) = "Published"
    BY <2>3 DEF AuditStage, NoAudit
  <2> QED BY <2>1, <2>2, <2>4, <1>a DEF DirectLifecycle!Publish
<1>2. ASSUME NEW sender \in Address, NEW id \in AuditIds,
             NEW value \in MsgValues, ChallengeAudit(sender, id, value)
      PROVE  DirectLifecycle!Challenge(id)
  <2> DEFINE audit == [audits[id] EXCEPT !.state = "Challenged",
                                         !.challengedAt = now,
                                         !.challengeBond = value,
                                         !.challenger = sender]
  <2>1. audit \in AuditRecord /\ audits' = [audits EXCEPT ![id] = audit]
    BY <1>0, <1>2 DEF ChallengeAudit, AuditRecord, AuditState
  <2>2. audits[id].state = "Published" /\ audit.state = "Challenged"
    BY <1>0, <1>2 DEF ChallengeAudit, AuditRecord
  <2>3. AuditStage(audits[id]) = "Published" /\ AuditStage(audit) = "Challenged"
    <3> HIDE DEF audit
    <3> QED BY <1>0, <2>1, <2>2, StageOfRecord
  <2> QED BY <2>1, <2>3, <1>a DEF DirectLifecycle!Challenge
<1>3. ASSUME NEW sender \in Address, NEW id \in AuditIds,
             NEW upheld \in BOOLEAN, ResolveChallenge(sender, id, upheld)
      PROVE  DirectLifecycle!Resolve(id, upheld)
  <2> DEFINE audit == [audits[id] EXCEPT
                         !.state = "Resolved",
                         !.resolution = IF upheld THEN "ChallengeUpheld"
                                                  ELSE "ChallengeRejected"]
  <2>1. audit \in AuditRecord /\ audits' = [audits EXCEPT ![id] = audit]
    BY <1>0, <1>3 DEF ResolveChallenge, AuditRecord, AuditState, Resolution
  <2>2. /\ audits[id].state = "Challenged"
        /\ audit.state = "Resolved"
        /\ audit.resolution = IF upheld THEN "ChallengeUpheld"
                                       ELSE "ChallengeRejected"
    BY <1>0, <1>3 DEF ResolveChallenge, AuditRecord
  <2>3. /\ AuditStage(audits[id]) = "Challenged"
        /\ AuditStage(audit) = IF upheld THEN "Upheld" ELSE "Rejected"
    <3> HIDE DEF audit
    <3> QED BY <1>0, <2>1, <2>2, StageOfRecord
  <2> QED BY <2>1, <2>3, <1>a DEF DirectLifecycle!Resolve
<1>4. ASSUME NEW id \in AuditIds, ReleaseStake(id)
      PROVE  DirectLifecycle!Release(id)
  <2> DEFINE audit == [audits[id] EXCEPT !.state = "Resolved",
                                         !.resolution = "ChallengeRejected"]
  <2>1. audit \in AuditRecord /\ audits' = [audits EXCEPT ![id] = audit]
    BY <1>0, <1>4 DEF ReleaseStake, AuditRecord, AuditState, Resolution
  <2>2. /\ audits[id].state = "Published"
        /\ audit.state = "Resolved" /\ audit.resolution = "ChallengeRejected"
    BY <1>0, <1>4 DEF ReleaseStake, AuditRecord
  <2>3. AuditStage(audits[id]) = "Published" /\ AuditStage(audit) = "Rejected"
    <3> HIDE DEF audit
    <3> QED BY <1>0, <2>1, <2>2, StageOfRecord
  <2> QED BY <2>1, <2>3, <1>a DEF DirectLifecycle!Release
<1> QED
  BY <1>b, <1>1, <1>2, <1>3, <1>4 DEF DirectNext, DirectLifecycle!LifecycleNext

\* The single-audit flow implements the lifecycle of an audit: whatever the
\* windows and the accounts, publishAudit, challengeAudit, resolveChallenge
\* and releaseStake move an audit only as AuditLifecycle allows.
THEOREM DirectImplementsLifecycle ==
  DirectSafetySpec => DirectAuditsFollowLifecycle
<1>1. DirectSystemInit => DirectInv
  BY DirectInitInv
  DEF DirectSystemInit, DirectInv, DirectSystemTypeOK, DirectSolvency, ChainInit
<1>2. DirectSystemInit => DirectLifecycle!LifecycleInit
  BY DEF DirectSystemInit, DirectInit, DirectLifecycle!LifecycleInit,
         DirectLifecycle!Entries, DirectStages, AuditStage, NoAudit
<1>3. DirectInv /\ [DirectSystemNext]_DirectSystemVars
        => [DirectLifecycle!LifecycleNext]_DirectStages
  <2> SUFFICES ASSUME DirectInv, [DirectSystemNext]_DirectSystemVars
               PROVE  [DirectLifecycle!LifecycleNext]_DirectStages
    OBVIOUS
  <2>1. CASE DirectNext
    BY <2>1, DirectNextLifecycle DEF DirectInv, DirectSystemTypeOK
  <2>2. CASE audits' = audits
    BY <2>2 DEF DirectStages
  <2> QED BY <2>1, <2>2 DEF DirectSystemNext, DirectSystemVars
<1> QED
  BY <1>1, <1>2, <1>3, DirectInvInductive, PTL
  DEF DirectSafetySpec, DirectAuditsFollowLifecycle, DirectLifecycle!LifecycleSpec

-----------------------------------------------------------------------------
(***************************************************************************)
(* Verdicts.  Two facts make VerdictsAreEarned inductive: an audit is      *)
(* never published in the future, so that a challenge comes after it, and  *)
(* a challenged audit has a challenger, so that the arbiter's verdict is   *)
(* never taken for the release of an unchallenged stake.                   *)
(***************************************************************************)
VerdictsInv ==
  /\ VerdictsAreEarned
  /\ \A id \in AuditIds :
       /\ audits[id].publishedAt <= now
       /\ audits[id].state = "Challenged" => audits[id].challenger # NoAddress

\* Rewriting one audit keeps VerdictsInv when the new record obeys it.
LEMMA VerdictsOfOneAudit ==
  ASSUME DirectTypeOK, VerdictsInv, now' = now,
         NEW id \in AuditIds, NEW audit,
         audits' = [audits EXCEPT ![id] = audit],
         audit.publishedAt <= now,
         audit.state = "Challenged" => audit.challenger # NoAddress,
         audit.challenger # NoAddress =>
           /\ audit.challenger # audit.auditor
           /\ audit.challengedAt \in
                audit.publishedAt .. (audit.publishedAt + ChallengeWindow),
         audit.state = "Resolved" /\ audit.challenger = NoAddress =>
           /\ audit.resolution = "ChallengeRejected"
           /\ now > audit.publishedAt + ChallengeWindow
  PROVE  VerdictsInv'
<1>1. ASSUME NEW d \in AuditIds
      PROVE  audits'[d] = IF d = id THEN audit ELSE audits[d]
  BY DEF DirectTypeOK
<1> QED BY <1>1 DEF VerdictsInv, VerdictsAreEarned

LEMMA DirectNextVerdicts ==
  ASSUME ChainTypeOK, DirectTypeOK, VerdictsInv, DirectNext, now' = now
  PROVE  VerdictsInv'
<1>0. /\ now \in Nat /\ ChallengeWindow \in Nat
      /\ \A id \in AuditIds : audits[id] \in AuditRecord
      /\ nextAuditId \in 0..MaxAudits
  BY ParameterAssumption DEF ChainTypeOK, DirectTypeOK, Time
<1>1. ASSUME NEW sender \in Address, NEW value \in MsgValues,
             PublishAudit(sender, value)
      PROVE  VerdictsInv'
  <2> DEFINE id == nextAuditId + 1
             audit == [NoAudit EXCEPT !.auditor = sender, !.publishedAt = now,
                                      !.stakeAmount = value,
                                      !.state = "Published"]
  <2>1. id \in AuditIds /\ audits' = [audits EXCEPT ![id] = audit]
    BY <1>0, <1>1, MaxAuditsAssumption DEF PublishAudit, AuditIds
  <2>2. /\ audit.publishedAt <= now /\ audit.state = "Published"
        /\ audit.challenger = NoAddress
    BY <1>0 DEF NoAudit
  <2> HIDE DEF audit, id
  <2> QED BY <2>1, <2>2, VerdictsOfOneAudit
<1>2. ASSUME NEW sender \in Address, NEW id \in AuditIds,
             NEW value \in MsgValues, ChallengeAudit(sender, id, value)
      PROVE  VerdictsInv'
  <2> DEFINE audit == [audits[id] EXCEPT !.state = "Challenged",
                                         !.challengedAt = now,
                                         !.challengeBond = value,
                                         !.challenger = sender]
  <2>1. audits' = [audits EXCEPT ![id] = audit]
    BY <1>2 DEF ChallengeAudit
  <2>2. /\ audit.publishedAt = audits[id].publishedAt
        /\ audit.auditor = audits[id].auditor
        /\ audit.challengedAt = now /\ audit.state = "Challenged"
        /\ audit.challenger = sender
    BY <1>0 DEF AuditRecord
  <2>3. /\ audits[id].publishedAt \in Nat /\ audits[id].publishedAt <= now
        /\ now <= audits[id].publishedAt + ChallengeWindow
        /\ sender # audits[id].auditor /\ sender # NoAddress
    BY <1>0, <1>2, AddressAssumption
    DEF ChallengeAudit, Elapsed, VerdictsInv, AuditRecord
  <2>4. /\ audit.challengedAt \in
             audit.publishedAt .. (audit.publishedAt + ChallengeWindow)
        /\ audit.publishedAt <= now
        /\ audit.challenger # audit.auditor
        /\ audit.state = "Challenged" /\ audit.challenger # NoAddress
    <3> HIDE DEF audit
    <3> QED BY <1>0, <2>2, <2>3
  <2> HIDE DEF audit
  <2> QED BY <2>1, <2>4, VerdictsOfOneAudit
<1>3. ASSUME NEW sender \in Address, NEW id \in AuditIds,
             NEW upheld \in BOOLEAN, ResolveChallenge(sender, id, upheld)
      PROVE  VerdictsInv'
  <2> DEFINE audit == [audits[id] EXCEPT
                         !.state = "Resolved",
                         !.resolution = IF upheld THEN "ChallengeUpheld"
                                                  ELSE "ChallengeRejected"]
  <2>1. audits' = [audits EXCEPT ![id] = audit]
    BY <1>3 DEF ResolveChallenge
  <2>2. /\ audit.publishedAt = audits[id].publishedAt
        /\ audit.auditor = audits[id].auditor
        /\ audit.challengedAt = audits[id].challengedAt
        /\ audit.challenger = audits[id].challenger
        /\ audit.state = "Resolved"
    BY <1>0 DEF AuditRecord
  <2>3. audits[id].challenger # NoAddress /\ audits[id].publishedAt <= now
    BY <1>3 DEF ResolveChallenge, VerdictsInv
  <2> HIDE DEF audit
  <2> QED
    BY <2>1, <2>2, <2>3, VerdictsOfOneAudit DEF VerdictsInv, VerdictsAreEarned
<1>4. ASSUME NEW id \in AuditIds, ReleaseStake(id)
      PROVE  VerdictsInv'
  <2> DEFINE audit == [audits[id] EXCEPT !.state = "Resolved",
                                         !.resolution = "ChallengeRejected"]
  <2>1. audits' = [audits EXCEPT ![id] = audit]
    BY <1>4 DEF ReleaseStake
  <2>2. /\ audit.publishedAt = audits[id].publishedAt
        /\ audit.auditor = audits[id].auditor
        /\ audit.challengedAt = audits[id].challengedAt
        /\ audit.challenger = audits[id].challenger
        /\ audit.state = "Resolved" /\ audit.resolution = "ChallengeRejected"
    BY <1>0 DEF AuditRecord
  <2>3. /\ now > audits[id].publishedAt + ChallengeWindow
        /\ audits[id].publishedAt <= now
    BY <1>4 DEF ReleaseStake, Elapsed, VerdictsInv
  <2> HIDE DEF audit
  <2> QED
    BY <2>1, <2>2, <2>3, VerdictsOfOneAudit DEF VerdictsInv, VerdictsAreEarned
<1> QED BY <1>1, <1>2, <1>3, <1>4 DEF DirectNext

\* Time only makes more releases possible.
LEMMA VerdictsInTime ==
  ASSUME ChainTypeOK, DirectTypeOK, VerdictsInv, audits' = audits,
         now' \in Nat, now <= now'
  PROVE  VerdictsInv'
BY ParameterAssumption
DEF ChainTypeOK, DirectTypeOK, Time, AuditRecord, VerdictsInv, VerdictsAreEarned

\* A direct audit is upheld against only after a challenge by somebody else
\* inside the window, and an unchallenged one is resolved only in favour of
\* its auditor and after the window, however the calls interleave.
THEOREM DirectVerdictsAreEarned == DirectSafetySpec => []VerdictsAreEarned
<1>1. DirectSystemInit => DirectInv /\ VerdictsInv
  <2>1. DirectSystemInit => DirectInv
    BY DirectInitInv
    DEF DirectSystemInit, DirectInv, DirectSystemTypeOK, DirectSolvency, ChainInit
  <2>2. DirectSystemInit => VerdictsInv
    BY DEF DirectSystemInit, ChainInit, DirectInit, NoAudit, VerdictsInv,
           VerdictsAreEarned
  <2> QED BY <2>1, <2>2
<1>2. DirectInv /\ VerdictsInv /\ [DirectSystemNext]_DirectSystemVars
        => DirectInv' /\ VerdictsInv'
  <2> SUFFICES ASSUME DirectInv, VerdictsInv,
                      [DirectSystemNext]_DirectSystemVars
               PROVE  DirectInv' /\ VerdictsInv'
    OBVIOUS
  <2>1. ChainTypeOK /\ DirectTypeOK /\ now \in Nat
    BY DEF DirectInv, DirectSystemTypeOK, ChainTypeOK, Time
  <2>2. CASE DirectNext /\ UNCHANGED now
    BY <2>1, <2>2, DirectNextVerdicts, DirectInvInductive
  <2>3. CASE AdvanceTime /\ UNCHANGED <<balance, audits, nextAuditId>>
    BY <2>1, <2>3, VerdictsInTime, DirectInvInductive DEF AdvanceTime
  <2>4. CASE UNCHANGED DirectSystemVars
    BY <2>1, <2>4, VerdictsInTime, DirectInvInductive DEF DirectSystemVars
  <2> QED BY <2>2, <2>3, <2>4 DEF DirectSystemNext
<1>3. VerdictsInv => VerdictsAreEarned
  BY DEF VerdictsInv
<1> QED BY <1>1, <1>2, <1>3, PTL DEF DirectSafetySpec

\* What one call may do to the record of one audit.
HistoryOf(old, new) ==
  /\ old.state = "Resolved" => new = old
  /\ old.state = "Challenged" =>
       new \in {old, [old EXCEPT !.state = "Resolved",
                                 !.resolution = new.resolution]}
  /\ old.state # "None" =>
       /\ new.auditor = old.auditor
       /\ new.stakeAmount = old.stakeAmount
       /\ new.publishedAt = old.publishedAt

LEMMA HistoryOfOneAudit ==
  ASSUME DirectTypeOK, NEW id \in AuditIds, NEW audit,
         audits' = [audits EXCEPT ![id] = audit],
         HistoryOf(audits[id], audit)
  PROVE  \A d \in AuditIds : HistoryOf(audits[d], audits'[d])
<1> SUFFICES ASSUME NEW d \in AuditIds
             PROVE  HistoryOf(audits[d], audits'[d])
  OBVIOUS
<1>1. CASE d = id
  BY <1>1 DEF DirectTypeOK
<1>2. CASE d # id
  BY <1>2 DEF DirectTypeOK, HistoryOf
<1> QED BY <1>1, <1>2

LEMMA DirectNextHistory ==
  ASSUME DirectTypeOK, DirectBlank, DirectNext
  PROVE  \A d \in AuditIds : HistoryOf(audits[d], audits'[d])
<1>0. /\ \A id \in AuditIds : audits[id] \in AuditRecord
      /\ nextAuditId \in 0..MaxAudits
  BY DEF DirectTypeOK
<1>1. ASSUME NEW sender \in Address, NEW value \in MsgValues,
             PublishAudit(sender, value)
      PROVE  \A d \in AuditIds : HistoryOf(audits[d], audits'[d])
  <2> DEFINE id == nextAuditId + 1
             audit == [NoAudit EXCEPT !.auditor = sender, !.publishedAt = now,
                                      !.stakeAmount = value,
                                      !.state = "Published"]
  <2>1. id \in AuditIds /\ audits' = [audits EXCEPT ![id] = audit]
    BY <1>0, <1>1, MaxAuditsAssumption DEF PublishAudit, AuditIds
  <2>2. audits[id].state = "None"
    BY <1>0, <2>1 DEF DirectBlank, NoAudit
  <2> HIDE DEF audit, id
  <2>3. HistoryOf(audits[id], audit)
    BY <2>2 DEF HistoryOf
  <2> QED BY <2>1, <2>3, HistoryOfOneAudit
<1>2. ASSUME NEW sender \in Address, NEW id \in AuditIds,
             NEW value \in MsgValues, ChallengeAudit(sender, id, value)
      PROVE  \A d \in AuditIds : HistoryOf(audits[d], audits'[d])
  <2> DEFINE audit == [audits[id] EXCEPT !.state = "Challenged",
                                         !.challengedAt = now,
                                         !.challengeBond = value,
                                         !.challenger = sender]
  <2>1. audits' = [audits EXCEPT ![id] = audit] /\ audits[id].state = "Published"
    BY <1>2 DEF ChallengeAudit
  <2>2. HistoryOf(audits[id], audit)
    BY <1>0, <2>1 DEF HistoryOf, AuditRecord
  <2> QED BY <2>1, <2>2, HistoryOfOneAudit
<1>3. ASSUME NEW sender \in Address, NEW id \in AuditIds,
             NEW upheld \in BOOLEAN, ResolveChallenge(sender, id, upheld)
      PROVE  \A d \in AuditIds : HistoryOf(audits[d], audits'[d])
  <2> DEFINE verdict == IF upheld THEN "ChallengeUpheld" ELSE "ChallengeRejected"
             audit == [audits[id] EXCEPT !.state = "Resolved",
                                         !.resolution = verdict]
  <2>1. audits' = [audits EXCEPT ![id] = audit] /\ audits[id].state = "Challenged"
    BY <1>3 DEF ResolveChallenge
  <2>2. /\ audit.resolution = verdict
        /\ audit.auditor = audits[id].auditor
        /\ audit.stakeAmount = audits[id].stakeAmount
        /\ audit.publishedAt = audits[id].publishedAt
    BY <1>0 DEF AuditRecord
  <2>3. HistoryOf(audits[id], audit)
    BY <2>1, <2>2 DEF HistoryOf
  <2> QED BY <2>1, <2>3, HistoryOfOneAudit
<1>4. ASSUME NEW id \in AuditIds, ReleaseStake(id)
      PROVE  \A d \in AuditIds : HistoryOf(audits[d], audits'[d])
  <2> DEFINE audit == [audits[id] EXCEPT !.state = "Resolved",
                                         !.resolution = "ChallengeRejected"]
  <2>1. audits' = [audits EXCEPT ![id] = audit] /\ audits[id].state = "Published"
    BY <1>4 DEF ReleaseStake
  <2>2. HistoryOf(audits[id], audit)
    BY <1>0, <2>1 DEF HistoryOf, AuditRecord
  <2> QED BY <2>1, <2>2, HistoryOfOneAudit
<1> QED BY <1>1, <1>2, <1>3, <1>4 DEF DirectNext

\* No call of the single-audit flow rewrites history: a resolved audit never
\* changes, a verdict keeps the parties and the amounts, and publishing never
\* reuses an id.
THEOREM DirectHistoryIsKept == DirectSafetySpec => AuditHistoryIsKept
<1> DEFINE Kept == \A id \in AuditIds :
                     LET old == audits[id]
                         new == audits'[id]
                     IN  /\ old.state = "Resolved" => new = old
                         /\ old.state = "Challenged" =>
                              new \in {old, [old EXCEPT !.state = "Resolved",
                                                        !.resolution = new.resolution]}
                         /\ old.state # "None" =>
                              /\ new.auditor = old.auditor
                              /\ new.stakeAmount = old.stakeAmount
                              /\ new.publishedAt = old.publishedAt
<1>1. DirectSystemInit => DirectInv
  BY DirectInitInv
  DEF DirectSystemInit, DirectInv, DirectSystemTypeOK, DirectSolvency, ChainInit
<1>2. DirectInv /\ [DirectSystemNext]_DirectSystemVars => [Kept]_DirectSystemVars
  <2> SUFFICES ASSUME DirectInv, DirectSystemNext
               PROVE  Kept
    OBVIOUS
  <2>1. CASE DirectNext
    BY <2>1, DirectNextHistory DEF DirectInv, DirectSystemTypeOK, HistoryOf
  <2>2. CASE audits' = audits
    BY <2>2
  <2> QED BY <2>1, <2>2 DEF DirectSystemNext
<1> QED
  BY <1>1, <1>2, DirectInvInductive, PTL DEF DirectSafetySpec, AuditHistoryIsKept

-----------------------------------------------------------------------------
(***************************************************************************)
(* The whole contract.                                                     *)
(***************************************************************************)
ContractInvariant ==
  /\ DirectTypeOK
  /\ DirectBlank
  /\ RequestInvariant
  /\ Solvency

LEMMA ContractInvariantInit ==
  ASSUME Init
  PROVE  ContractInvariant
<1>1. DirectTypeOK /\ DirectBlank /\ DirectEscrow = 0
  BY DirectInitInv DEF Init
<1>2. RequestInvariant /\ RequestEscrow = 0 /\ balance = 0
  BY RequestInvariantInit, NothingOwedAtFirst DEF Init, ChainInit
<1> QED BY <1>1, <1>2 DEF ContractInvariant, Solvency

\* A flow whose variables rest owes what it owed.
LEMMA DirectRests ==
  ASSUME DirectTypeOK, DirectBlank, UNCHANGED directVars
  PROVE  DirectTypeOK' /\ DirectBlank' /\ DirectEscrow' = DirectEscrow
BY DEF directVars, DirectTypeOK, DirectBlank, DirectEscrow, Held

LEMMA ContractInvariantInductive ==
  ASSUME ContractInvariant, [Next]_vars
  PROVE  ContractInvariant'
<1>0. /\ DirectTypeOK /\ DirectBlank /\ RequestInvariant /\ ChainTypeOK
      /\ balance = DirectEscrow + RequestEscrow
      /\ balance \in Nat /\ DirectEscrow \in Nat
  BY DirectEscrowInt
  DEF ContractInvariant, Solvency, RequestInvariant, RequestCore, ChainTypeOK
<1>a. RequestEscrow \in Int
  <2>1. RequestShape
    BY <1>0 DEF RequestInvariant, RequestCore
  <2>2. ClaimsHeld \in Nat /\ RequestsHeld \in Int /\ RefundsHeld \in Nat
        /\ protocolFees \in Nat /\ resolutionFees \in Nat
        /\ RequestEscrow = ClaimsHeld + RequestsHeld + RefundsHeld
                             + protocolFees + resolutionFees
    BY <2>1, HeldTypes DEF RequestShape
  <2> QED BY <2>2
<1>b. \A c, d, r \in Int : /\ (d + (c - (d + r))) + r = c
                            /\ d + (r + (c - (d + r))) = c
  OBVIOUS
<1>1. CASE DirectNext /\ UNCHANGED <<now, requestVars>>
  <2>1. DirectTypeOK' /\ balance' \in Nat /\ DirectBlank'
    BY <1>0, <1>1, DirectNextTypes, DirectNextBlank
  <2>2. RequestInvariant'
    <3>1. now' \in Time /\ now <= now'
      BY <1>0, <1>1 DEF ChainTypeOK, Time
    <3> QED BY <1>0, <1>1, <2>1, <3>1, RequestInvariantLater
  <2>3. DirectEscrow' = DirectEscrow + (balance' - balance)
        /\ RequestEscrow' = RequestEscrow
    BY <1>0, <1>1, DirectNextMoves, EscrowInTime
  <2>4. DirectEscrow' + RequestEscrow' = balance'
    <3>1. /\ DirectEscrow \in Int /\ RequestEscrow \in Int
          /\ balance' \in Int
      BY <1>0, <1>a, <2>1
    <3>2. (DirectEscrow + (balance' - (DirectEscrow + RequestEscrow)))
            + RequestEscrow = balance'
      BY <1>b, <3>1
    <3> QED BY <1>0, <2>3, <3>2
  <2> QED BY <2>1, <2>2, <2>4 DEF ContractInvariant, Solvency
<1>2. CASE RequestNext /\ UNCHANGED <<now, directVars>>
  <2>1. RequestInvariant' /\ balance' \in Nat
    BY <1>0, <1>2, RequestInvariantNext
    DEF RequestInvariant, RequestCore, ChainTypeOK
  <2>2. DirectTypeOK' /\ DirectBlank' /\ DirectEscrow' = DirectEscrow
    BY <1>0, <1>2, DirectRests
  <2>3. RequestEscrow' = RequestEscrow + (balance' - balance)
    BY <1>0, <1>2, RequestNextMoves DEF EscrowMoves
  <2>4. DirectEscrow' + RequestEscrow' = balance'
    <3>1. /\ DirectEscrow \in Int /\ RequestEscrow \in Int
          /\ balance' \in Int
      BY <1>0, <1>a, <2>1
    <3>2. DirectEscrow
            + (RequestEscrow + (balance' - (DirectEscrow + RequestEscrow)))
            = balance'
      BY <1>b, <3>1
    <3> QED BY <1>0, <2>2, <2>3, <3>2
  <2> QED BY <2>1, <2>2, <2>4 DEF ContractInvariant, Solvency
<1>3. ASSUME now' \in Time, now <= now', UNCHANGED <<balance, directVars, requestVars>>
      PROVE  ContractInvariant'
  <2>1. RequestInvariant' /\ RequestEscrow' = RequestEscrow
    BY <1>0, <1>3, RequestInvariantLater, EscrowInTime
  <2>2. DirectTypeOK' /\ DirectBlank' /\ DirectEscrow' = DirectEscrow
    BY <1>0, <1>3, DirectRests
  <2> QED BY <1>0, <1>3, <2>1, <2>2 DEF ContractInvariant, Solvency
<1>4. CASE NextBlock
  <2>1. now' \in Time /\ now <= now'
    BY <1>0, <1>4, BoundAssumption DEF NextBlock, AdvanceTime, ChainTypeOK, Time
  <2> QED BY <1>3, <1>4, <2>1 DEF NextBlock
<1>5. CASE UNCHANGED vars
  <2>1. now' \in Time /\ now <= now'
    BY <1>0, <1>5 DEF vars, ChainTypeOK, Time
  <2> QED BY <1>3, <1>5, <2>1 DEF vars
<1> QED BY <1>1, <1>2, <1>4, <1>5 DEF Next

-----------------------------------------------------------------------------
(***************************************************************************)
(* Every payout is covered: each debt is a term of a sum that the balance  *)
(* equals, and no debt is negative.                                        *)
(***************************************************************************)

\* What is left of a bounty covers the share of each claimant still to come.
LEMMA LeftCoversShares ==
  ASSUME RequestInvariant, NEW r \in RequestIds
  PROVE  /\ RequestHeld(r) \in Nat
         /\ settlements[r].finalized =>
              \A c \in EligibleClaims(r) \ WithdrawnClaims(r) :
                ClaimBountyShare(claims[c], settlements[r]) \in 0..RequestHeld(r)
<1> DEFINE f == [c \in ClaimIds |-> ClaimBountyShare(claims[c], settlements[r])]
           E == EligibleClaims(r)
           W == WithdrawnClaims(r)
           D == settlements[r].distributableBountyAmount
           paid == settlements[r].cumulativeBountyWithdrawn
<1>0. /\ RequestShape /\ RequestFigure(r) /\ RequestStage(r)
      /\ requests[r].bountyAmount \in Nat
  BY DEF RequestInvariant, RequestCore, RequestFigures, RequestStages,
         RequestShape, RequestShapeRecord
<1>1. CASE ~settlements[r].finalized
  BY <1>0, <1>1 DEF RequestHeld
<1>2. CASE settlements[r].finalized
  <2>1. /\ W \subseteq E /\ E \subseteq ClaimIds /\ IsFiniteSet(E) /\ IsFiniteSet(W)
    <3>1. W \subseteq E /\ E \subseteq ClaimIds
      BY <1>0 DEF RequestFigure, EligibleClaims, ClaimsOf
    <3> HIDE DEF E, W
    <3> QED BY <3>1, ConstantTypes, FS_Subset
  <2>2. \A c \in ClaimIds : f[c] \in Nat
    BY <1>2, SharesFitTheBounty
  <2>3. SumFunctionOnSet(f, E) <= D /\ paid = SumFunctionOnSet(f, W)
    BY <1>0, <1>2, SharesFitTheBounty DEF SharesOf, RequestFigure
  <2>4. D \in Nat
    BY <1>0, <1>2 DEF RequestFigure
  <2>5. \A c \in ClaimIds : f[c] = ClaimBountyShare(claims[c], settlements[r])
    OBVIOUS
  <2>6. requests[r].state = "Settled"
    BY <1>0, <1>2 DEF RequestStage
  <2>7. RequestHeld(r) = IF settlements[r].requesterRefundWithdrawn THEN 0
                         ELSE D - paid
    BY <1>2, <2>6 DEF RequestHeld
  <2>8. settlements[r].requesterRefundWithdrawn => E = W
    BY <1>0 DEF RequestFigure
  <2> HIDE DEF f, E, W, D, paid
  <2>9. /\ SumFunctionOnSet(f, W) \in Nat /\ SumFunctionOnSet(f, E) \in Nat
        /\ SumFunctionOnSet(f, W) <= SumFunctionOnSet(f, E)
    BY <2>1, <2>2, SumNat, SumOfPart
  <2>10. RequestHeld(r) \in Nat
    BY <2>3, <2>4, <2>7, <2>9
  <2>11. ASSUME NEW c \in E \ W
         PROVE  f[c] \in 0..RequestHeld(r)
    <3>1. IsFiniteSet(W \cup {c}) /\ W \cup {c} \in SUBSET E
          /\ (W \cup {c}) \ {c} = W /\ c \in W \cup {c} /\ c \in ClaimIds
      BY <2>1, FS_AddElement
    <3>2. SumFunctionOnSet(f, W \cup {c}) <= SumFunctionOnSet(f, E)
      BY <2>1, <2>2, <3>1, SumOfPart
    <3>3. SumFunctionOnSet(f, W \cup {c}) = f[c] + SumFunctionOnSet(f, W)
      <4>1. \A d \in W \cup {c} : f[d] \in Int
        BY <2>1, <2>2
      <4> QED BY <3>1, <4>1, SumSplit
    <3>4. ~settlements[r].requesterRefundWithdrawn
      BY <2>8
    <3> QED BY <2>2, <2>3, <2>4, <2>7, <2>9, <3>1, <3>2, <3>3, <3>4
  <2> QED BY <2>1, <2>5, <2>10, <2>11 DEF E, W
<1> QED BY <1>1, <1>2

LEMMA InvariantCoversPayouts ==
  ASSUME ContractInvariant
  PROVE  PayoutsAreCovered
<1>0. /\ DirectTypeOK /\ RequestInvariant /\ RequestCore /\ RequestShape
      /\ ClaimsGivenOut /\ RequestTotals
      /\ balance = DirectEscrow + RequestEscrow
      /\ balance \in Nat /\ DirectEscrow \in Nat
      /\ protocolFees \in Nat /\ resolutionFees \in Nat
  BY DirectEscrowInt
  DEF ContractInvariant, Solvency, RequestInvariant, RequestCore, ChainTypeOK,
      RequestShape
<1>1. /\ ClaimsHeld \in Nat /\ RefundsHeld \in Nat
      /\ RequestEscrow = ClaimsHeld + RequestsHeld + RefundsHeld
                           + protocolFees + resolutionFees
      /\ \A c \in ClaimIds : ClaimHeld(c) \in Nat
      /\ \A a \in Address : bondRefunds[a] \in Nat
  BY <1>0, HeldTypes
<1>2. \A r \in RequestIds : RequestHeld(r) \in 0..RequestsHeld
  <2> DEFINE f == [r \in RequestIds |-> RequestHeld(r)]
  <2>1. \A r \in RequestIds : f[r] \in Nat
    BY <1>0, LeftCoversShares
  <2>2. RequestsHeld = SumFunctionOnSet(f, RequestIds)
    BY DEF RequestsHeld
  <2>3. \A r \in RequestIds : f[r] = RequestHeld(r)
    OBVIOUS
  <2> HIDE DEF f
  <2>4. RequestsHeld \in Nat /\ \A r \in RequestIds : f[r] <= RequestsHeld
    BY <2>1, <2>2, ConstantTypes, SumNat, SumBoundsTerm
  <2> QED BY <2>1, <2>3, <2>4
<1>3. \A c \in ClaimIds : ClaimHeld(c) <= ClaimsHeld
  <2> DEFINE f == [c \in ClaimIds |-> ClaimHeld(c)]
  <2>1. /\ \A c \in ClaimIds : f[c] \in Nat /\ f[c] = ClaimHeld(c)
        /\ ClaimsHeld = SumFunctionOnSet(f, ClaimIds)
    BY <1>1 DEF ClaimsHeld
  <2> HIDE DEF f
  <2>2. \A c \in ClaimIds : f[c] <= ClaimsHeld
    BY <2>1, ConstantTypes, SumBoundsTerm
  <2> QED BY <2>1, <2>2
<1>4. \A a \in Address : bondRefunds[a] <= RefundsHeld
  BY <1>1, ConstantTypes, SumBoundsTerm DEF RefundsHeld
<1>5. \A id \in AuditIds : HeldFor(audits[id]) \in Nat
                           /\ HeldFor(audits[id]) <= DirectEscrow
  <2>1. \A id \in AuditIds : audits[id] \in AuditRecord
    BY <1>0 DEF DirectTypeOK
  <2>2. \A id \in AuditIds : HeldFor(audits[id]) \in Nat
    BY <2>1 DEF HeldFor, AuditRecord
  <2>3. \A id \in AuditIds : Held[id] = HeldFor(audits[id])
    BY DEF Held
  <2> QED
    BY <2>2, <2>3, AuditIdsAreFinite, SumBoundsTerm DEF DirectEscrow
<1>6. RequestsHeld \in Nat
  <2> DEFINE f == [r \in RequestIds |-> RequestHeld(r)]
  <2>1. \A r \in RequestIds : f[r] \in Nat
    BY <1>0, LeftCoversShares
  <2>2. RequestsHeld = SumFunctionOnSet(f, RequestIds)
    BY DEF RequestsHeld
  <2> HIDE DEF f
  <2> QED BY <2>1, <2>2, ConstantTypes, SumNat
<1>7. /\ DirectEscrow <= balance
      /\ ClaimsHeld + RequestsHeld <= balance
      /\ RefundsHeld <= balance /\ protocolFees + resolutionFees <= balance
  <2>1. balance = DirectEscrow
                    + (ClaimsHeld + RequestsHeld + RefundsHeld
                         + protocolFees + resolutionFees)
    BY <1>0, <1>1
  <2>2. \A d, c, r, b, p, q \in Nat :
          LET total == d + (c + r + b + p + q)
          IN  d <= total /\ c + r <= total /\ b <= total /\ p + q <= total
    OBVIOUS
  <2> QED BY <1>0, <1>1, <1>6, <2>1, <2>2
<1>8. ASSUME NEW c \in ClaimIds, claimSettlements[c].eligible,
             ~claimSettlements[c].withdrawn,
             settlements[claims[c].requestId].finalized
      PROVE  claims[c].stakeAmount
               + ClaimBountyShare(claims[c], settlements[claims[c].requestId])
               <= balance
  <2>1. claims[c].requestId # 0
    <3>1. c \in Nat /\ nextClaimId \in Nat
      BY <1>0, ConstantTypes DEF RequestShape, ClaimIds
    <3>2. c <= nextClaimId
      BY <1>0, <1>8, <3>1 DEF ClaimsGivenOut
    <3> QED BY <1>0, <3>2 DEF ClaimsGivenOut
  <2>2. /\ claims[c].requestId \in RequestIds /\ claims[c] \in ClaimRecord
        /\ c \in ClaimsOf(claims[c].requestId)
        /\ claims[c].state \in {"Submitted", "Resolved"}
    BY <1>0, <1>8, <2>1, WithdrawnIsReady
  <2>3. PICK r \in RequestIds : r = claims[c].requestId
    BY <2>2
  <2> DEFINE stake == claims[c].stakeAmount
             share == ClaimBountyShare(claims[c], settlements[r])
  <2>4. ClaimHeld(c) = stake
    BY <1>8, <2>2 DEF ClaimHeld
  <2>5. c \in EligibleClaims(r) \ WithdrawnClaims(r)
    BY <1>8, <2>2, <2>3 DEF EligibleClaims, WithdrawnClaims
  <2>6. share \in 0..RequestHeld(r)
    BY <1>0, <1>8, <2>3, <2>5, LeftCoversShares
  <2>7. stake \in Nat /\ stake <= ClaimsHeld /\ RequestHeld(r) \in 0..RequestsHeld
    BY <1>1, <1>2, <1>3, <2>4
  <2>8. settlements[claims[c].requestId] = settlements[r]
    BY <2>3
  <2> HIDE DEF stake, share
  <2>9. stake + share <= ClaimsHeld + RequestsHeld
    BY <1>1, <1>6, <2>6, <2>7
  <2>10. stake + share <= balance
    <3>1. stake + share \in Int /\ ClaimsHeld + RequestsHeld \in Int
      BY <1>1, <1>6, <2>6, <2>7
    <3> QED BY <1>0, <1>7, <2>9, <3>1
  <2> QED BY <2>8, <2>10 DEF stake, share
<1>9. /\ \A id \in AuditIds : HeldFor(audits[id]) <= balance
      /\ \A a \in Address : bondRefunds[a] <= balance
  BY <1>0, <1>1, <1>4, <1>5, <1>7
<1>10. /\ \A c \in ClaimIds : ClaimHeld(c) <= balance
       /\ \A r \in RequestIds : RequestHeld(r) \in 0..balance
  <2>1. ClaimsHeld <= balance /\ RequestsHeld <= balance
    BY <1>0, <1>1, <1>6, <1>7
  <2> QED BY <1>0, <1>1, <1>2, <1>3, <1>6, <2>1
<1> QED BY <1>7, <1>8, <1>9, <1>10 DEF PayoutsAreCovered

\* The two flows of the contract share one balance.  It always equals what
\* audits, claims, requests, expired bonds and the treasury are owed together,
\* and so covers each payout that a call could make next, whatever the order
\* of the calls of both flows.
THEOREM ContractEscrowIsSound == Spec => []EscrowIsSound
<1>1. ContractInvariant => EscrowIsSound
  <2> SUFFICES ASSUME ContractInvariant
               PROVE  EscrowIsSound
    OBVIOUS
  <2>1. TypeOK
    BY InvariantTypes
    DEF ContractInvariant, TypeOK, RequestSystemTypeOK
  <2> QED
    BY <2>1, InvariantCoversPayouts DEF ContractInvariant, EscrowIsSound
<1> QED
  BY <1>1, ContractInvariantInit, ContractInvariantInductive, PTL DEF Spec

-----------------------------------------------------------------------------
(***************************************************************************)
(* What was proved of one flow alone holds of the contract that runs both. *)
(***************************************************************************)

\* The parts of ContractInvariant that the lemmas of the two flows ask for.
LEMMA InvariantParts ==
  ASSUME ContractInvariant
  PROVE  /\ ChainTypeOK /\ DirectTypeOK /\ DirectBlank /\ now \in Nat
         /\ RequestCore /\ RequestTotals /\ RequestFigures
         /\ RequestShape /\ RequestsGivenOut /\ ClaimsGivenOut /\ ClaimsListed
         /\ RequestStages /\ ClassifiedReady /\ IdentitiesInv
BY DEF ContractInvariant, RequestInvariant, RequestCore, ChainTypeOK, Time

LEMMA ContractVerdictsInductive ==
  ASSUME ContractInvariant, VerdictsInv, [Next]_vars
  PROVE  VerdictsInv'
<1>0. ChainTypeOK /\ DirectTypeOK /\ now \in Nat
  BY InvariantParts
<1>1. CASE DirectNext /\ UNCHANGED <<now, requestVars>>
  BY <1>0, <1>1, DirectNextVerdicts
<1>2. ASSUME audits' = audits, now' = now \/ now' = now + 1
      PROVE  VerdictsInv'
  <2>1. now' \in Nat /\ now <= now'
    BY <1>0, <1>2
  <2> QED BY <1>0, <1>2, <2>1, VerdictsInTime
<1>3. CASE RequestNext /\ UNCHANGED <<now, directVars>>
  BY <1>2, <1>3 DEF directVars
<1>4. CASE NextBlock
  BY <1>2, <1>4 DEF NextBlock, AdvanceTime, directVars
<1>5. CASE UNCHANGED vars
  BY <1>2, <1>5 DEF vars, directVars
<1> QED BY <1>1, <1>3, <1>4, <1>5 DEF Next

\* However the calls of the two flows interleave, each flow keeps what it
\* promises alone: verdicts are earned, windows and identities are kept, and
\* totals and shares are what one pass over the claims would give.
THEOREM ContractKeepsPromises ==
  Spec => [](/\ VerdictsAreEarned /\ WindowsAreKept /\ OneClaimPerIdentity
             /\ RequiredIdentityIsUnchallenged /\ TotalsMatchClaims
             /\ SharesAreSettled)
<1> DEFINE Promises == /\ VerdictsAreEarned /\ WindowsAreKept /\ OneClaimPerIdentity
                       /\ RequiredIdentityIsUnchallenged /\ TotalsMatchClaims
                       /\ SharesAreSettled
<1>1. Init => ContractInvariant /\ VerdictsInv
  <2>1. Init => VerdictsInv
    BY DEF Init, ChainInit, DirectInit, NoAudit, VerdictsInv, VerdictsAreEarned
  <2> QED BY <2>1, ContractInvariantInit
<1>2. ContractInvariant /\ VerdictsInv => Promises
  <2> SUFFICES ASSUME ContractInvariant, VerdictsInv
               PROVE  Promises
    OBVIOUS
  <2>1. RequestInvariant
    BY DEF ContractInvariant
  <2>2. WindowsAreKept
    BY InvariantParts, CoreKeepsWindows
  <2>3. OneClaimPerIdentity /\ RequiredIdentityIsUnchallenged
    BY InvariantParts DEF IdentitiesInv
  <2>4. TotalsMatchClaims /\ SharesAreSettled
    BY <2>1, InvariantMatchesTotals, InvariantSettlesShares
  <2> QED BY <2>2, <2>3, <2>4 DEF VerdictsInv
<1> QED
  BY <1>1, <1>2, ContractInvariantInductive, ContractVerdictsInductive, PTL DEF Spec

\* The contract as a whole implements the lifecycle of an entry twice, for its
\* direct audits and for the claims on its requests: a call of one flow is no
\* step of an entry of the other.
THEOREM ContractImplementsLifecycle ==
  Spec => DirectAuditsFollowLifecycle /\ ClaimsFollowLifecycle
<1>1. Init => DirectLifecycle!LifecycleInit /\ RequestLifecycle!LifecycleInit
  <2>1. Init => DirectLifecycle!LifecycleInit
    BY DEF Init, DirectInit, DirectLifecycle!LifecycleInit,
           DirectLifecycle!Entries, DirectStages, AuditStage, NoAudit
  <2>2. Init => RequestLifecycle!LifecycleInit
    BY DEF Init, RequestInit, RequestLifecycle!LifecycleInit,
           RequestLifecycle!Entries, ClaimStages, ClaimStage, NoClaim
  <2> QED BY <2>1, <2>2
<1>2. ContractInvariant /\ [Next]_vars
        => /\ [DirectLifecycle!LifecycleNext]_DirectStages
           /\ [RequestLifecycle!LifecycleNext]_ClaimStages
  <2> SUFFICES ASSUME ContractInvariant, [Next]_vars
               PROVE  /\ [DirectLifecycle!LifecycleNext]_DirectStages
                      /\ [RequestLifecycle!LifecycleNext]_ClaimStages
    OBVIOUS
  <2>1. audits' = audits => UNCHANGED DirectStages
    BY DEF DirectStages
  <2>2. claims' = claims => UNCHANGED ClaimStages
    BY DEF ClaimStages
  <2>3. CASE DirectNext /\ UNCHANGED <<now, requestVars>>
    BY <2>2, <2>3, InvariantParts, DirectNextLifecycle DEF requestVars
  <2>4. CASE RequestNext /\ UNCHANGED <<now, directVars>>
    <3>1. ClaimsInv
      BY InvariantParts DEF ClaimsInv, RequestShape, ClaimsGivenOut
    <3> QED BY <2>1, <2>4, <3>1, RequestNextFollows DEF directVars
  <2>5. CASE NextBlock \/ UNCHANGED vars
    BY <2>1, <2>2, <2>5 DEF NextBlock, vars, directVars, requestVars
  <2> QED BY <2>3, <2>4, <2>5 DEF Next
<1> QED
  BY <1>1, <1>2, ContractInvariantInit, ContractInvariantInductive, PTL
  DEF Spec, DirectAuditsFollowLifecycle, ClaimsFollowLifecycle,
      DirectLifecycle!LifecycleSpec, RequestLifecycle!LifecycleSpec

\* No call of either flow rewrites what the other has recorded: the history of
\* the audits, the claims that are classified, and the figures of a request
\* once it is finalized.
THEOREM ContractKeepsHistory ==
  Spec => AuditHistoryIsKept /\ ClassifiedClaimsAreFinal /\ FinalizedFiguresAreFixed
<1> DEFINE
      History == \A id \in AuditIds :
                   LET old == audits[id]
                       new == audits'[id]
                   IN  /\ old.state = "Resolved" => new = old
                       /\ old.state = "Challenged" =>
                            new \in {old, [old EXCEPT !.state = "Resolved",
                                                      !.resolution = new.resolution]}
                       /\ old.state # "None" =>
                            /\ new.auditor = old.auditor
                            /\ new.stakeAmount = old.stakeAmount
                            /\ new.publishedAt = old.publishedAt
      Final == \A r \in RequestIds : \A c \in Classified(r) :
                 /\ claims'[c] = claims[c]
                 /\ claimSettlements'[c].eligible = claimSettlements[c].eligible
      Fixed ==
        \A r \in RequestIds :
          settlements[r].finalized =>
            /\ settlements'[r] =
                 [settlements[r] EXCEPT
                    !.claimantWithdrawnCount = settlements'[r].claimantWithdrawnCount,
                    !.cumulativeBountyWithdrawn =
                       settlements'[r].cumulativeBountyWithdrawn,
                    !.requesterRefundWithdrawn =
                       @ \/ settlements'[r].requesterRefundWithdrawn]
            /\ \A c \in ClaimsOf(r) :
                 claimSettlements[c].withdrawn => claimSettlements'[c].withdrawn
<1>1. ContractInvariant /\ [Next]_vars => History /\ Final /\ Fixed
  <2> SUFFICES ASSUME ContractInvariant, [Next]_vars
               PROVE  History /\ Final /\ Fixed
    OBVIOUS
  <2>1. audits' = audits => History
    OBVIOUS
  <2>2. ASSUME UNCHANGED requestVars
        PROVE  Final /\ Fixed
    <3>1. UNCHANGED <<claims, claimSettlements, settlements>>
      BY <2>2 DEF requestVars
    <3>2. ASSUME NEW r \in RequestIds, settlements[r].finalized
          PROVE  PaymentsOnly(settlements'[r], settlements[r])
      <4>1. settlements[r] \in SettlementShape
        BY InvariantParts DEF RequestShape
      <4> QED BY <3>1, <4>1, PaymentsOnlyRecords DEF SameClassification
    <3> QED BY <3>1, <3>2 DEF PaymentsOnly
  <2>3. CASE DirectNext /\ UNCHANGED <<now, requestVars>>
    <3>1. History
      BY <2>3, InvariantParts, DirectNextHistory DEF HistoryOf
    <3> QED BY <2>2, <2>3, <3>1
  <2>4. CASE RequestNext /\ UNCHANGED <<now, directVars>>
    <3>1. History
      BY <2>1, <2>4 DEF directVars
    <3>2. Final
      BY <2>4, InvariantParts, RequestNextKeepsClassified
    <3>3. RequestShape'
      BY ContractInvariantInductive, InvariantParts DEF ContractInvariant,
         RequestInvariant, RequestCore
    <3>4. ASSUME NEW r \in RequestIds, settlements[r].finalized
          PROVE  /\ PaymentsOnly(settlements'[r], settlements[r])
                 /\ \A c \in ClaimsOf(r) :
                      claimSettlements[c].withdrawn => claimSettlements'[c].withdrawn
      BY <2>4, <3>3, <3>4, InvariantParts, RequestNextPayments, RequestNextWithdrawn
      DEF ClaimsOf
    <3> QED BY <3>1, <3>2, <3>4 DEF PaymentsOnly
  <2>5. CASE NextBlock \/ UNCHANGED vars
    <3>1. audits' = audits /\ UNCHANGED requestVars
      BY <2>5 DEF NextBlock, vars, directVars
    <3> QED BY <2>1, <2>2, <3>1
  <2> QED BY <2>3, <2>4, <2>5 DEF Next
<1> HIDE DEF History, Final, Fixed
<1>2. Spec => [][History /\ Final /\ Fixed]_vars
  BY <1>1, ContractInvariantInit, ContractInvariantInductive, PTL DEF Spec
<1>3. [History /\ Final /\ Fixed]_vars
        => /\ [History]_DirectSystemVars /\ [Final]_RequestSystemVars
           /\ [Fixed]_RequestSystemVars
  BY DEF vars, DirectSystemVars, RequestSystemVars, directVars
<1>4. Spec => [][History]_DirectSystemVars /\ [][Final]_RequestSystemVars
                /\ [][Fixed]_RequestSystemVars
  BY <1>2, <1>3, PTL
<1> QED
  BY <1>4
  DEF AuditHistoryIsKept, ClassifiedClaimsAreFinal, FinalizedFiguresAreFixed,
      History, Final, Fixed

-----------------------------------------------------------------------------
(***************************************************************************)
(* What is due stays due.  Each debt has one call that pays it, and no     *)
(* other call of either flow touches what the debt is read from.           *)
(***************************************************************************)
ReleaseStands(id) ==
  ReleaseDue(id) =>
    \/ ReleaseDue(id)' /\ audits'[id] = audits[id]
    \/ audits'[id].state = "Resolved" /\ Paid(audits[id].stakeAmount)

ShareStands(c) ==
  ShareDue(c) =>
    \/ ShareDue(c)' /\ DueOnClaim(c)' = DueOnClaim(c)
    \/ claimSettlements'[c].withdrawn /\ Paid(DueOnClaim(c))

RefundStands(r) ==
  RefundDue(r) =>
    \/ RefundDue(r)' /\ DueOnRequest(r)' = DueOnRequest(r)
    \/ ~RefundDue(r)' /\ Paid(DueOnRequest(r))

BondStands(a) ==
  \/ bondRefunds'[a] >= bondRefunds[a]
  \/ bondRefunds'[a] = 0 /\ Paid(bondRefunds[a])

\* Once the window of a published audit is over, only its release moves it.
LEMMA ReleaseDueStands ==
  ASSUME DirectTypeOK, DirectBlank, DirectNext, now' = now, NEW id \in AuditIds
  PROVE  ReleaseStands(id)
<1> SUFFICES ASSUME ReleaseDue(id)
             PROVE  \/ ReleaseDue(id)' /\ audits'[id] = audits[id]
                    \/ audits'[id].state = "Resolved" /\ Paid(audits[id].stakeAmount)
  BY DEF ReleaseStands
<1>0. /\ audits[id].state = "Published"
      /\ Elapsed(audits[id].publishedAt, ChallengeWindow)
  BY DEF ReleaseDue
<1>a. ASSUME audits'[id] = audits[id]
      PROVE  ReleaseDue(id)'
  BY <1>0, <1>a DEF ReleaseDue, Elapsed
<1>1. ASSUME NEW sender \in Address, NEW value \in MsgValues,
             PublishAudit(sender, value)
      PROVE  audits'[id] = audits[id]
  <2>1. id # nextAuditId + 1
    BY <1>0, MaxAuditsAssumption DEF DirectBlank, DirectTypeOK, AuditIds, NoAudit
  <2> QED BY <1>1, <2>1 DEF PublishAudit, DirectTypeOK
<1>2. ASSUME NEW sender \in Address, NEW d \in AuditIds,
             NEW value \in MsgValues, ChallengeAudit(sender, d, value)
      PROVE  audits'[id] = audits[id]
  BY <1>0, <1>2 DEF ChallengeAudit, DirectTypeOK
<1>3. ASSUME NEW sender \in Address, NEW d \in AuditIds,
             NEW upheld \in BOOLEAN, ResolveChallenge(sender, d, upheld)
      PROVE  audits'[id] = audits[id]
  BY <1>0, <1>3 DEF ResolveChallenge, DirectTypeOK
<1>4. ASSUME NEW d \in AuditIds, ReleaseStake(d)
      PROVE  \/ audits'[id] = audits[id]
             \/ audits'[id].state = "Resolved" /\ Paid(audits[id].stakeAmount)
  <2>1. CASE d # id
    BY <1>4, <2>1 DEF ReleaseStake, DirectTypeOK
  <2>2. CASE d = id
    <3>1. audits[id] \in AuditRecord
      BY DEF DirectTypeOK
    <3>2. audits'[id].state = "Resolved"
      BY <1>4, <2>2, <3>1 DEF ReleaseStake, DirectTypeOK, AuditRecord
    <3> QED BY <1>4, <2>2, <3>2 DEF ReleaseStake, SendValue, Paid
  <2> QED BY <2>1, <2>2
<1> QED BY <1>a, <1>1, <1>2, <1>3, <1>4 DEF DirectNext

\* A claim is marked as withdrawn by the call that pays it and by no other.
LEMMA WithdrawnBy ==
  ASSUME RequestShape, RequestNext, NEW c \in ClaimIds,
         ~claimSettlements[c].withdrawn, claimSettlements'[c].withdrawn
  PROVE  WithdrawAuditRequestClaimSettlement(c)
<1>1. ASSUME NEW r \in RequestIds, NEW maxClaims \in BatchSizes,
             ClassifyAuditRequestClaims(r, maxClaims)
      PROVE  FALSE
  BY <1>1 DEF ClassifyAuditRequestClaims, RequestShape
<1>2. ASSUME NEW claimId \in ClaimIds, WithdrawAuditRequestClaimSettlement(claimId)
      PROVE  claimId = c
  BY <1>2 DEF WithdrawAuditRequestClaimSettlement, RequestShape
<1>3. ASSUME NEW sender, NEW value, NEW r, NEW registry, NEW agentId,
             SubmitAuditRequestClaim(sender, value, r, registry, agentId)
      PROVE  claimSettlements' = claimSettlements
  BY <1>3 DEF SubmitAuditRequestClaim
<1>4. claimSettlements' # claimSettlements
  OBVIOUS
<1> QED BY <1>1, <1>2, <1>3, <1>4, CallFrames DEF RequestNext

\* The settlement of a finalized request changes when a claimant or the
\* requester is paid, and at no other time.
LEMMA FinalizedMoves ==
  ASSUME RequestShape, RequestNext, NEW r \in RequestIds, settlements[r].finalized
  PROVE  \/ settlements'[r] = settlements[r]
         \/ \E c \in ClaimsOf(r) : WithdrawAuditRequestClaimSettlement(c)
         \/ \E sender \in Address : WithdrawAuditRequestRefund(sender, r)
<1>1. ASSUME NEW q \in RequestIds, NEW maxClaims \in BatchSizes,
             ClassifyAuditRequestClaims(q, maxClaims)
      PROVE  settlements'[r] = settlements[r]
  BY <1>1 DEF ClassifyAuditRequestClaims, RequestShape
<1>2. ASSUME NEW q \in RequestIds, FinalizeAuditRequestSettlement(q)
      PROVE  settlements'[r] = settlements[r]
  BY <1>2 DEF FinalizeAuditRequestSettlement, RequestShape
<1>3. ASSUME NEW c \in ClaimIds, WithdrawAuditRequestClaimSettlement(c)
      PROVE  c \in ClaimsOf(r) \/ settlements'[r] = settlements[r]
  BY <1>3 DEF WithdrawAuditRequestClaimSettlement, RequestShape, ClaimsOf
<1>4. ASSUME NEW sender \in Address, NEW q \in RequestIds,
             WithdrawAuditRequestRefund(sender, q)
      PROVE  q = r \/ settlements'[r] = settlements[r]
  BY <1>4 DEF WithdrawAuditRequestRefund, RequestShape
<1>5. ASSUME NEW sender, NEW value, NEW q, NEW registry, NEW agentId,
             SubmitAuditRequestClaim(sender, value, q, registry, agentId)
      PROVE  settlements' = settlements
  BY <1>5 DEF SubmitAuditRequestClaim
<1>6. CASE settlements' # settlements
  <2>1. \/ \E q \in RequestIds, maxClaims \in BatchSizes :
             ClassifyAuditRequestClaims(q, maxClaims)
        \/ \E q \in RequestIds : FinalizeAuditRequestSettlement(q)
        \/ \E c \in ClaimIds : WithdrawAuditRequestClaimSettlement(c)
        \/ \E sender \in Address, q \in RequestIds :
             WithdrawAuditRequestRefund(sender, q)
    BY <1>5, <1>6, CallFrames DEF RequestNext
  <2> QED BY <1>1, <1>2, <1>3, <1>4, <2>1
<1> QED BY <1>6

\* An expired request stays expired until its requester is refunded.
LEMMA ExpiredMoves ==
  ASSUME RequestShape, RequestNext, NEW r \in RequestIds, r <= nextRequestId,
         requests[r].state = "Expired"
  PROVE  \/ requests'[r].state = "Expired"
         \/ \E sender \in Address : RefundExpiredAuditRequest(sender, r)
<1>0. AuditRequestState(r) = "Expired" /\ r \in Nat /\ nextRequestId \in Nat
  BY ConstantTypes DEF AuditRequestState, RequestShape, RequestIds
<1>1. ASSUME NEW sender, NEW value, NEW bountyAmount, NEW responseWindow,
             NEW eligibility,
             CreateAuditRequest(sender, value, bountyAmount, responseWindow,
                                eligibility)
      PROVE  requests'[r] = requests[r]
  BY <1>0, <1>1 DEF CreateAuditRequest, RequestShape
<1>2. ASSUME NEW sender, NEW value, NEW q \in RequestIds, NEW registry,
             NEW agentId,
             SubmitAuditRequestClaim(sender, value, q, registry, agentId)
      PROVE  requests'[r] = requests[r]
  <2>1. q # r
    BY <1>0, <1>2 DEF SubmitAuditRequestClaim
  <2> QED BY <1>2, <2>1 DEF SubmitAuditRequestClaim, RequestShape
<1>3. ASSUME NEW q \in RequestIds, ExpireAuditRequest(q)
      PROVE  requests'[r] = requests[r]
  <2>1. q # r
    BY <1>0, <1>3 DEF ExpireAuditRequest
  <2> QED BY <1>3, <2>1 DEF ExpireAuditRequest, RequestShape
<1>4. ASSUME NEW q \in RequestIds, FinalizeAuditRequestSettlement(q)
      PROVE  requests'[r] = requests[r]
  <2>1. q # r
    BY <1>0, <1>4 DEF FinalizeAuditRequestSettlement
  <2> QED BY <1>4, <2>1 DEF FinalizeAuditRequestSettlement, RequestShape
<1>5. ASSUME NEW sender \in Address, NEW q \in RequestIds,
             RefundExpiredAuditRequest(sender, q)
      PROVE  q = r \/ requests'[r] = requests[r]
  BY <1>5 DEF RefundExpiredAuditRequest, RequestShape
<1>6. /\ \A q, maxClaims :
           ClassifyAuditRequestClaims(q, maxClaims) => requests' = requests
      /\ \A c : WithdrawAuditRequestClaimSettlement(c) => requests' = requests
      /\ \A sender, q :
           WithdrawAuditRequestRefund(sender, q) => requests' = requests
  BY DEF ClassifyAuditRequestClaims, WithdrawAuditRequestClaimSettlement,
         WithdrawAuditRequestRefund
<1>7. CASE requests' # requests
  <2>1. \/ \E sender \in Address, value \in MsgValues, bountyAmount \in Bounties,
              responseWindow \in ResponseWindows, eligibility \in Eligibilities :
             CreateAuditRequest(sender, value, bountyAmount, responseWindow,
                                eligibility)
        \/ \E sender \in Address, value \in MsgValues, q \in RequestIds,
              registry \in Registry \cup {NoAddress}, agentId \in AgentId \cup {0} :
             SubmitAuditRequestClaim(sender, value, q, registry, agentId)
        \/ \E q \in RequestIds : ExpireAuditRequest(q)
        \/ \E q \in RequestIds : FinalizeAuditRequestSettlement(q)
        \/ \E sender \in Address, q \in RequestIds :
             RefundExpiredAuditRequest(sender, q)
    BY <1>6, <1>7, CallFrames DEF RequestNext
  <2> QED BY <1>1, <1>2, <1>3, <1>4, <1>5, <2>1
<1> QED BY <1>7

\* The figures that a share is cut from stand still once there is a share.
LEMMA ShareDueStands ==
  ASSUME RequestInvariant, RequestInvariant', RequestNext, now' = now,
         NEW c \in ClaimIds
  PROVE  ShareStands(c)
<1> SUFFICES ASSUME ShareDue(c)
             PROVE  \/ ShareDue(c)' /\ DueOnClaim(c)' = DueOnClaim(c)
                    \/ claimSettlements'[c].withdrawn /\ Paid(DueOnClaim(c))
  BY DEF ShareStands
<1>0. /\ RequestCore /\ RequestTotals /\ RequestShape /\ RequestShape'
      /\ ClaimsGivenOut
      /\ claimSettlements[c].eligible /\ ~claimSettlements[c].withdrawn
      /\ settlements[claims[c].requestId].finalized
  BY DEF RequestInvariant, RequestCore, ShareDue
<1>1. claims[c].requestId # 0
  <2>1. c \in Nat /\ nextClaimId \in Nat
    BY <1>0, ConstantTypes DEF RequestShape, ClaimIds
  <2> QED BY <1>0, <2>1 DEF ClaimsGivenOut
<1>2. PICK r \in RequestIds : r = claims[c].requestId
  BY <1>1, WithdrawnIsReady
<1>3. settlements[r].finalized /\ c \in EligibleClaims(r)
  BY <1>0, <1>2 DEF EligibleClaims, ClaimsOf
<1>4. /\ claims'[c] = claims[c]
      /\ settlements'[r].eligibleStakeTotal = settlements[r].eligibleStakeTotal
      /\ c \in EligibleClaims(r)'
  BY <1>0, <1>3, FinalizedKeeps DEF SameClassification
<1>5. /\ settlements'[r].finalized
      /\ settlements'[r].distributableBountyAmount
           = settlements[r].distributableBountyAmount
  <2>1. PaymentsOnly(settlements'[r], settlements[r])
    BY <1>0, <1>3, RequestNextPayments
  <2>2. settlements[r] \in SettlementShape
    BY <1>0 DEF RequestShape
  <2> QED BY <1>3, <2>1, <2>2 DEF PaymentsOnly, SettlementShape
<1>6. claimSettlements'[c].eligible
  BY <1>4 DEF EligibleClaims
<1>7. DueOnClaim(c)' = DueOnClaim(c)
  <2>1. ClaimBountyShare(claims[c], settlements'[r])
          = ClaimBountyShare(claims[c], settlements[r])
    BY <1>4, <1>5, SameShare
  <2> QED BY <1>2, <1>4, <2>1 DEF DueOnClaim, ClaimBountyShare
<1>8. CASE ~claimSettlements'[c].withdrawn
  BY <1>2, <1>4, <1>5, <1>6, <1>7, <1>8 DEF ShareDue
<1>9. CASE claimSettlements'[c].withdrawn
  <2>1. WithdrawAuditRequestClaimSettlement(c)
    BY <1>0, <1>9, WithdrawnBy
  <2> QED
    BY <1>9, <2>1
    DEF WithdrawAuditRequestClaimSettlement, SendValue, Paid, DueOnClaim
<1> QED BY <1>8, <1>9

\* When a refund of what is left is due, no claimant is still to be paid.
LEMMA ReadyMeansPaid ==
  ASSUME RequestInvariant, NEW r \in RequestIds, RefundReady(settlements[r])
  PROVE  EligibleClaims(r) = WithdrawnClaims(r)
<1>1. /\ EligibleClaims(r) \subseteq ClaimIds /\ IsFiniteSet(ClaimIds)
      /\ WithdrawnClaims(r) \subseteq EligibleClaims(r)
      /\ settlements[r].eligibleClaimCount = Cardinality(EligibleClaims(r))
      /\ settlements[r].claimantWithdrawnCount = Cardinality(WithdrawnClaims(r))
  BY ConstantTypes
  DEF RequestInvariant, RequestTotals, RequestTotal, RequestFigures, RequestFigure,
      EligibleClaims, ClaimsOf
<1> DEFINE E == EligibleClaims(r)
           W == WithdrawnClaims(r)
<1>2. /\ E \subseteq ClaimIds /\ IsFiniteSet(ClaimIds) /\ W \subseteq E
      /\ Cardinality(E) = 0 \/ Cardinality(W) = Cardinality(E)
  BY <1>1 DEF RefundReady
<1> HIDE DEF E, W
<1>3. IsFiniteSet(E) /\ IsFiniteSet(W)
  BY <1>2, FS_Subset
<1>4. E = W
  <2>1. CASE Cardinality(E) = 0
    BY <1>2, <1>3, <2>1, FS_EmptySet
  <2>2. CASE Cardinality(W) = Cardinality(E)
    BY <1>2, <1>3, <2>2, FS_Subset
  <2> QED BY <1>2, <2>1, <2>2
<1> QED BY <1>4 DEF E, W

\* What goes back to a requester waits for that requester only.
LEMMA RefundDueStands ==
  ASSUME RequestInvariant, RequestInvariant', RequestNext, now' = now,
         NEW r \in RequestIds
  PROVE  RefundStands(r)
<1> SUFFICES ASSUME RefundDue(r)
             PROVE  \/ RefundDue(r)' /\ DueOnRequest(r)' = DueOnRequest(r)
                    \/ ~RefundDue(r)' /\ Paid(DueOnRequest(r))
  BY DEF RefundStands
<1>0. /\ ChainTypeOK /\ RequestCore /\ RequestTotals /\ RequestShape /\ RequestShape'
      /\ RequestsGivenOut /\ RequestStage(r) /\ RequestStage(r)'
      /\ settlements[r] \in SettlementShape
  BY DEF RequestInvariant, RequestCore, RequestStages, RequestShape
<1>1. CASE requests[r].state = "Expired"
  <2>1. r <= nextRequestId
    BY <1>0, <1>1, ConstantTypes
    DEF RequestsGivenOut, NoRequest, RequestShape, RequestIds
  <2>2. requests'[r].bountyAmount = requests[r].bountyAmount
    BY <1>0, <2>1, RequestNextRequests DEF SameTerms
  <2>3. CASE requests'[r].state = "Expired"
    BY <1>1, <2>2, <2>3 DEF RefundDue, DueOnRequest
  <2>4. ASSUME NEW sender \in Address, RefundExpiredAuditRequest(sender, r)
        PROVE  ~RefundDue(r)' /\ Paid(DueOnRequest(r))
    <3>1. settlements' = settlements /\ ~settlements[r].finalized
      BY <1>0, <1>1, <2>4 DEF RefundExpiredAuditRequest, RequestStage
    <3>2. requests'[r].state = "Settled"
      <4>1. requests[r] \in RequestShapeRecord
        BY <1>0 DEF RequestShape
      <4> QED
        BY <1>0, <2>4, <4>1
        DEF RefundExpiredAuditRequest, RequestShape, RequestShapeRecord
    <3>3. Paid(DueOnRequest(r))
      BY <1>1, <2>4 DEF RefundExpiredAuditRequest, SendValue, Paid, DueOnRequest
    <3> QED BY <3>1, <3>2, <3>3 DEF RefundDue, RefundReady
  <2> QED BY <1>0, <1>1, <2>1, <2>3, <2>4, ExpiredMoves
<1>2. CASE RefundReady(settlements[r]) /\ ~settlements[r].requesterRefundWithdrawn
  <2>1. settlements[r].finalized
    BY <1>2 DEF RefundReady
  <2>2. settlements'[r].finalized
    <3>1. PaymentsOnly(settlements'[r], settlements[r])
      BY <1>0, <2>1, RequestNextPayments
    <3> QED BY <1>0, <2>1, <3>1 DEF PaymentsOnly, SettlementShape
  <2>3. requests[r].state = "Settled" /\ requests'[r].state = "Settled"
    BY <1>0, <2>1, <2>2 DEF RequestStage
  <2>4. requests'[r].bountyAmount = requests[r].bountyAmount
    BY <1>0, <2>1, FinalizedKeeps
  <2>5. CASE settlements'[r] = settlements[r]
    BY <1>2, <2>3, <2>4, <2>5 DEF RefundDue, DueOnRequest, RefundReady
  <2>6. ASSUME NEW c \in ClaimsOf(r), WithdrawAuditRequestClaimSettlement(c)
        PROVE  FALSE
    <3>1. /\ c \in ClaimIds /\ claimSettlements[c].eligible
          /\ ~claimSettlements[c].withdrawn
      BY <2>6 DEF WithdrawAuditRequestClaimSettlement, ClaimsOf
    <3> QED
      BY <1>2, <2>6, <3>1, ReadyMeansPaid DEF EligibleClaims, WithdrawnClaims
  <2>7. ASSUME NEW sender \in Address, WithdrawAuditRequestRefund(sender, r)
        PROVE  ~RefundDue(r)' /\ Paid(DueOnRequest(r))
    <3>1. settlements'[r].requesterRefundWithdrawn
      BY <1>0, <2>7 DEF WithdrawAuditRequestRefund, RequestShape, SettlementShape
    <3>2. Paid(DueOnRequest(r))
      BY <2>3, <2>7 DEF WithdrawAuditRequestRefund, SendValue, Paid, DueOnRequest
    <3> QED BY <2>3, <3>1, <3>2 DEF RefundDue
  <2> QED BY <1>0, <2>1, <2>5, <2>6, <2>7, FinalizedMoves
<1> QED BY <1>1, <1>2 DEF RefundDue

\* The credit of a challenger whose challenges expired grows until it is paid.
LEMMA BondDueStands ==
  ASSUME RequestShape, RequestNext, NEW a \in Address
  PROVE  BondStands(a)
<1>0. bondRefunds[a] \in Nat
  BY DEF RequestShape
<1>1. ASSUME NEW c \in ClaimIds, ExpireAuditRequestClaimChallenge(c)
      PROVE  BondStands(a)
  <2>1. claims[c].challengeBond \in Nat
    BY DEF RequestShape, ClaimRecord
  <2>2. bondRefunds' = [bondRefunds EXCEPT
                          ![claims[c].challenger] = @ + claims[c].challengeBond]
    BY <1>1 DEF ExpireAuditRequestClaimChallenge
  <2>3. bondRefunds'[a] \in {bondRefunds[a], bondRefunds[a] + claims[c].challengeBond}
    BY <2>2 DEF RequestShape
  <2> QED BY <1>0, <2>1, <2>3 DEF BondStands
<1>2. ASSUME NEW sender \in Address, WithdrawExpiredChallengeBond(sender)
      PROVE  BondStands(a)
  <2>1. CASE sender = a
    BY <1>2, <2>1
    DEF WithdrawExpiredChallengeBond, SendValue, Paid, BondStands, RequestShape
  <2>2. CASE sender # a
    <3>1. bondRefunds'[a] = bondRefunds[a]
      BY <1>2, <2>2 DEF WithdrawExpiredChallengeBond, RequestShape
    <3> QED BY <1>0, <3>1 DEF BondStands
  <2> QED BY <2>1, <2>2
<1>3. CASE bondRefunds' = bondRefunds
  BY <1>0, <1>3 DEF BondStands
<1>4. \A sender, value, bountyAmount, responseWindow, eligibility :
        CreateAuditRequest(sender, value, bountyAmount, responseWindow, eligibility)
          => bondRefunds' = bondRefunds
  BY DEF CreateAuditRequest
<1>5. \A sender, value, r, registry, agentId :
        SubmitAuditRequestClaim(sender, value, r, registry, agentId)
          => bondRefunds' = bondRefunds
  BY DEF SubmitAuditRequestClaim
<1>6. \A sender, value, c, registry, agentId :
        ChallengeAuditRequestClaim(sender, value, c, registry, agentId)
          => bondRefunds' = bondRefunds
  BY DEF ChallengeAuditRequestClaim
<1>7. \A sender, c, upheld :
        ResolveAuditRequestClaimChallenge(sender, c, upheld)
          => bondRefunds' = bondRefunds
  BY DEF ResolveAuditRequestClaimChallenge
<1>8. \A r :
        ExpireAuditRequest(r)
          => bondRefunds' = bondRefunds
  BY DEF ExpireAuditRequest
<1>9. \A sender, r :
        RefundExpiredAuditRequest(sender, r)
          => bondRefunds' = bondRefunds
  BY DEF RefundExpiredAuditRequest
<1>10. \A r, maxClaims :
        ClassifyAuditRequestClaims(r, maxClaims)
          => bondRefunds' = bondRefunds
  BY DEF ClassifyAuditRequestClaims
<1>11. \A r :
        FinalizeAuditRequestSettlement(r)
          => bondRefunds' = bondRefunds
  BY DEF FinalizeAuditRequestSettlement
<1>12. \A c :
        WithdrawAuditRequestClaimSettlement(c)
          => bondRefunds' = bondRefunds
  BY DEF WithdrawAuditRequestClaimSettlement
<1>13. \A sender, r :
        WithdrawAuditRequestRefund(sender, r)
          => bondRefunds' = bondRefunds
  BY DEF WithdrawAuditRequestRefund
<1>14. \A sender :
        WithdrawFees(sender)
          => bondRefunds' = bondRefunds
  BY DEF WithdrawFees
<1>15. \A identity, to :
        TransferIdentity(identity, to)
          => bondRefunds' = bondRefunds
  BY DEF TransferIdentity
<1> QED BY <1>1, <1>2, <1>3, <1>4, <1>5, <1>6, <1>7, <1>8, <1>9,
           <1>10, <1>11, <1>12, <1>13, <1>14, <1>15 DEF RequestNext

\* A flow that rests, or a later block, owes the same as before.
LEMMA DuesInTime ==
  ASSUME now \in Nat, now' \in Nat, now <= now', DirectTypeOK, RequestShape
  PROVE  /\ UNCHANGED audits => \A id \in AuditIds : ReleaseStands(id)
         /\ UNCHANGED requestVars =>
              /\ \A c \in ClaimIds : ShareStands(c)
              /\ \A r \in RequestIds : RefundStands(r)
              /\ \A a \in Address : BondStands(a)
<1>1. ASSUME UNCHANGED audits, NEW id \in AuditIds, ReleaseDue(id)
      PROVE  ReleaseDue(id)'
  <2>1. audits[id].publishedAt \in Nat /\ ChallengeWindow \in Nat
    BY ParameterAssumption DEF DirectTypeOK, AuditRecord
  <2> QED BY <1>1, <2>1 DEF ReleaseDue, Elapsed
<1>2. ASSUME UNCHANGED requestVars
      PROVE  /\ \A c \in ClaimIds : ShareStands(c)
             /\ \A r \in RequestIds : RefundStands(r)
             /\ \A a \in Address : BondStands(a)
  <2>1. UNCHANGED <<requests, claims, settlements, claimSettlements, bondRefunds>>
    BY <1>2 DEF requestVars
  <2>2. \A c \in ClaimIds : ShareStands(c)
    BY <2>1 DEF ShareStands, ShareDue, DueOnClaim, ClaimBountyShare
  <2>3. \A r \in RequestIds : RefundStands(r)
    BY <2>1 DEF RefundStands, RefundDue, DueOnRequest, RefundReady
  <2>4. \A a \in Address : BondStands(a)
    BY <2>1 DEF BondStands, RequestShape
  <2> QED BY <2>2, <2>3, <2>4
<1> QED BY <1>1, <1>2 DEF ReleaseStands

\* What the contract owes now to an auditor, a claimant, a requester or a
\* challenger cannot be taken away or changed by any call of either flow: it
\* stands, for the same amount, until the call that pays it in full.
THEOREM ContractDuesStand == Spec => DuesStand
<1> DEFINE Stand == /\ \A id \in AuditIds : ReleaseStands(id)
                    /\ \A c \in ClaimIds : ShareStands(c)
                    /\ \A r \in RequestIds : RefundStands(r)
                    /\ \A a \in Address : BondStands(a)
<1>1. ContractInvariant /\ [Next]_vars => Stand
  <2> SUFFICES ASSUME ContractInvariant, [Next]_vars
               PROVE  Stand
    OBVIOUS
  <2>0. /\ DirectTypeOK /\ DirectBlank /\ RequestShape /\ now \in Nat
        /\ RequestInvariant /\ RequestInvariant'
    BY InvariantParts, ContractInvariantInductive DEF ContractInvariant
  <2>1. CASE DirectNext /\ UNCHANGED <<now, requestVars>>
    BY <2>0, <2>1, ReleaseDueStands, DuesInTime
  <2>2. CASE RequestNext /\ UNCHANGED <<now, directVars>>
    <3>1. audits' = audits /\ now' = now /\ now <= now'
      BY <2>0, <2>2 DEF directVars
    <3> QED
      BY <2>0, <2>2, <3>1, DuesInTime, ShareDueStands, RefundDueStands, BondDueStands
  <2>3. CASE NextBlock \/ UNCHANGED vars
    <3>1. /\ audits' = audits /\ UNCHANGED requestVars
          /\ now' \in Nat /\ now <= now'
      BY <2>0, <2>3 DEF NextBlock, AdvanceTime, vars, directVars
    <3> QED BY <2>0, <3>1, DuesInTime
  <2> QED BY <2>1, <2>2, <2>3 DEF Next
<1> HIDE DEF Stand
<1>2. Spec => [][Stand]_vars
  BY <1>1, ContractInvariantInit, ContractInvariantInductive, PTL DEF Spec
<1> QED
  BY <1>2
  DEF DuesStand, Stand, ReleaseStands, ShareStands, RefundStands, BondStands
=============================================================================
