---------------------------- MODULE DirectAudit -----------------------------
(***************************************************************************)
(* The single-auditor flow of contracts/src/ProofOfAudit.sol: an auditor   *)
(* publishes an audit with a stake, anyone else may challenge it with a    *)
(* bond inside the challenge window, the arbiter resolves a challenge, and *)
(* an unchallenged stake is released after the window.                     *)
(*                                                                         *)
(* The report itself (target, hashes, severity, finding count, evidence    *)
(* hash) is stored and never read by the contract, and is left out.        *)
(***************************************************************************)
EXTENDS EscrowCommon

CONSTANT MaxAudits             \* bound on the number of audits published

ASSUME MaxAuditsAssumption == MaxAudits \in Nat

VARIABLES
  audits,        \* audits: the record of each audit id
  nextAuditId    \* the last audit id given out

directVars == <<audits, nextAuditId>>

AuditIds == 1..MaxAudits

AuditState == {"None", "Published", "Challenged", "Resolved"}
Resolution == {"None", "ChallengeUpheld", "ChallengeRejected"}

AuditRecord ==
  [auditor       : Address \cup {NoAddress},
   publishedAt   : Nat,
   challengedAt  : Nat,
   stakeAmount   : Nat,
   challengeBond : Nat,
   state         : AuditState,
   resolution    : Resolution,
   challenger    : Address \cup {NoAddress}]

\* What an unused slot of the audits mapping reads as.
NoAudit ==
  [auditor |-> NoAddress, publishedAt |-> 0, challengedAt |-> 0,
   stakeAmount |-> 0, challengeBond |-> 0, state |-> "None",
   resolution |-> "None", challenger |-> NoAddress]

DirectTypeOK ==
  /\ nextAuditId \in 0..MaxAudits
  /\ audits \in [AuditIds -> AuditRecord]

DirectInit ==
  /\ audits = [id \in AuditIds |-> NoAudit]
  /\ nextAuditId = 0

-----------------------------------------------------------------------------
(***************************************************************************)
(* The calls.  The definitions named Mutated... are the wrong forms that   *)
(* the properties below are tested against; no specification uses them.    *)
(***************************************************************************)
PublishAudit(sender, value) ==
  /\ value = RequiredStake
  /\ nextAuditId < MaxAudits
  /\ now <= LastOpening
  /\ nextAuditId' = nextAuditId + 1
  /\ audits' = [audits EXCEPT ![nextAuditId + 1] =
       [NoAudit EXCEPT !.auditor = sender,
                       !.publishedAt = now,
                       !.stakeAmount = value,
                       !.state = "Published"]]
  /\ Accept(value)

\* The last block of the window still admits a challenge.
ChallengeAudit(sender, auditId, value) ==
  LET audit == audits[auditId] IN
  /\ audit.state = "Published"
  /\ audit.publishedAt # 0
  /\ audit.auditor # sender
  /\ ~Elapsed(audit.publishedAt, ChallengeWindow)
  /\ value = RequiredChallengeBond
  /\ audits' = [audits EXCEPT ![auditId] =
       [audit EXCEPT !.state = "Challenged",
                     !.challengedAt = now,
                     !.challengeBond = value,
                     !.challenger = sender]]
  /\ Accept(value)
  /\ UNCHANGED nextAuditId

\* The state is not checked: a verdict can be given again.
MutatedResolveChallenge(sender, auditId, upheld) ==
  LET audit == audits[auditId] IN
  /\ sender = Arbiter
  /\ audit.challenger # NoAddress
  /\ audits' = [audits EXCEPT ![auditId] =
       [audit EXCEPT !.state = "Resolved",
                     !.resolution = IF upheld THEN "ChallengeUpheld"
                                              ELSE "ChallengeRejected"]]
  /\ SendValue(IF upheld THEN audit.challenger ELSE audit.auditor,
               audit.stakeAmount + audit.challengeBond)
  /\ UNCHANGED nextAuditId

\* The whole escrow goes to the challenger or to the auditor, with no fee.
ResolveChallenge(sender, auditId, upheld) ==
  LET audit == audits[auditId] IN
  /\ sender = Arbiter
  /\ audit.state = "Challenged"
  /\ audits' = [audits EXCEPT ![auditId] =
       [audit EXCEPT !.state = "Resolved",
                     !.resolution = IF upheld THEN "ChallengeUpheld"
                                              ELSE "ChallengeRejected"]]
  /\ SendValue(IF upheld THEN audit.challenger ELSE audit.auditor,
               audit.stakeAmount + audit.challengeBond)
  /\ UNCHANGED nextAuditId

\* A closing time is added to the release.
MutatedReleaseStake(auditId) ==
  LET audit == audits[auditId] IN
  /\ audit.state = "Published"
  /\ now = audit.publishedAt + ChallengeWindow + 1
  /\ audits' = [audits EXCEPT ![auditId] =
       [audit EXCEPT !.state = "Resolved",
                     !.resolution = "ChallengeRejected"]]
  /\ SendValue(audit.auditor, audit.stakeAmount)
  /\ UNCHANGED nextAuditId

\* The state is not written, so the stake can be released again; the record
\* takes a state that the contract does not have.
MutatedReleaseStakeState(auditId) ==
  LET audit == audits[auditId] IN
  /\ audit.state \in {"Published", "Released"}
  /\ Elapsed(audit.publishedAt, ChallengeWindow)
  /\ audits' = [audits EXCEPT ![auditId] = [audit EXCEPT !.state = "Released"]]
  /\ SendValue(audit.auditor, audit.stakeAmount)
  /\ UNCHANGED nextAuditId

\* Anyone may return an unchallenged stake once the window is over.
ReleaseStake(auditId) ==
  LET audit == audits[auditId] IN
  /\ audit.publishedAt # 0
  /\ audit.state = "Published"
  /\ Elapsed(audit.publishedAt, ChallengeWindow)
  /\ audits' = [audits EXCEPT ![auditId] =
       [audit EXCEPT !.state = "Resolved",
                     !.resolution = "ChallengeRejected"]]
  /\ SendValue(audit.auditor, audit.stakeAmount)
  /\ UNCHANGED nextAuditId

DirectNext ==
  \/ \E sender \in Address, value \in MsgValues : PublishAudit(sender, value)
  \/ \E sender \in Address, auditId \in AuditIds, value \in MsgValues :
       ChallengeAudit(sender, auditId, value)
  \/ \E sender \in Address, auditId \in AuditIds, upheld \in BOOLEAN :
       ResolveChallenge(sender, auditId, upheld)
  \/ \E auditId \in AuditIds : ReleaseStake(auditId)

-----------------------------------------------------------------------------
(***************************************************************************)
(* This flow alone, on a contract whose other flow is not used.            *)
(***************************************************************************)
DirectSystemInit == ChainInit /\ DirectInit

DirectSystemNext ==
  \/ DirectNext /\ UNCHANGED now
  \/ AdvanceTime /\ UNCHANGED <<balance, audits, nextAuditId>>

DirectSystemVars == <<now, balance, audits, nextAuditId>>

\* Time passes, and since anyone may release a stake someone does.
DirectFairness ==
  /\ WF_DirectSystemVars(AdvanceTime /\ UNCHANGED <<balance, audits, nextAuditId>>)
  /\ \A auditId \in AuditIds :
       WF_DirectSystemVars(ReleaseStake(auditId) /\ UNCHANGED now)

DirectSafetySpec ==
  DirectSystemInit /\ [][DirectSystemNext]_DirectSystemVars

DirectSpec == DirectSafetySpec /\ DirectFairness

-----------------------------------------------------------------------------
(***************************************************************************)
(* What the contract owes on each audit while it is open, and in total.    *)
(***************************************************************************)
HeldFor(audit) ==
  CASE audit.state = "Published"  -> audit.stakeAmount
    [] audit.state = "Challenged" -> audit.stakeAmount + audit.challengeBond
    [] OTHER                      -> 0

Held == [id \in AuditIds |-> HeldFor(audits[id])]

DirectEscrow == SumFunctionOnSet(Held, AuditIds)

\* The variables of the flow and of the chain hold values of their types.
DirectSystemTypeOK == ChainTypeOK /\ DirectTypeOK

\* The contract holds exactly the stakes and bonds of the open audits: every
\* stake and bond of publishAudit and challengeAudit leaves through exactly
\* one resolveChallenge or releaseStake.
DirectSolvency == balance = DirectEscrow

\* What an audit is at in the life that AuditLifecycle describes.
AuditStage(audit) ==
  IF audit.state # "Resolved" THEN audit.state
  ELSE IF audit.resolution = "ChallengeUpheld" THEN "Upheld" ELSE "Rejected"

DirectStages == [id \in AuditIds |-> AuditStage(audits[id])]

DirectLifecycle ==
  INSTANCE AuditLifecycle
    WITH Audits <- AuditIds, Claims <- {}, stage <- DirectStages

\* The four calls on a direct audit implement its lifecycle: each moves one
\* audit one stage along or none, and a verdict is final.
DirectAuditsFollowLifecycle == DirectLifecycle!LifecycleSpec

\* A verdict is earned: an audit is upheld against only after a challenge by
\* somebody else that landed inside the window, and an audit nobody challenged
\* is resolved only in its auditor's favour and after the window.
VerdictsAreEarned ==
  \A id \in AuditIds :
    LET audit == audits[id] IN
    /\ audit.challenger # NoAddress =>
         /\ audit.challenger # audit.auditor
         /\ audit.challengedAt \in
              audit.publishedAt .. (audit.publishedAt + ChallengeWindow)
    /\ audit.state = "Resolved" /\ audit.challenger = NoAddress =>
         /\ audit.resolution = "ChallengeRejected"
         /\ now > audit.publishedAt + ChallengeWindow

\* No call rewrites history: a resolved audit never changes, the parties and
\* amounts of a challenged audit do not change when it is resolved, and an
\* audit keeps its auditor, its stake and its publication time.
AuditHistoryIsKept ==
  [][\A id \in AuditIds :
       LET old == audits[id]
           new == audits'[id]
       IN  /\ old.state = "Resolved" => new = old
           /\ old.state = "Challenged" =>
                new \in {old, [old EXCEPT !.state = "Resolved",
                                          !.resolution = new.resolution]}
           /\ old.state # "None" =>
                /\ new.auditor = old.auditor
                /\ new.stakeAmount = old.stakeAmount
                /\ new.publishedAt = old.publishedAt
    ]_DirectSystemVars

\* An auditor who can receive ether is never stuck with an audit nobody
\* challenges: it is challenged or its stake comes back.
UnchallengedStakeReturns ==
  \A id \in AuditIds :
    audits[id].state = "Published" /\ audits[id].auditor \notin Refusers
      ~> audits[id].state \in {"Challenged", "Resolved"}
=============================================================================
