------------------------ MODULE ChallengeVerification ------------------------
(***************************************************************************)
(* A challenge of a published claim, from the evidence that is fetched and *)
(* committed on the chain to the advice of the verifier and the arbiter's  *)
(* decision.  Executable evidence is fetched twice, to commit its hash and *)
(* to run it, and what its URI serves may change in between; a local file  *)
(* is not fetched but read where it is, once for its text and once more    *)
(* for its hash.                                                           *)
(***************************************************************************)
EXTENDS ChallengePolicy, SemanticComparison, SequencesExt

CONSTANTS
  Report,         \* the published report: findings and what its summary says
  RawPolicies,    \* challenge policies that publishers ask for
  Challenges,    \* challenges that are asked for
  Content,        \* what the URI of the evidence may serve
  Passes,         \* Passes[v]: the blocks at which test v passes
  Signals,        \* Signals[v]: the words in test v and its log
  Extracted,      \* claims the configured extractor may answer with
  Blocks,         \* block numbers, 0 for none
  ChainId,
  Backends,       \* settings of the backend that runs the evidence
  MaxServed       \* bound on the changes of the evidence

\* What a manifest, a request and a bundle are made of.
Manifest ==
  [given : BOOLEAN, entrypoint : STRING, pinned : Blocks, chain : Nat, version : Nat]
ChallengeRequest ==
  [type : EvidenceType, env : STRING, local : BOOLEAN, manifest : Manifest]
EvidenceBundle ==
  [version : Nat, tests : SUBSET STRING, manifest : Manifest,
   admitted : BOOLEAN, reachable : BOOLEAN]

ASSUME CaseAssumption ==
  /\ 0 \in Blocks
  /\ \A raw \in RawPolicies : raw.informational \in BOOLEAN /\ raw.material \in BOOLEAN
  /\ Challenges \subseteq ChallengeRequest
  /\ Content \subseteq EvidenceBundle
  /\ \A i \in DOMAIN Report.findings : Report.findings[i].severity \in Severity

NoManifest == [given |-> FALSE, entrypoint |-> "", pinned |-> 0, chain |-> 0, version |-> 0]
NoVerdict ==
  [status |-> "pending", resolution |-> "none", comparison |-> "not_assessed",
   matched |-> {}, claimType |-> "", advice |-> "none", advisory |-> FALSE]
NotRun == [version |-> 0, block |-> 0, hash |-> <<>>]

VARIABLES
  published,     \* the published claim: its policy, its kind of target, the
                 \* block it is pinned to (0 if none); and the settings of the
                 \* API: its backend, and whether it has an RPC URL
  served,        \* what the URI serves, "unreachable" if nothing
  changes,
  submission,    \* the challenge, once it was made
  commitment,    \* its evidence hash on the chain
  place,         \* "published", "verifying", "reading", "challenged", "resolved"
  fetched,       \* the test whose text was read from a local file, 0 before
  verdict,       \* the result of the verifier
  ran,           \* the run of the evidence: what, at which block
  admissibility, \* policy_admissibility_status, "none" until evaluated
  resolution

caseVars == <<published, served, changes, submission, commitment, place,
              fetched, verdict, ran, admissibility, resolution>>

NoSubmission ==
  [type |-> "none", env |-> "", local |-> FALSE, manifest |-> NoManifest]

CaseInit ==
  /\ \E raw \in RawPolicies, block \in Blocks, rpc \in BOOLEAN, k \in Backends :
       /\ ~PolicyIsRejected(raw)
       /\ published \in {[policy |-> NormalizeChallengePolicy(raw), rpc |-> rpc, backend |-> k,
                      inputKind |-> "deployed_address", snapshot |-> block],
                     [policy |-> NormalizeChallengePolicy(raw), rpc |-> rpc, backend |-> k,
                      inputKind |-> "source_bundle", snapshot |-> 0]}
  /\ served \in Content /\ changes = 0
  /\ submission = NoSubmission
  /\ commitment = <<>>
  /\ place = "published"
  /\ fetched = 0
  /\ verdict = NoVerdict
  /\ ran = NotRun
  /\ admissibility = "none"
  /\ resolution = "none"

\* External: the evidence is served from somewhere else.
ServeOther ==
  /\ changes < MaxServed
  /\ changes' = changes + 1
  /\ served' \in (Content \cup {[served EXCEPT !.reachable = FALSE]}) \ {served}
  /\ UNCHANGED <<published, submission, commitment, place, fetched, verdict, ran,
                 admissibility, resolution>>

-----------------------------------------------------------------------------
\* A request without a manifest takes the manifest.json of the bundle.
ResolveManifest(c, m) ==
  IF m.given THEN m ELSE c.manifest

\* The test of the bundle that is run.
Entrypoint(c, m) ==
  IF m.entrypoint # "" THEN m.entrypoint
  ELSE IF Cardinality(c.tests) = 1 THEN CHOOSE t \in c.tests : TRUE ELSE ""

\* What the resolver finds: something to download, or one local file.
Present(s, c) == c.reachable /\ (s.local => Cardinality(c.tests) = 1)

\* What makes the resolver refuse: the limits on downloads and archives, an
\* entrypoint that is not there, a file that is not the one expected.
Unresolvable(s, c, m) ==
  \/ ~c.admitted /\ ~s.local
  \/ Entrypoint(c, m) \notin c.tests
  \/ m.version \notin {0, c.version}

\* The hash covers the files, the entrypoint and the manifest in use.
CanonicalHash(c, m) == <<c.version, Entrypoint(c, m), m>>

\* The manifest of the request with the block of the claim filled in.
Materialized(s) ==
  IF s.manifest.given /\ s.manifest.pinned = 0
  THEN [s.manifest EXCEPT !.pinned = published.snapshot] ELSE s.manifest

OtherBlock(s) ==
  /\ published.snapshot # 0 /\ s.manifest.given
  /\ s.manifest.pinned \notin {0, published.snapshot}

\* challenge_audit up to its first write: the evidence is fetched, its hash
\* goes to the chain and the record is stored as challenged.
BeginChallenge(s) ==
  LET manifest == Materialized(s)
      m == ResolveManifest(served, manifest)
      executable == s.type = "executable_test"
  IN /\ place = "published"
     /\ executable => /\ published.inputKind = "deployed_address"
                      /\ ~OtherBlock(s)
                      /\ Present(s, served) /\ ~Unresolvable(s, served, m)
     /\ submission' = [s EXCEPT !.manifest = manifest]
     /\ commitment' = IF executable THEN CanonicalHash(served, m) ELSE <<"proof_uri">>
     /\ place' = "verifying"
     /\ UNCHANGED <<published, served, changes, fetched, verdict, ran, admissibility,
                    resolution>>

-----------------------------------------------------------------------------
\* The runs of the runner: invalid, without an answer, or a test at a block.
Outcome(outcome, block) == [outcome |-> outcome, block |-> block]

ForkBlocks(m) ==
  IF m.pinned # 0 THEN {m.pinned}
  ELSE IF published.snapshot # 0 THEN {published.snapshot} ELSE Blocks

\* Mutant: the evidence is not compared with the commitment.
MutatedStands(m) == ~Unresolvable(submission, served, m)

\* The evidence is still what was committed.
Stands(m) == ~Unresolvable(submission, served, m) /\ CanonicalHash(served, m) = commitment

\* The backends: may it be used, and what may come of running a test there.
LocalSubprocess(k) == [available |-> k.executable, answers |-> {"exit", "timeout", "failed"}]
LocalDocker(k) ==
  [available |-> k.executable /\ k.image, answers |-> {"exit", "timeout", "failed"}]

\* The service runs the payload's command, or refuses the payload.
CloudRunService == {"exit", "timeout", "refused"}

\* For the backend all that is not an exit is a failure of its request, and so
\* are a missing identity token and a lost connection.
CloudRun(k) ==
  [available |-> k.url /\ k.auth # "none",
   answers |-> {IF a = "exit" THEN a ELSE "failed" : a \in CloudRunService}]

Backend(k) ==
  CASE k.name = "local_subprocess" -> LocalSubprocess(k)
    [] k.name = "docker" -> LocalDocker(k)
    [] k.name = "gcp_cloud_run" -> CloudRun(k)

\* The test that runs: of a local file the text that was read first, although
\* the hash is that of the file as it is by then.
Text == IF submission.local THEN fetched ELSE served.version

\* A test that passes may still not be seen to pass: any other exit of the
\* command, for whatever reason, counts as a failure.
Exits(block) ==
  {Outcome("failed", block)}
    \cup (IF block \in Passes[Text] THEN {Outcome("passed", block)} ELSE {})

RunOutcomes ==
  LET m == ResolveManifest(served, submission.manifest)
      backend == Backend(published.backend)
      invalid == Outcome("invalid_evidence", 0)
      unanswered == Outcome("runner_error", 0)
  IN IF submission.env # "foundry" THEN {invalid}
     ELSE IF ~published.rpc THEN {unanswered}
     ELSE IF ~Present(submission, served) \/ ~Stands(m) THEN {invalid}
     ELSE IF ~backend.available THEN {unanswered}
     ELSE IF m.chain \notin {0, ChainId} THEN {invalid}
     ELSE UNION {IF b # 0 /\ answer = "exit" THEN Exits(b) ELSE {unanswered} :
                   b \in ForkBlocks(m), answer \in backend.answers}

\* The claims the verifier may go on with: its own reading, or the extractor's
\* answer; "none" if the extractor gave no usable one.
Claims(version) ==
  {[use |-> "claim", claim |-> HeuristicClaim(Signals[version])],
   [use |-> "review", claim |-> HeuristicClaim(Signals[version])]}
    \cup {[use |-> IF ConfidenceRank[c.confidence] < ConfidenceRank["medium"]
                   THEN "review" ELSE "claim",
           claim |-> c] : c \in Extracted}

Verdict(status, res, comparison, matched, type, advice) ==
  [status |-> status, resolution |-> res, comparison |-> comparison,
   matched |-> matched, claimType |-> type, advice |-> advice, advisory |-> TRUE]

InvalidEvidence(type) ==
  Verdict("invalid_evidence", "rejected", "not_assessed", {}, type, "rejected")
ReviewNeeded(comparison, matched, type, advice) ==
  Verdict("verifier_unavailable", "none", comparison, matched, type, advice)

\* Only a test that passed is compared with the report.
Judge(claim) ==
  LET c == Compare(claim, Report)
      decision == DecidePolicy(c)
      verified(res) ==
        Verdict("verified", res, c.outcome, c.matched, claim.type, decision.advice)
  IN IF c.outcome = "already_covered" /\ ~decision.abstained THEN verified("rejected")
     ELSE IF c.outcome \in MaterialOutcome THEN verified("upheld")
     ELSE ReviewNeeded(c.outcome, c.matched, claim.type, decision.advice)

ExecutableVerdicts(run) ==
  LET answers == Claims(Text)
      typeOf(a) == a.claim.type
  IN CASE run.outcome = "invalid_evidence" -> {InvalidEvidence("")}
       [] run.outcome = "runner_error" ->
            {ReviewNeeded("not_assessed", {}, "", "manual_review_required")}
       [] run.outcome = "failed" ->
            {InvalidEvidence(HeuristicClaim(Signals[Text]).type)}
       [] run.outcome = "passed" ->
            {IF a.use = "claim" THEN Judge(a.claim)
             ELSE ReviewNeeded("not_assessed", {}, typeOf(a), "manual_review_required")
               : a \in answers}

\* A proof URI is left to the reviewers.
ProofUriVerdict ==
  [ReviewNeeded("not_assessed", {}, "external_proof_reference", "manual_review_required")
     EXCEPT !.advisory = FALSE]

SeverityOf ==
  LET findings == ToSet(Report.findings)
  IN [id \in {f.id : f \in findings} |-> (CHOOSE f \in findings : f.id = id).severity]

Evaluate(p, type, v) == EvaluateChallengePolicy(p, type, v, SeverityOf)

\* The second half of challenge_audit: a type of evidence the policy does not
\* allow is not run; a challenge that is not admitted is to be rejected.
Conclude(v, run, version) ==
  LET answer == Evaluate(published.policy, submission.type, v)
  IN /\ admissibility' = answer
     /\ verdict' = IF answer = "admissible" THEN v ELSE [v EXCEPT !.advice = "rejected"]
     /\ ran' = IF run.block = 0 THEN NotRun
               ELSE [version |-> version, block |-> run.block,
                     hash |-> CanonicalHash(served, ResolveManifest(served, submission.manifest))]
     /\ place' = "challenged"

\* The runner gets as far as the evidence.
Attempted ==
  /\ submission.type = "executable_test" /\ submission.type \in published.policy.allowed
  /\ submission.env = "foundry" /\ published.rpc

\* resolve: the text of a local file, before its hash.
ReadEvidence ==
  /\ place = "verifying" /\ Attempted
  /\ submission.local /\ Present(submission, served)
  /\ place' = "reading"
  /\ fetched' = served.version
  /\ UNCHANGED <<published, served, changes, submission, commitment, verdict, ran,
                 admissibility, resolution>>

\* The evidence gives the runner something to answer: it is there, or it is a
\* local file found missing before its text, or its expected hash, was read.
Answerable ==
  IF Present(submission, served) THEN submission.local => place = "reading"
  ELSE submission.local /\ (place = "reading" =>
         ResolveManifest(served, submission.manifest).version # 0)

VerifyChallenge ==
  /\ place \in {"verifying", "reading"}
  /\ IF submission.type \notin published.policy.allowed
     THEN Conclude([NoVerdict EXCEPT !.status = "rejected"], Outcome("", 0), 0)
     ELSE IF submission.type = "deterministic_fixture"
     THEN Conclude(ProofUriVerdict, Outcome("", 0), 0)
     ELSE /\ Attempted => Answerable
          /\ \E run \in RunOutcomes : \E v \in ExecutableVerdicts(run) :
               Conclude(v, run, Text)
  /\ UNCHANGED <<published, served, changes, submission, commitment, fetched, resolution>>

\* The request ends without an answer, the process restarts, or the evidence
\* cannot be fetched any more, which is no answer of the runner but an error of
\* the request: the record stays challenged and its verification pending.
VerifyRaises ==
  /\ place \in {"verifying", "reading"}
  /\ place' = "challenged"
  /\ UNCHANGED <<published, served, changes, submission, commitment, fetched, verdict,
                 ran, admissibility, resolution>>

Inadmissible(answer) == answer \notin {"none", "admissible"}

\* resolve_audit: the arbiter decides.
ResolveAudit(upheld) ==
  /\ place = "challenged"
  /\ ~(upheld /\ Inadmissible(admissibility))
  /\ resolution' = IF upheld THEN "upheld" ELSE "rejected"
  /\ place' = "resolved"
  /\ UNCHANGED <<published, served, changes, submission, commitment, fetched,
                 verdict, ran, admissibility>>

CaseNext ==
  \/ ServeOther
  \/ \E s \in Challenges : BeginChallenge(s)
  \/ ReadEvidence
  \/ VerifyChallenge
  \/ VerifyRaises
  \/ \E upheld \in BOOLEAN : ResolveAudit(upheld)

-----------------------------------------------------------------------------
(***************************************************************************)
(* Properties                                                              *)
(***************************************************************************)

CaseTypeOK ==
  /\ published.policy \in Policy /\ published.snapshot \in Blocks
  /\ place \in {"published", "verifying", "reading", "challenged", "resolved"}
  /\ submission.type \in EvidenceType \cup {"none"}
  /\ verdict.status \in {"pending", "rejected", "invalid_evidence",
                        "verifier_unavailable", "verified"}
  /\ verdict.advice \in {"none", "rejected", "upheld", "manual_review_required"}
  /\ ran.block \in Blocks

\* Whatever the evidence's URI serves by then, what was run is what the chain
\* was given: same files, same entrypoint, same manifest, and the claim's block
\* if the request came with a manifest; of a local file only the hash is that
\* of the commitment, its text was read before.  An advice to uphold rests on
\* such a run, on a test that passes there, and on a policy that admits it; and
\* a verdict that was reached only advises.
VerdictsKeepTheCommitment ==
  /\ CaseTypeOK
  /\ ran # NotRun =>
       /\ ran.hash = commitment
       /\ ~submission.local => ran.version = commitment[1]
       /\ submission.manifest.given /\ published.snapshot # 0 =>
            ran.block = published.snapshot
  /\ verdict.status = "verified" =>
       ran.block \in Passes[ran.version] /\ verdict.advisory
  /\ verdict.advice = "upheld" =>
       verdict.status = "verified" /\ admissibility = "admissible"

\* The documented rule for the block of a run: a bundle that pins another block
\* than the snapshot of the claim is rejected
\* (docs/AUDIT_SNAPSHOT_SEMANTICS.md).
RunsAtTheSnapshot ==
  ran # NotRun /\ published.snapshot # 0 => ran.block = published.snapshot

\* A claim whose policy asks less admits every challenge that a stricter one
\* admits, and is never scored as less open for it.
PermissivePoliciesAdmitMore ==
  \A q \in Policy :
    AtLeastAsOpen(q, published.policy) =>
      /\ OpennessScore(q) >= OpennessScore(published.policy)
      /\ admissibility = "admissible" =>
           Evaluate(q, submission.type, verdict) = "admissible"
=============================================================================
