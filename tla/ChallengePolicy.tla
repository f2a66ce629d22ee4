--------------------------- MODULE ChallengePolicy ---------------------------
(***************************************************************************)
(* The challenge policy of a published claim: how a raw policy is read,    *)
(* which challenges it admits, and how open it is scored.                  *)
(***************************************************************************)
EXTENDS Integers, FiniteSets

EvidenceType == {"deterministic_fixture", "executable_test"}

SeverityRank == [info |-> 0, low |-> 1, medium |-> 2, high |-> 3, critical |-> 4]
Severity == DOMAIN SeverityRank

Policy ==
  [allowed : (SUBSET EvidenceType) \ {{}}, threshold : Severity,
   informational : BOOLEAN, material : BOOLEAN, mode : {"broad", "strict"}]

DefaultPolicy ==
  [allowed |-> EvidenceType, threshold |-> "info", informational |-> TRUE,
   material |-> FALSE, mode |-> "broad"]

\* A raw policy has the same fields; an empty list or word stands for a field
\* that is not given.
Word(raw) == IF raw.threshold = "informational" THEN "info" ELSE raw.threshold

PolicyIsRejected(raw) ==
  \/ raw.allowed # {} /\ raw.allowed \cap EvidenceType = {}
  \/ Word(raw) \notin Severity \cup {""}
  \/ raw.mode \notin {"broad", "strict", ""}

NormalizeChallengePolicy(raw) ==
  [allowed |-> IF raw.allowed = {} THEN DefaultPolicy.allowed
               ELSE raw.allowed \cap EvidenceType,
   threshold |-> IF raw.threshold = "" THEN DefaultPolicy.threshold ELSE Word(raw),
   informational |-> raw.informational,
   material |-> raw.material,
   mode |-> IF raw.mode = "" THEN DefaultPolicy.mode ELSE raw.mode]

\* What the verifier found: its status, the claim it read from the evidence and
\* how that compares with the report.  severityOf: the findings of the report.
MaterialIncorrectness(result) ==
  result.comparison \in {"likely_new_issue", "contradicts_audit_claim"}

EstimateChallengeSeverity(result, severityOf) ==
  LET matched == result.matched \cap DOMAIN severityOf
  IN IF matched # {}
     THEN severityOf[CHOOSE f \in matched : \A g \in matched :
            SeverityRank[severityOf[f]] >= SeverityRank[severityOf[g]]]
     ELSE CASE result.claimType \in {"reentrancy", "access_control"} -> "high"
            [] result.claimType = "unchecked_external_call" -> "medium"
            [] OTHER -> CASE result.comparison = "contradicts_audit_claim" -> "high"
                          [] result.comparison = "likely_new_issue" -> "medium"
                          [] OTHER -> "none"

\* Mutant: a severity must lie below the threshold to be admitted.
MutatedBelowThreshold(severity, threshold) ==
  IF severity = "none" THEN SeverityRank[threshold] > SeverityRank["info"]
  ELSE SeverityRank[severity] > SeverityRank[threshold]

BelowThreshold(severity, threshold) ==
  IF severity = "none" THEN SeverityRank[threshold] > SeverityRank["info"]
  ELSE SeverityRank[severity] < SeverityRank[threshold]

EvaluateChallengePolicy(policy, type, result, severityOf) ==
  LET severity == EstimateChallengeSeverity(result, severityOf)
  IN CASE type \notin policy.allowed -> "inadmissible_evidence_type"
       [] OTHER ->
          CASE \/ policy.mode = "strict" /\ result.status # "verified"
               \/ policy.material /\ ~MaterialIncorrectness(result)
                 -> "inadmissible_policy_scope"
            [] OTHER ->
               IF \/ ~policy.informational /\ severity = "info"
                  \/ BelowThreshold(severity, policy.threshold)
               THEN "inadmissible_severity_below_threshold"
               ELSE "admissible"

ThresholdPoints == [info |-> 30, low |-> 24, medium |-> 18, high |-> 10, critical |-> 4]

\* Python rounds a half to the even neighbour: one of two types is 18 points.
OpennessScore(policy) ==
  (IF Cardinality(policy.allowed) = 2 THEN 35 ELSE 18)
    + ThresholdPoints[policy.threshold]
    + (IF policy.informational THEN 10 ELSE 0)
    + (IF policy.material THEN 0 ELSE 10)
    + (IF policy.mode = "broad" THEN 15 ELSE 6)

\* q asks nothing of a challenge that p does not ask.
AtLeastAsOpen(q, p) ==
  /\ p.allowed \subseteq q.allowed
  /\ SeverityRank[q.threshold] <= SeverityRank[p.threshold]
  /\ p.informational => q.informational
  /\ q.material => p.material
  /\ q.mode = "strict" => p.mode = "strict"
=============================================================================
