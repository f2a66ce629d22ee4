------------------------- MODULE SemanticComparison -------------------------
(***************************************************************************)
(* From the output of an executable challenge to an advice: the claim read *)
(* from the evidence, its comparison with the findings of the report, and  *)
(* the policy that abstains first.  Texts are sets of words.               *)
(***************************************************************************)
EXTENDS Integers, FiniteSets, Sequences

ConfidenceRank == [unknown |-> 0, low |-> 1, medium |-> 2, high |-> 3]
Confidence == DOMAIN ConfidenceRank

Aliases ==
  [access_control |-> {"access_control", "access", "authorization", "auth",
                       "owner", "admin", "unauthorized", "privileged"},
   reentrancy |-> {"reentrancy", "reentrant"},
   unchecked_external_call |-> {"unchecked_external_call", "unchecked",
                                "external-call", "externalcall", "call",
                                "lowlevelcall"}]

AccessSignals ==
  {"rotateowner", "owner", "admin", "unauthorized", "privilege", "takeover"}

\* The claim the words of the test and of its log suggest.
HeuristicClaim(signals) ==
  LET claim(type, confidence, preconditions, impact) ==
        [type |-> type, confidence |-> confidence, signals |-> signals,
         preconditions |-> preconditions, impact |-> impact,
         surfaces |-> signals \ {"reentrancy", "admin", "owner",
                       "unauthorized", "unchecked", "external-call"}]
  IN IF signals = {} THEN claim("generic_executable_claim", "low", {}, {})
     ELSE IF "reentrancy" \in signals
          THEN claim("reentrancy", "medium", {"re-entrant call path"}, {"drain"})
     ELSE IF signals \cap AccessSignals # {}
          THEN claim("access_control", "medium", {"privileged code path"}, {"privilege"})
     ELSE IF signals \cap {"unchecked", "external-call"} # {}
          THEN claim("unchecked_external_call", "medium", {"low-level call"}, {})
     ELSE claim("generic_executable_claim", "medium", {}, {})

ClaimClasses(claim) ==
  LET aliasesOf(type) == IF type \in DOMAIN Aliases THEN Aliases[type] ELSE {}
      signalled == {type \in DOMAIN Aliases : claim.signals \cap Aliases[type] # {}}
  IN {claim.type} \cup aliasesOf(claim.type) \cup signalled
       \cup UNION {Aliases[type] : type \in signalled}

FocusTokens(claim) == {claim.type} \cup claim.surfaces \cup claim.signals
SignalTokens(claim) == FocusTokens(claim) \cup claim.preconditions \cup claim.impact

\* How a finding of the report relates to the claim.
SharesClass(claim, f) == ClaimClasses(claim) \cap f.classes # {}
SharesSurface(claim, f) == claim.surfaces \cap f.surfaces # {}
SharedWords(claim, f) == Cardinality(SignalTokens(claim) \cap f.keywords)

\* Twice the score of the code, which counts in halves.
Score(claim, f) ==
  (IF SharesClass(claim, f) THEN 8 ELSE 0)
    + (IF SharesSurface(claim, f) THEN 6 ELSE 0)
    + (IF claim.preconditions \cap f.preconditions # {} THEN 4 ELSE 0)
    + (IF SharedWords(claim, f) > 4 THEN 4 ELSE SharedWords(claim, f))

Related(claim, f) == SharesClass(claim, f) \/ Score(claim, f) >= 5

SaysReported(claim, f) == SharesSurface(claim, f) /\ "reported" \in SignalTokens(claim)

Covers(claim, f) ==
  \/ SaysReported(claim, f)
  \/ /\ SharesClass(claim, f)
     /\ \/ SharesSurface(claim, f)
        \/ Cardinality(FocusTokens(claim) \cap f.keywords) >= 2

MatchConfidence(claim, f) ==
  LET atLeast(n, this, that) == IF Score(claim, f) >= n THEN this ELSE that
  IN CASE SaysReported(claim, f) -> "medium"
       [] Covers(claim, f) /\ ~SaysReported(claim, f) -> atLeast(14, "high", "medium")
       [] OTHER ->
          IF \/ SharesClass(claim, f)
             \/ SharesSurface(claim, f) /\ SharedWords(claim, f) > 0
          THEN atLeast(8, "medium", "low") ELSE "low"

\* Of several matches the first with the highest score counts.
Best(claim, findings, matches) ==
  CHOOSE i \in matches : \A j \in matches :
    \/ Score(claim, findings[i]) > Score(claim, findings[j])
    \/ Score(claim, findings[i]) = Score(claim, findings[j]) /\ i <= j

ContradictsReport(claim, report) ==
  \/ report.findings = <<>> /\ report.saysClean
  \/ /\ report.saysNoCritical
     /\ claim.impact \cap {"takeover", "drain", "loss", "privilege"} # {}

Compare(claim, report) ==
  LET related == {i \in DOMAIN report.findings : Related(claim, report.findings[i])}
      direct == {i \in related : Covers(claim, report.findings[i])}
      answer(outcome, confidence, matched) ==
        [outcome |-> outcome, confidence |-> confidence,
         matched |-> {report.findings[i].id : i \in matched}]
      confidenceOf(matches) ==
        MatchConfidence(claim, report.findings[Best(claim, report.findings, matches)])
      orHigh(other) == IF claim.confidence = "high" THEN "high" ELSE other
  IN IF direct # {} THEN answer("already_covered", confidenceOf(direct), direct)
     ELSE IF ContradictsReport(claim, report)
          THEN answer("contradicts_audit_claim", orHigh("medium"), {})
     ELSE IF related # {}
          THEN answer("same_root_cause_variant", confidenceOf(related), related)
     ELSE IF \/ claim.confidence \in {"unknown", "low"}
             \/ claim.type = "generic_executable_claim"
          THEN answer("ambiguous", IF claim.confidence = "high" THEN "medium" ELSE "low", {})
     ELSE answer("likely_new_issue", orHigh("medium"), {})

MaterialOutcome == {"likely_new_issue", "contradicts_audit_claim"}

\* AbstentionFirstPolicy with its minimum confidence "medium".
DecidePolicy(comparison) ==
  LET decision(advice, abstained) == [advice |-> advice, abstained |-> abstained]
  IN CASE ConfidenceRank[comparison.confidence] < ConfidenceRank["medium"] ->
            decision("manual_review_required", TRUE)
       [] OTHER ->
          CASE comparison.outcome = "already_covered" -> decision("rejected", FALSE)
            [] comparison.outcome \in MaterialOutcome -> decision("upheld", TRUE)
            [] OTHER -> decision("manual_review_required", TRUE)
=============================================================================
