--------------------------- MODULE ReputationIndex ---------------------------
(***************************************************************************)
(* The reputation of the auditors: computed on every read from the records *)
(* in the store, as their claims are drafted, published under a challenge  *)
(* policy, challenged and resolved.                                        *)
(***************************************************************************)
EXTENDS ChallengePolicy, Sequences, FiniteSetsExt

CONSTANTS
  Auditor,         \* the auditors that own records
  PublishedUnder,  \* the policies claims are published under
  MaxRecords

\* Policies are normalised before a claim is published under them.
ASSUME ReputationAssumption == PublishedUnder \subseteq Policy

VARIABLE records   \* the records of the store, in the order they were drafted

\* A challenge whose verification never ended has no admissibility.
Admissibility == {"none", "admissible", "inadmissible"}

Record ==
  [agent : Auditor, status : {"draft", "published", "challenged", "resolved"},
   policy : Policy, admissibility : Admissibility,
   resolution : {"none", "upheld", "rejected"}]

ReputationInit == records = <<>>

Draft(a) ==
  /\ Len(records) < MaxRecords
  /\ records' = Append(records,
       [agent |-> a, status |-> "draft", policy |-> DefaultPolicy,
        admissibility |-> "none", resolution |-> "none"])

PublishUnder(i, policy) ==
  /\ records[i].status = "draft"
  /\ records' = [records EXCEPT ![i].status = "published", ![i].policy = policy]

OpenOn(i) ==
  /\ records[i].status = "published"
  /\ records' = [records EXCEPT ![i].status = "challenged"]

Evaluated(i, answer) ==
  /\ records[i].status = "challenged" /\ records[i].admissibility = "none"
  /\ records' = [records EXCEPT ![i].admissibility = answer]

ResolveAs(i, resolution) ==
  /\ records[i].status = "challenged"
  /\ ~(resolution = "upheld" /\ records[i].admissibility = "inadmissible")
  /\ records' = [records EXCEPT ![i].status = "resolved", ![i].resolution = resolution]

ReputationNext ==
  \/ \E a \in Auditor : Draft(a)
  \/ \E i \in DOMAIN records :
       \/ \E policy \in PublishedUnder : PublishUnder(i, policy)
       \/ OpenOn(i)
       \/ \E answer \in {"admissible", "inadmissible"} : Evaluated(i, answer)
       \/ \E resolution \in {"upheld", "rejected"} : ResolveAs(i, resolution)

-----------------------------------------------------------------------------
\* Python's round of n / d: a half goes to the even neighbour.
RoundHalfEven(n, d) ==
  LET floor == n \div d
      rest == 2 * (n % d)
  IN IF rest < d \/ (rest = d /\ floor % 2 = 0) THEN floor ELSE floor + 1

Of(recs, a) == {i \in DOMAIN recs : recs[i].agent = a}
PublishedOf(recs, a) == {i \in Of(recs, a) : recs[i].status # "draft"}

\* Mutant: inadmissible challenges count.
MutatedJudged(recs, a) == {i \in Of(recs, a) : recs[i].status = "resolved"}

\* The resolved challenges that count: the admissible ones.
Judged(recs, a) ==
  {i \in Of(recs, a) :
     recs[i].status = "resolved" /\ recs[i].admissibility # "inadmissible"}

Openness(recs, a) ==
  LET claims == PublishedOf(recs, a)
      points == [i \in claims |-> OpennessScore(recs[i].policy)]
  IN IF claims = {} THEN 50
     ELSE RoundHalfEven(SumFunctionOnSet(points, claims), Cardinality(claims))

Accuracy(recs, a) ==
  LET judged == Judged(recs, a)
      upright == {i \in judged : recs[i].resolution = "rejected"}
  IN IF judged = {} THEN 50
     ELSE RoundHalfEven(100 * Cardinality(upright), Cardinality(judged))

\* round(0.35 * openness + 0.65 * accuracy): the product is a float, so a half
\* may have come out on either side.
Scores(recs, a) ==
  LET n == 35 * Openness(recs, a) + 65 * Accuracy(recs, a)
      neutral == PublishedOf(recs, a) = {} /\ Judged(recs, a) = {}
  IN IF neutral THEN {50}
     ELSE IF n % 100 = 50 THEN {n \div 100, n \div 100 + 1}
     ELSE {RoundHalfEven(n, 100)}

-----------------------------------------------------------------------------
ReputationTypeOK == records \in Seq(Record)

\* What a step of record i does to the reputation of auditor a.
Moves(i, a) ==
  LET r == records[i]
      t == records'[i]
      settled == r.status = "challenged" /\ t.status = "resolved"
      counts == settled /\ r.agent = a /\ r.admissibility # "inadmissible"
  IN /\ Accuracy(records', a) > Accuracy(records, a) => counts /\ t.resolution = "rejected"
     /\ Accuracy(records', a) < Accuracy(records, a) => counts /\ t.resolution = "upheld"
     /\ Openness(records', a) # Openness(records, a) => r.status = "draft" /\ r.agent = a
     /\ counts /\ t.resolution = "rejected" =>
          \/ Scores(records', a) = Scores(records, a)
          \/ \A s \in Scores(records, a), u \in Scores(records', a) : u >= s
     /\ ~counts /\ r.status # "draft" => Scores(records', a) = Scores(records, a)

\* A reputation moves only with the auditor's own records: openness when a
\* claim is published, accuracy when an admissible challenge is resolved, up if
\* it was rejected and down if it was upheld.  A challenge that is opened,
\* evaluated, or resolved as inadmissible costs nothing, and neither does
\* anything that happens to the records of another auditor.
ReputationFollowsVerdicts ==
  /\ []ReputationTypeOK
  /\ [][\A a \in Auditor, i \in DOMAIN records : records[i] # records'[i] => Moves(i, a)]_records
=============================================================================
