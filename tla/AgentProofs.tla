------------------------------ MODULE AgentProofs ------------------------------
(***************************************************************************)
(* Proofs about the marketplace of the API and the two agents that work    *)
(* against it, for every set of requests, services, identities, handlers   *)
(* and published claims, and every bound on faults and crashes.            *)
(***************************************************************************)
EXTENDS RequestParticipation, ClaimWatcher, SumFacts

ParticipationSpec ==
  MarketInit /\ ParticipationInit /\ [][ParticipationNext]_participationVars

JobShape == [step : {"idle", "read", "have", "checked", "staked"}, audit : Nat,
             copy : AuditShape \cup {NoRecord}, request : Request \cup {0}]

MarketTyped ==
  /\ MarketTypeOK
  /\ directory \in Directories
  /\ transfers \in Nat /\ apiFaults \in Nat
  /\ DOMAIN rules = Request /\ DOMAIN asked = Request

\* Of the requests: what is indexed or about to be is on the chain, with the
\* rules that its filters were resolved to when it was opened.
RequestsAreKept ==
  /\ \A r \in Request : index[r] # "absent" \/ r \in creating => chain[r] # "none"
  /\ apiFaults = 0 =>
       \A r \in Request : chain[r] # "none" => index[r] # "absent" \/ r \in creating
  /\ \A r \in Request : rules[r].minimumStake \in Nat
  /\ \A r \in Request : chain[r] # "none" =>
       /\ \E f \in Filters[r] : asked[r] = NormalizeFilters(f)
       /\ transfers = 0 => rules[r] \in Rules(asked[r], directory, owner)

\* Of the claims: each names its audit, and an identity has one per request.
ClaimsAreOne ==
  /\ \A c \in claims : c[3] \in DOMAIN audits /\ c = ClaimFor(audits[c[3]], c[3], c[1])
  /\ \A c, d \in claims : c[1] = d[1] /\ c[2] = d[2] => c = d

\* Of the records and of the handlers' copies of them: what they tell of the
\* submission never changes, and a claim they show was staked.
SameDraft(record, other) ==
  /\ record.request = other.request /\ record.service = other.service
  /\ record.submittedBy = other.submittedBy

ShowsStaked(record, a) ==
  record.claimed # 0 =>
    record.status = "published" /\ ClaimFor(record, a, record.claimed) \in claims

RecordsAreTrue == \A a \in DOMAIN audits : ShowsStaked(audits[a], a)

CopyIsTrue(j) ==
  \/ j = NoJob
  \/ /\ j.step # "idle" /\ j.audit \in DOMAIN audits /\ j.copy \in AuditShape
     /\ SameDraft(j.copy, audits[j.audit]) /\ ShowsStaked(j.copy, j.audit)
     /\ j.step \in {"checked", "staked"} => j.copy.status = "draft" /\ j.request \in Request
     /\ j.step = "staked" => ClaimFor(j.copy, j.audit, j.request) \in claims

CopiesAreTrue == \A h \in Handler : CopyIsTrue(job[h])

\* A record that was never in two hands is in one, whose copy is as it is stored.
HoldersAreAlone ==
  \A h \in Handler : job[h] # NoJob /\ job[h].audit \notin contended =>
    /\ job[h].copy = audits[job[h].audit]
    /\ \A g \in Handler : job[g].audit = job[h].audit => g = h

\* Unless there was a fault, a claim for such a record is shown or about to be.
AboutToShow(h, c) ==
  job[h].step = "staked" /\ job[h].audit = c[3] /\ job[h].request = c[1]

ClaimsAreShown ==
  apiFaults = 0 => \A c \in claims :
    c[3] \in contended \/ audits[c[3]].claimed = c[1] \/ \E h \in Handler : AboutToShow(h, c)

ClaimsAreKept ==
  ClaimsAreOne /\ RecordsAreTrue /\ CopiesAreTrue /\ HoldersAreAlone /\ ClaimsAreShown

MarketCore == MarketTyped /\ RequestsAreKept /\ ClaimsAreKept

LEMMA MarketFacts ==
  /\ Request \subseteq Nat \ {0} /\ Stakes \subseteq Nat /\ RequiredStake \in Nat
  /\ "none" \notin Service
  /\ \A d \in Directories :
       d = [s \in Service |-> Identity(d[s].agent, d[s].registry)]
  /\ \A r \in Request : \A f \in Filters[r] :
       /\ f = [minimumStake |-> f.minimumStake, mode |-> f.mode, allowed |-> f.allowed,
               service |-> f.service, agent |-> f.agent, registry |-> f.registry]
       /\ f.minimumStake \in Int /\ f.agent \in Int
BY MarketAssumption

\* The records of audits, the jobs, and a list that grew by one.
LEMMA AuditFacts ==
  ASSUME MarketTyped
  PROVE  /\ audits \in Seq(AuditShape)
         /\ Len(audits) \in Nat /\ DOMAIN audits = 1 .. Len(audits)
         /\ \A a \in DOMAIN audits : audits[a] \in AuditShape /\ a # 0 /\ a \in Nat
         /\ job \in [Handler -> JobShape]
         /\ \A h \in Handler : job[h].audit \in DOMAIN audits \cup {0}
<1>1. audits \in Seq(AuditShape)
  BY DEF MarketTyped, MarketTypeOK
<1>2. audits \in [1 .. Len(audits) -> AuditShape] /\ Len(audits) \in Nat
  BY <1>1
<1>3. job \in [Handler -> [step : {"idle", "read", "have", "checked", "staked"},
                           audit : DOMAIN audits \cup {0},
                           copy : AuditShape \cup {NoRecord}, request : Request \cup {0}]]
  BY DEF MarketTyped, MarketTypeOK
<1>4. DOMAIN audits = 1 .. Len(audits) /\ DOMAIN audits \cup {0} \subseteq Nat
  BY <1>2
<1>5. job \in [Handler -> JobShape] /\ \A h \in Handler : job[h].audit \in DOMAIN audits \cup {0}
  BY <1>3, <1>4 DEF JobShape
<1> QED BY <1>1, <1>2, <1>4, <1>5

LEMMA ClaimFacts ==
  ASSUME NEW record, NEW a, NEW r
  PROVE  /\ ClaimFor(record, a, r)[1] = r
         /\ ClaimFor(record, a, r)[2] = directory[record.service]
         /\ ClaimFor(record, a, r)[3] = a
BY DEF ClaimFor

LEMMA DraftFacts ==
  ASSUME MarketTyped, NEW r \in Request, NEW s \in Service,
         NEW by \in {"anonymous", "listener"}, CreateDraft(r, s, by)
  PROVE  /\ audits' \in Seq(AuditShape)
         /\ DOMAIN audits' = 1 .. Len(audits) + 1
         /\ \A a \in DOMAIN audits : audits'[a] = audits[a]
         /\ audits'[Len(audits) + 1] = AuditRecord(r, s, by)
<1>1. AuditRecord(r, s, by) \in AuditShape /\ audits \in Seq(AuditShape)
      /\ DOMAIN audits = 1 .. Len(audits) /\ Len(audits) \in Nat
  BY AuditFacts DEF AuditRecord, AuditShape
<1> DEFINE e == AuditRecord(r, s, by)
<1>2. audits' = Append(audits, e)
  BY DEF CreateDraft
<1> HIDE DEF e
<1>3. e \in AuditShape
  BY <1>1 DEF e
<1>4. audits' \in Seq(AuditShape) /\ Len(audits') = Len(audits) + 1
  BY <1>1, <1>2, <1>3
<1>5. DOMAIN audits' = 1 .. Len(audits) + 1
  <2>1. audits' \in [1 .. Len(audits') -> AuditShape]
    BY <1>4
  <2> QED BY <1>4, <2>1
<1>6. \A a \in DOMAIN audits : audits'[a] = audits[a]
  BY <1>1, <1>2, <1>3
<1>7. audits'[Len(audits) + 1] = e
  BY <1>1, <1>2, <1>3
<1> QED BY <1>4, <1>5, <1>6, <1>7 DEF e

LEMMA ClaimsStand ==
  ASSUME ClaimsAreKept, UNCHANGED <<directory, auditVars, claims, apiFaults>>
  PROVE  ClaimsAreKept'
<1>1. UNCHANGED <<directory, audits, job, contended, claims, apiFaults>>
  BY DEF auditVars
<1> QED BY <1>1 DEF ClaimsAreKept, ClaimsAreOne, RecordsAreTrue, CopiesAreTrue, CopyIsTrue,
     HoldersAreAlone, ClaimsAreShown, AboutToShow, ShowsStaked, ClaimFor, SameDraft

\* What is true of a record or a copy stays true when claims are added and the
\* records keep their submissions.
LEMMA TruthStays ==
  ASSUME UNCHANGED directory, claims \subseteq claims', DOMAIN audits \subseteq DOMAIN audits',
         \A a \in DOMAIN audits : SameDraft(audits'[a], audits[a])
  PROVE  /\ \A record, a : ShowsStaked(record, a) => ShowsStaked(record, a)'
         /\ \A j : CopyIsTrue(j) => CopyIsTrue(j)'
<1>1. \A record, a, r : ClaimFor(record, a, r)' = ClaimFor(record, a, r)
  BY DEF ClaimFor
<1>2. \A record, a : ShowsStaked(record, a) => ShowsStaked(record, a)'
  BY <1>1 DEF ShowsStaked
<1>3. ASSUME NEW j, CopyIsTrue(j)
      PROVE  CopyIsTrue(j)'
  <2>1. CASE j = NoJob
    BY <2>1 DEF CopyIsTrue
  <2>2. CASE j # NoJob
    <3>1. /\ j.step # "idle" /\ j.audit \in DOMAIN audits /\ j.copy \in AuditShape
          /\ SameDraft(j.copy, audits[j.audit]) /\ ShowsStaked(j.copy, j.audit)
          /\ j.step \in {"checked", "staked"} => j.copy.status = "draft" /\ j.request \in Request
          /\ j.step = "staked" => ClaimFor(j.copy, j.audit, j.request) \in claims
      BY <1>3, <2>2 DEF CopyIsTrue
    <3>2. j.audit \in DOMAIN audits' /\ SameDraft(j.copy, audits'[j.audit])
      BY <3>1 DEF SameDraft
    <3>3. ShowsStaked(j.copy, j.audit)'
      BY <1>2, <3>1
    <3>4. j.step = "staked" => ClaimFor(j.copy, j.audit, j.request)' \in claims'
      BY <1>1, <3>1
    <3> QED BY <3>1, <3>2, <3>3, <3>4 DEF CopyIsTrue
  <2> QED BY <2>1, <2>2
<1> QED BY <1>2, <1>3

\* A draft more, whoever made it.
LEMMA DraftKeepsClaims ==
  ASSUME MarketTyped, ClaimsAreKept, NEW r \in Request, NEW s \in Service,
         NEW by \in {"anonymous", "listener"}, CreateDraft(r, s, by),
         UNCHANGED <<directory, claims, job, contended, apiFaults>>
  PROVE  ClaimsAreKept'
<1>1. PICK new : new = Len(audits) + 1
  OBVIOUS
<1>2. /\ DOMAIN audits' = DOMAIN audits \cup {new}
      /\ \A a \in DOMAIN audits : audits'[a] = audits[a]
      /\ audits'[new].claimed = 0
  <2>1. /\ DOMAIN audits' = 1 .. Len(audits) + 1 /\ DOMAIN audits = 1 .. Len(audits)
        /\ Len(audits) \in Nat /\ audits'[new] = AuditRecord(r, s, by)
        /\ \A a \in DOMAIN audits : audits'[a] = audits[a]
    BY <1>1, DraftFacts, AuditFacts
  <2>2. DOMAIN audits' = DOMAIN audits \cup {new}
    BY <1>1, <2>1
  <2>3. audits'[new].claimed = 0
    BY <2>1 DEF AuditRecord
  <2> QED BY <2>1, <2>2, <2>3
<1>3. /\ \A record, a : ShowsStaked(record, a) => ShowsStaked(record, a)'
      /\ \A j : CopyIsTrue(j) => CopyIsTrue(j)'
  BY <1>2, TruthStays DEF SameDraft
<1>4. ClaimsAreOne'
  BY <1>2 DEF ClaimsAreKept, ClaimsAreOne, ClaimFor
<1>5. RecordsAreTrue'
  <2>1. \A a \in DOMAIN audits : ShowsStaked(audits'[a], a)
    BY <1>2 DEF ClaimsAreKept, RecordsAreTrue
  <2>2. ShowsStaked(audits'[new], new)
    BY <1>2 DEF ShowsStaked
  <2> QED BY <1>2, <2>1, <2>2 DEF RecordsAreTrue, ShowsStaked, ClaimFor
<1>6. CopiesAreTrue'
  BY <1>3 DEF ClaimsAreKept, CopiesAreTrue, CopyIsTrue
<1>7. HoldersAreAlone'
  <2>1. \A h \in Handler : job[h] # NoJob => job[h].audit \in DOMAIN audits
    BY DEF ClaimsAreKept, CopiesAreTrue, CopyIsTrue
  <2> QED BY <1>2, <2>1 DEF ClaimsAreKept, HoldersAreAlone
<1>8. ClaimsAreShown'
  BY <1>2 DEF ClaimsAreKept, ClaimsAreShown, ClaimsAreOne, AboutToShow
<1> QED BY <1>4, <1>5, <1>6, <1>7, <1>8 DEF ClaimsAreKept

\* A handler takes a copy.
LEMMA ReadKeepsClaims ==
  ASSUME MarketTyped, ClaimsAreKept, NEW h \in Handler, NEW a \in DOMAIN audits, ReadAudit(h, a)
  PROVE  ClaimsAreKept' /\ job' \in [Handler -> JobShape]
         /\ \A g \in Handler : job'[g].audit \in DOMAIN audits \cup {0}
<1> DEFINE next == Job("read", a, audits[a], 0)
<1>1. /\ job[h] = NoJob /\ job' = [job EXCEPT ![h] = next]
      /\ contended' = contended \cup {b \in {a} : \E g \in Handler : job[g].audit = b}
      /\ UNCHANGED <<directory, claims, audits, apiFaults>>
  BY DEF ReadAudit, HandlersOnly, identityVars
<1>2. /\ next.step = "read" /\ next.audit = a /\ next.copy = audits[a] /\ next.request = 0
      /\ next # NoJob
  BY DEF Job, NoJob
<1>3. audits[a] \in AuditShape /\ a \in Nat /\ a # 0 /\ job \in [Handler -> JobShape]
      /\ \A g \in Handler : job[g].audit \in DOMAIN audits \cup {0}
  BY AuditFacts
<1>4. next \in JobShape
  BY <1>3 DEF Job, JobShape
<1> HIDE DEF next
<1>5. /\ job'[h] = next /\ \A g \in Handler \ {h} : job'[g] = job[g]
      /\ job' \in [Handler -> JobShape]
  BY <1>1, <1>3, <1>4
<1>6. \A record, b, r : ClaimFor(record, b, r)' = ClaimFor(record, b, r)
  BY <1>1 DEF ClaimFor
<1>7. /\ \A record, b : ShowsStaked(record, b) => ShowsStaked(record, b)'
      /\ \A j : CopyIsTrue(j) => CopyIsTrue(j)'
  BY <1>1, TruthStays DEF SameDraft
<1>8. ClaimsAreOne' /\ RecordsAreTrue'
  BY <1>1, <1>6, <1>7 DEF ClaimsAreKept, ClaimsAreOne, RecordsAreTrue, ShowsStaked
<1>9. CopiesAreTrue'
  <2>1. CopyIsTrue(next)
    BY <1>2, <1>3 DEF ClaimsAreKept, RecordsAreTrue, CopyIsTrue, SameDraft
  <2>2. \A g \in Handler : CopyIsTrue(job'[g])
    BY <1>5, <2>1 DEF ClaimsAreKept, CopiesAreTrue
  <2>3. \A g \in Handler : CopyIsTrue(job'[g]) => CopyIsTrue(job[g])'
    BY <1>1, <1>6 DEF CopyIsTrue, ShowsStaked, SameDraft
  <2> QED BY <2>2, <2>3 DEF CopiesAreTrue
<1>10. HoldersAreAlone'
  <2> SUFFICES ASSUME NEW g \in Handler, job'[g] # NoJob, job'[g].audit \notin contended'
               PROVE  /\ job'[g].copy = audits[job'[g].audit]
                      /\ \A f \in Handler : job'[f].audit = job'[g].audit => f = g
    BY <1>1 DEF HoldersAreAlone
  <2>1. CASE g = h
    <3>1. \A f \in Handler : job[f].audit # a
      BY <1>1, <1>2, <1>5, <2>1
    <3> QED BY <1>2, <1>5, <2>1, <3>1
  <2>2. CASE g # h
    <3>1. job'[g] = job[g] /\ job[g].audit \notin contended
      BY <1>1, <1>5, <2>2
    <3>2. /\ job[g].copy = audits[job[g].audit]
          /\ \A f \in Handler : job[f].audit = job[g].audit => f = g
      BY <3>1 DEF ClaimsAreKept, HoldersAreAlone
    <3>3. job[g].audit # a
      BY <1>1, <3>1
    <3> QED BY <1>2, <1>5, <3>1, <3>2, <3>3
  <2> QED BY <2>1, <2>2
<1>11. ClaimsAreShown'
  <2>1. \A g \in Handler, c \in claims : AboutToShow(g, c) => AboutToShow(g, c)'
    BY <1>1, <1>5 DEF AboutToShow, NoJob, Job
  <2> QED BY <1>1, <2>1 DEF ClaimsAreKept, ClaimsAreShown
<1>12. \A g \in Handler : job'[g].audit \in DOMAIN audits \cup {0}
  BY <1>2, <1>3, <1>5
<1> QED BY <1>5, <1>8, <1>9, <1>10, <1>11, <1>12 DEF ClaimsAreKept

\* A handler goes on: it may store a record over the one it read, take a claim
\* and keep or drop its job.
LEMMA HandlerKeepsClaims ==
  ASSUME MarketTyped, ClaimsAreKept, NEW h \in Handler, NEW a \in DOMAIN audits,
         NEW next \in JobShape, NEW record \in AuditShape,
         job[h] # NoJob, job[h].audit = a, job' = [job EXCEPT ![h] = next],
         DOMAIN audits' = DOMAIN audits, audits'[a] = record,
         \A b \in DOMAIN audits \ {a} : audits'[b] = audits[b],
         SameDraft(record, audits[a]), ShowsStaked(record, a),
         UNCHANGED <<directory, contended, apiFaults>>,
         \/ claims' = claims
         \/ /\ claims' = claims \cup {ClaimFor(audits[a], a, next.request)}
            /\ ~ClaimTaken(next.request, directory[audits[a].service])
            /\ next.step = "staked",
         CopyIsTrue(next)',
         next # NoJob => next.audit = a /\ (a \notin contended => next.copy = record),
         a \notin contended => \A r \in Request :
           audits[a].claimed = r \/ (job[h].step = "staked" /\ job[h].request = r) =>
             record.claimed = r \/ (next.step = "staked" /\ next.request = r)
  PROVE  ClaimsAreKept'
<1> DEFINE mine == ClaimFor(audits[a], a, next.request)
<1>1. /\ job'[h] = next /\ \A g \in Handler \ {h} : job'[g] = job[g]
      /\ claims \subseteq claims' /\ claims' \subseteq claims \cup {mine}
      /\ \A b \in DOMAIN audits : SameDraft(audits'[b], audits[b])
  BY AuditFacts DEF SameDraft
<1>2. \A c \in claims : /\ c[1] \in Request /\ c[3] \in DOMAIN audits
                        /\ c = ClaimFor(audits[c[3]], c[3], c[1])
  BY DEF ClaimsAreKept, ClaimsAreOne, MarketTyped, MarketTypeOK
<1>3. /\ \A r, b : ShowsStaked(r, b) => ShowsStaked(r, b)'
      /\ \A j : CopyIsTrue(j) => CopyIsTrue(j)'
  BY <1>1, TruthStays
<1>4. mine[1] = next.request /\ mine[2] = directory[audits[a].service] /\ mine[3] = a
  BY ClaimFacts
<1>5. ClaimsAreOne'
  <2>1. \A r : \A b \in DOMAIN audits : ClaimFor(audits[b], b, r)' = ClaimFor(audits[b], b, r)
    BY <1>1 DEF ClaimFor, SameDraft
  <2>2. \A c \in claims \cup {mine} :
          c[3] \in DOMAIN audits /\ c = ClaimFor(audits[c[3]], c[3], c[1])
    BY <1>2, <1>4
  <2>3. \A c \in claims' : c[3] \in DOMAIN audits' /\ c = ClaimFor(audits[c[3]], c[3], c[1])'
    BY <1>1, <2>1, <2>2
  <2>4. ASSUME NEW c \in claims', NEW d \in claims', c[1] = d[1], c[2] = d[2]
        PROVE  c = d
    <3>1. CASE claims' = claims
      BY <2>4, <3>1 DEF ClaimsAreKept, ClaimsAreOne
    <3>2. CASE ~ClaimTaken(next.request, directory[audits[a].service])
      <4>1. \A e \in claims : ~(e[1] = mine[1] /\ e[2] = mine[2])
        BY <1>4, <3>2 DEF ClaimTaken
      <4> HIDE DEF mine
      <4> QED BY <1>1, <2>4, <4>1 DEF ClaimsAreKept, ClaimsAreOne
    <3> QED BY <3>1, <3>2
  <2> QED BY <2>3, <2>4 DEF ClaimsAreOne
<1>6. RecordsAreTrue'
  <2>1. \A b \in DOMAIN audits : ShowsStaked(audits'[b], b)
    BY DEF ClaimsAreKept, RecordsAreTrue
  <2>2. \A b \in DOMAIN audits : ShowsStaked(audits[b], b)'
    <3>1. \A r, b : ClaimFor(r, b, r.claimed)' = ClaimFor(r, b, r.claimed)
      BY DEF ClaimFor
    <3>2. \A b \in DOMAIN audits : audits'[b].claimed # 0 =>
            /\ audits'[b].status = "published"
            /\ ClaimFor(audits'[b], b, audits'[b].claimed) \in claims'
      BY <1>1, <2>1 DEF ShowsStaked
    <3> QED BY <3>2 DEF ShowsStaked, ClaimFor
  <2> QED BY <2>2 DEF RecordsAreTrue
<1>7. CopiesAreTrue'
  <2>1. \A g \in Handler \ {h} : CopyIsTrue(job[g])'
    <3>1. ASSUME NEW g \in Handler \ {h}
          PROVE  CopyIsTrue(job[g])'
      <4>1. PICK j : j = job[g]
        OBVIOUS
      <4>2. CopyIsTrue(j)'
        BY <1>3, <4>1 DEF ClaimsAreKept, CopiesAreTrue
      <4>3. j = job'[g]
        BY <1>1, <4>1
      <4> QED BY <4>2, <4>3 DEF CopyIsTrue
    <3> QED BY <3>1
  <2>2. CopyIsTrue(job[h])'
    BY <1>1 DEF CopyIsTrue
  <2> QED BY <2>1, <2>2 DEF CopiesAreTrue
<1>8. HoldersAreAlone'
  <2> SUFFICES ASSUME NEW g \in Handler, job'[g] # NoJob, job'[g].audit \notin contended
               PROVE  /\ job'[g].copy = audits'[job'[g].audit]
                      /\ \A f \in Handler : job'[f].audit = job'[g].audit => f = g
    BY DEF HoldersAreAlone
  <2>1. \A f \in Handler : job'[f].audit \in {job[f].audit, 0}
    BY <1>1 DEF NoJob, Job
  <2>2. job[g] # NoJob /\ job[g].audit = job'[g].audit /\ job'[g].audit \in DOMAIN audits
    BY <1>1 DEF ClaimsAreKept, CopiesAreTrue, CopyIsTrue
  <2>3. job[g].copy = audits[job[g].audit]
        /\ \A f \in Handler : job[f].audit = job[g].audit => f = g
    BY <2>2 DEF ClaimsAreKept, HoldersAreAlone
  <2>4. job'[g].audit # 0
    BY <2>2, AuditFacts
  <2>5. \A f \in Handler : job'[f].audit = job'[g].audit => f = g
    BY <2>1, <2>2, <2>3, <2>4
  <2>6. job'[g].copy = audits'[job'[g].audit]
    <3>1. CASE g = h
      BY <1>1, <3>1
    <3>2. CASE g # h
      <4>1. job[g].audit # a
        BY <2>3, <3>2
      <4> QED BY <1>1, <2>2, <2>3, <3>2, <4>1
    <3> QED BY <3>1, <3>2
  <2> QED BY <2>5, <2>6
<1>9. ClaimsAreShown'
  <2> SUFFICES ASSUME apiFaults = 0, NEW c \in claims', c[3] \notin contended
               PROVE  audits'[c[3]].claimed = c[1] \/ \E g \in Handler : AboutToShow(g, c)'
    BY DEF ClaimsAreShown
  <2>1. CASE c \notin claims
    <3>1. c = mine /\ next.step = "staked" /\ next # NoJob
      BY <1>1, <2>1 DEF NoJob, Job
    <3>2. AboutToShow(h, c)'
      BY <1>1, <1>4, <3>1 DEF AboutToShow
    <3> QED BY <3>2
  <2>2. CASE c \in claims /\ c[3] # a
    <3>1. audits'[c[3]] = audits[c[3]]
      BY <1>2, <2>2
    <3>2. \A g \in Handler : AboutToShow(g, c) => AboutToShow(g, c)'
      BY <1>1, <2>2 DEF AboutToShow
    <3> QED BY <2>2, <3>1, <3>2 DEF ClaimsAreKept, ClaimsAreShown
  <2>3. CASE c \in claims /\ c[3] = a
    <3>1. audits[a].claimed = c[1] \/ \E g \in Handler : AboutToShow(g, c)
      BY <2>3 DEF ClaimsAreKept, ClaimsAreShown
    <3>2. \A g \in Handler : AboutToShow(g, c) => g = h
      BY <2>3 DEF AboutToShow, ClaimsAreKept, HoldersAreAlone
    <3>3. audits[a].claimed = c[1] \/ (job[h].step = "staked" /\ job[h].request = c[1])
      BY <3>1, <3>2 DEF AboutToShow
    <3>4. record.claimed = c[1] \/ (next.step = "staked" /\ next.request = c[1])
      BY <1>2, <2>3, <3>3
    <3>5. CASE record.claimed = c[1]
      BY <2>3, <3>5
    <3>6. CASE next.step = "staked" /\ next.request = c[1]
      <4>1. next.audit = a
        BY <3>6 DEF NoJob, Job
      <4>2. AboutToShow(h, c)'
        BY <1>1, <2>3, <3>6, <4>1 DEF AboutToShow
      <4> QED BY <4>2
    <3> QED BY <3>4, <3>5, <3>6
  <2> QED BY <2>1, <2>2, <2>3
<1> QED BY <1>5, <1>6, <1>7, <1>8, <1>9 DEF ClaimsAreKept

\* After a fault handlers may have lost what they staked.
LEMMA FaultKeepsClaims ==
  ASSUME MarketTyped, ClaimsAreKept, apiFaults' # 0,
         \A h \in Handler : job'[h] = job[h] \/ job'[h] = NoJob,
         UNCHANGED <<directory, claims, audits, contended>>
  PROVE  ClaimsAreKept'
<1>1. \A record, b, r : ClaimFor(record, b, r)' = ClaimFor(record, b, r)
  BY DEF ClaimFor
<1>2. ClaimsAreOne' /\ RecordsAreTrue'
  BY <1>1 DEF ClaimsAreKept, ClaimsAreOne, RecordsAreTrue, ShowsStaked
<1>3. CopiesAreTrue'
  <2>1. \A h \in Handler : CopyIsTrue(job'[h])
    BY DEF ClaimsAreKept, CopiesAreTrue, CopyIsTrue
  <2> QED BY <1>1, <2>1 DEF CopiesAreTrue, CopyIsTrue, ShowsStaked, SameDraft
<1>4. HoldersAreAlone'
  <2> SUFFICES ASSUME NEW g \in Handler, job'[g] # NoJob, job'[g].audit \notin contended
               PROVE  /\ job'[g].copy = audits[job'[g].audit]
                      /\ \A f \in Handler : job'[f].audit = job'[g].audit => f = g
    BY DEF HoldersAreAlone
  <2>1. job'[g] = job[g] /\ job[g].audit \in DOMAIN audits
    BY DEF ClaimsAreKept, CopiesAreTrue, CopyIsTrue
  <2>2. job[g].audit # 0
    BY <2>1, AuditFacts
  <2>3. \A f \in Handler : job'[f].audit \in {job[f].audit, 0}
    BY DEF NoJob, Job
  <2> QED BY <2>1, <2>2, <2>3 DEF ClaimsAreKept, HoldersAreAlone
<1>5. ClaimsAreShown'
  BY DEF ClaimsAreShown
<1> QED BY <1>2, <1>3, <1>4, <1>5 DEF ClaimsAreKept

-----------------------------------------------------------------------------
\* The steps of the marketplace, by what they may disturb.
LEMMA NormalizedFacts ==
  ASSUME NEW r \in Request, NEW f \in Filters[r]
  PROVE  /\ NormalizeFilters(f).minimumStake \in Nat
         /\ NormalizeFilters(f).agent \in Int
<1>1. /\ f = [minimumStake |-> f.minimumStake, mode |-> f.mode, allowed |-> f.allowed,
              service |-> f.service, agent |-> f.agent, registry |-> f.registry]
      /\ f.minimumStake \in Int /\ f.agent \in Int
  BY MarketFacts
<1> QED BY <1>1 DEF NormalizeFilters

LEMMA RulesFacts ==
  ASSUME NEW f, NEW d, NEW o, NEW e \in Rules(f, d, o)
  PROVE  /\ e.minimumStake = f.minimumStake
         /\ e.allowlist <=> f.mode = "allowlist"
         /\ e.required \in RequiredIdentity(f, d)
         /\ f.mode = "allowlist" => e.allowlisted \in ResolvedAllowlist(f, d, o)
<1>1. PICK i \in RequiredIdentity(f, d), a \in ResolvedAllowlist(f, d, o) :
        e = [minimumStake |-> f.minimumStake, allowlist |-> f.mode = "allowlist",
             allowlisted |-> IF f.mode = "allowlist" THEN a ELSE {}, required |-> i]
  BY DEF Rules
<1> QED BY <1>1

LEMMA OpenKeepsRequests ==
  ASSUME MarketTyped, RequestsAreKept, NEW r \in Request, OpenRequest(r)
  PROVE  MarketTyped' /\ RequestsAreKept'
<1>1. PICK f \in Filters[r] :
        /\ asked' = [asked EXCEPT ![r] = NormalizeFilters(f)]
        /\ \E e \in Rules(NormalizeFilters(f), directory, owner) :
             rules' = [rules EXCEPT ![r] = e]
  BY DEF OpenRequest
<1>2. PICK e \in Rules(NormalizeFilters(f), directory, owner) :
        rules' = [rules EXCEPT ![r] = e]
  BY <1>1
<1>3. e.minimumStake \in Nat
  BY NormalizedFacts, RulesFacts
<1>4. /\ chain[r] = "none" /\ chain' = [chain EXCEPT ![r] = "open"]
      /\ creating' = creating \cup {r}
      /\ UNCHANGED <<directory, owner, transfers, claims, index, audits, job, contended,
                     apiFaults>>
  BY DEF OpenRequest, identityVars, auditVars
<1>5. /\ rules'[r] = e /\ asked'[r] = NormalizeFilters(f) /\ chain'[r] = "open"
      /\ \A q \in Request \ {r} :
           rules'[q] = rules[q] /\ asked'[q] = asked[q] /\ chain'[q] = chain[q]
  BY <1>1, <1>2, <1>4 DEF MarketTyped, MarketTypeOK
<1>6. MarketTyped'
  BY <1>1, <1>2, <1>4 DEF MarketTyped, MarketTypeOK, ChainStatus, Identities
<1>7. \A q \in Request : rules'[q].minimumStake \in Nat
  BY <1>3, <1>5 DEF RequestsAreKept
<1>8. \A q \in Request : chain'[q] # "none" =>
        /\ \E g \in Filters[q] : asked'[q] = NormalizeFilters(g)
        /\ transfers' = 0 => rules'[q] \in Rules(asked'[q], directory', owner')
  BY <1>2, <1>4, <1>5 DEF RequestsAreKept
<1>9. /\ \A q \in Request : index'[q] # "absent" \/ q \in creating' => chain'[q] # "none"
      /\ apiFaults' = 0 => \A q \in Request :
           chain'[q] # "none" => index'[q] # "absent" \/ q \in creating'
  BY <1>4, <1>5 DEF RequestsAreKept
<1> QED BY <1>6, <1>7, <1>8, <1>9 DEF RequestsAreKept

LEMMA IndexKeepsRequests ==
  ASSUME MarketTyped, RequestsAreKept, NEW r \in Request, IndexRequest(r)
  PROVE  MarketTyped' /\ RequestsAreKept'
<1>1. /\ r \in creating /\ creating' = creating \ {r}
      /\ index' = [index EXCEPT ![r] = chain[r]]
      /\ UNCHANGED <<directory, owner, transfers, chain, rules, asked, claims, audits, job,
                     contended, apiFaults>>
  BY DEF IndexRequest, identityVars, requestVars, auditVars
<1>2. MarketTyped'
  BY <1>1 DEF MarketTyped, MarketTypeOK, ChainStatus, Identities
<1>3. /\ index'[r] = chain[r] /\ chain[r] # "absent" /\ chain[r] # "none"
      /\ \A q \in Request \ {r} : index'[q] = index[q]
  BY <1>1 DEF MarketTyped, MarketTypeOK, ChainStatus, RequestsAreKept
<1> QED BY <1>1, <1>2, <1>3 DEF RequestsAreKept

LEMMA EndKeepsRequests ==
  ASSUME MarketTyped, RequestsAreKept, NEW r \in Request, RequestEnds(r)
  PROVE  MarketTyped' /\ RequestsAreKept'
<1>1. /\ chain[r] = "open" /\ chain' = [chain EXCEPT ![r] = "closed"]
      /\ UNCHANGED <<directory, owner, transfers, index, creating, rules, asked, claims,
                     audits, job, contended, apiFaults>>
  BY DEF RequestEnds, identityVars, auditVars
<1>2. MarketTyped'
  BY <1>1 DEF MarketTyped, MarketTypeOK, ChainStatus, Identities
<1>3. \A q \in Request : chain'[q] # "none" <=> chain[q] # "none"
  BY <1>1 DEF MarketTyped, MarketTypeOK
<1> QED BY <1>1, <1>2, <1>3 DEF RequestsAreKept

LEMMA TransferKeepsRequests ==
  ASSUME MarketTyped, RequestsAreKept, TransferIdentity
  PROVE  MarketTyped' /\ RequestsAreKept'
<1>1. PICK i \in Identities : owner' = [owner EXCEPT ![i] = Buyer]
  BY DEF TransferIdentity
<1>2. /\ transfers' = transfers + 1
      /\ UNCHANGED <<directory, chain, rules, asked, claims, creating, index, audits, job,
                     contended, apiFaults>>
  BY DEF TransferIdentity, requestVars, auditVars
<1>3. MarketTyped' /\ transfers' # 0
  BY <1>1, <1>2 DEF MarketTyped, MarketTypeOK, Identities
<1> QED BY <1>2, <1>3 DEF RequestsAreKept

\* A step that leaves the requests alone.
LEMMA RequestsStand ==
  ASSUME MarketTyped, RequestsAreKept, audits' \in Seq(AuditShape),
         job' \in [Handler -> JobShape],
         \A h \in Handler : job'[h].audit \in DOMAIN audits' \cup {0},
         claims' \subseteq Request \X Identities \X DOMAIN audits',
         contended' \subseteq DOMAIN audits',
         UNCHANGED <<identityVars, requestVars, index, creating, apiFaults>>
  PROVE  MarketTyped' /\ RequestsAreKept'
<1>1. UNCHANGED <<directory, owner, transfers, chain, rules, asked, index, creating, apiFaults>>
  BY DEF identityVars, requestVars
<1>2. job' \in [Handler -> [step : {"idle", "read", "have", "checked", "staked"},
                            audit : DOMAIN audits' \cup {0},
                            copy : AuditShape \cup {NoRecord}, request : Request \cup {0}]]
  <2>1. \A h \in Handler :
          job'[h] \in [step : {"idle", "read", "have", "checked", "staked"},
                       audit : DOMAIN audits' \cup {0},
                       copy : AuditShape \cup {NoRecord}, request : Request \cup {0}]
    BY DEF JobShape
  <2> QED BY <2>1
<1>3. MarketTyped'
  BY <1>1, <1>2 DEF MarketTyped, MarketTypeOK, Identities
<1>4. RequestsAreKept'
  BY <1>1 DEF RequestsAreKept
<1> QED BY <1>3, <1>4

LEMMA FaultKeepsRequests ==
  ASSUME MarketTyped, RequestsAreKept, apiFaults' \in Nat \ {0}, creating' \subseteq creating,
         job' \in [Handler -> JobShape],
         \A h \in Handler : job'[h].audit \in DOMAIN audits \cup {0},
         UNCHANGED <<identityVars, requestVars, claims, index, audits, contended>>
  PROVE  MarketTyped' /\ RequestsAreKept'
<1>1. UNCHANGED <<directory, owner, transfers, chain, rules, asked, claims, index, audits,
                  contended>>
  BY DEF identityVars, requestVars
<1>2. job' \in [Handler -> [step : {"idle", "read", "have", "checked", "staked"},
                            audit : DOMAIN audits' \cup {0},
                            copy : AuditShape \cup {NoRecord}, request : Request \cup {0}]]
  <2>1. \A h \in Handler :
          job'[h] \in [step : {"idle", "read", "have", "checked", "staked"},
                       audit : DOMAIN audits' \cup {0},
                       copy : AuditShape \cup {NoRecord}, request : Request \cup {0}]
    BY <1>1 DEF JobShape
  <2> QED BY <2>1
<1>3. MarketTyped'
  BY <1>1, <1>2 DEF MarketTyped, MarketTypeOK, Identities
<1>4. RequestsAreKept'
  BY <1>1 DEF RequestsAreKept
<1> QED BY <1>3, <1>4

LEMMA NoJobFacts ==
  /\ NoJob \in JobShape /\ NoJob.step = "idle" /\ NoJob.audit = 0 /\ NoJob.request = 0
  /\ CopyIsTrue(NoJob)
BY DEF NoJob, Job, JobShape, CopyIsTrue

\* What is known of a handler at work.
LEMMA JobFacts ==
  ASSUME MarketTyped, ClaimsAreKept, NEW h \in Handler, job[h] # NoJob
  PROVE  /\ job[h] \in JobShape
         /\ job[h].audit \in DOMAIN audits /\ job[h].copy \in AuditShape
         /\ audits[job[h].audit] \in AuditShape
         /\ SameDraft(job[h].copy, audits[job[h].audit])
         /\ ShowsStaked(job[h].copy, job[h].audit)
         /\ job[h].step \in {"checked", "staked"} =>
              job[h].copy.status = "draft" /\ job[h].request \in Request
         /\ job[h].step = "staked" =>
              ClaimFor(job[h].copy, job[h].audit, job[h].request) \in claims
         /\ job[h].audit \notin contended => job[h].copy = audits[job[h].audit]
<1>1. CopyIsTrue(job[h])
  BY DEF ClaimsAreKept, CopiesAreTrue
<1> QED BY <1>1, AuditFacts DEF CopyIsTrue, ClaimsAreKept, HoldersAreAlone

\* A handler goes on, and the marketplace is kept.
LEMMA HandlerKeepsMarket ==
  ASSUME MarketCore, NEW h \in Handler, NEW next \in JobShape, NEW record \in AuditShape,
         job[h] # NoJob, job' = [job EXCEPT ![h] = next],
         \/ audits' = [audits EXCEPT ![job[h].audit] = record]
         \/ audits' = audits /\ record = audits[job[h].audit],
         SameDraft(record, audits[job[h].audit]), ShowsStaked(record, job[h].audit),
         UNCHANGED contended, HandlersOnly,
         \/ claims' = claims
         \/ /\ claims' = claims \cup
                 {ClaimFor(audits[job[h].audit], job[h].audit, next.request)}
            /\ ~ClaimTaken(next.request, directory[audits[job[h].audit].service])
            /\ next.step = "staked" /\ next.request \in Request
            /\ directory[audits[job[h].audit].service] # NoIdentity,
         CopyIsTrue(next)',
         next # NoJob =>
           /\ next.audit = job[h].audit
           /\ job[h].audit \notin contended => next.copy = record,
         job[h].audit \notin contended => \A r \in Request :
           audits[job[h].audit].claimed = r \/ (job[h].step = "staked" /\ job[h].request = r) =>
             record.claimed = r \/ (next.step = "staked" /\ next.request = r)
  PROVE  MarketCore'
<1>1. MarketTyped /\ RequestsAreKept /\ ClaimsAreKept
  BY DEF MarketCore
<1>2. PICK a \in DOMAIN audits : a = job[h].audit
  BY <1>1, JobFacts
<1>3. /\ audits \in Seq(AuditShape) /\ job \in [Handler -> JobShape] /\ audits[a] \in AuditShape
      /\ \A g \in Handler : job[g].audit \in DOMAIN audits \cup {0}
  BY <1>1, AuditFacts
<1>4. /\ audits' \in Seq(AuditShape) /\ DOMAIN audits' = DOMAIN audits /\ audits'[a] = record
      /\ \A b \in DOMAIN audits \ {a} : audits'[b] = audits[b]
  <2>1. CASE audits' = [audits EXCEPT ![a] = record]
    BY <1>3, <2>1
  <2>2. CASE audits' = audits /\ record = audits[a]
    BY <1>3, <2>2
  <2> QED BY <1>2, <2>1, <2>2
<1>5. UNCHANGED <<directory, apiFaults>> /\ UNCHANGED <<identityVars, requestVars, index, creating,
                                                        apiFaults>>
  BY DEF HandlersOnly, identityVars
<1>6. /\ job' \in [Handler -> JobShape]
      /\ \A g \in Handler : job'[g].audit \in DOMAIN audits' \cup {0}
  <2>1. next.audit \in DOMAIN audits \cup {0}
    BY <1>2, NoJobFacts
  <2> QED BY <1>3, <1>4, <2>1
<1>7. claims' \subseteq Request \X Identities \X DOMAIN audits' /\ contended' \subseteq DOMAIN audits'
  <2>1. claims \subseteq Request \X Identities \X DOMAIN audits /\ contended \subseteq DOMAIN audits
    BY <1>1 DEF MarketTyped, MarketTypeOK
  <2>2. CASE claims' = claims
    BY <1>4, <2>1, <2>2
  <2>3. CASE /\ claims' = claims \cup {ClaimFor(audits[a], a, next.request)}
             /\ next.request \in Request /\ directory[audits[a].service] # NoIdentity
    <3>1. directory[audits[a].service] \in Identities
      BY <1>3, <2>3 DEF Identities, AuditShape
    <3> QED BY <1>4, <2>1, <2>3, <3>1 DEF ClaimFor
  <2> QED BY <1>2, <2>2, <2>3
<1>8. ClaimsAreKept'
  BY <1>1, <1>2, <1>4, <1>5, HandlerKeepsClaims
<1> QED BY <1>1, <1>4, <1>5, <1>6, <1>7, <1>8, RequestsStand DEF MarketCore

\* ... one by one.  A draft shows no claim.
LEMMA DraftShowsNone ==
  ASSUME NEW record, NEW a, ShowsStaked(record, a), record.status # "published"
  PROVE  record.claimed = 0
BY DEF ShowsStaked

LEMMA ReadKeepsMarket ==
  ASSUME MarketCore, NEW h \in Handler, NEW a \in DOMAIN audits, ReadAudit(h, a)
  PROVE  MarketCore'
<1>1. MarketTyped /\ RequestsAreKept /\ ClaimsAreKept
  BY DEF MarketCore
<1>2. /\ UNCHANGED <<identityVars, requestVars, index, creating, apiFaults, audits, claims>>
      /\ contended' \subseteq contended \cup {a}
  BY DEF ReadAudit, HandlersOnly
<1>3. /\ claims' \subseteq Request \X Identities \X DOMAIN audits'
      /\ contended' \subseteq DOMAIN audits' /\ audits' \in Seq(AuditShape)
  BY <1>1, <1>2 DEF MarketTyped, MarketTypeOK
<1>4. ClaimsAreKept' /\ job' \in [Handler -> JobShape]
      /\ \A g \in Handler : job'[g].audit \in DOMAIN audits' \cup {0}
  BY <1>1, <1>2, ReadKeepsClaims
<1> QED BY <1>1, <1>2, <1>3, <1>4, RequestsStand DEF MarketCore

LEMMA NormalizeKeepsMarket ==
  ASSUME MarketCore, NEW h \in Handler, NormalizeAudit(h)
  PROVE  MarketCore'
<1> DEFINE a == job[h].audit
<1> PICK copy : copy = Normalized(job[h].copy)
  OBVIOUS
<1> PICK next : next = [job[h] EXCEPT !.step = "have", !.copy = copy]
  OBVIOUS
<1>1. /\ MarketTyped /\ ClaimsAreKept /\ job[h].step = "read" /\ job[h] # NoJob
      /\ job' = [job EXCEPT ![h].step = "have", ![h].copy = copy]
      /\ UNCHANGED <<claims, contended>> /\ HandlersOnly
  BY NoJobFacts DEF MarketCore, NormalizeAudit
<1>2. /\ job[h] \in JobShape /\ a \in DOMAIN audits /\ job[h].copy \in AuditShape
      /\ SameDraft(job[h].copy, audits[a]) /\ ShowsStaked(job[h].copy, a)
      /\ a \notin contended => job[h].copy = audits[a]
      /\ audits[a] \in AuditShape /\ job \in [Handler -> JobShape]
  BY <1>1, JobFacts, AuditFacts
<1>3. /\ copy \in AuditShape /\ copy.claimed = job[h].copy.claimed
      /\ copy.request = job[h].copy.request /\ copy.service = job[h].copy.service
      /\ copy.submittedBy = job[h].copy.submittedBy
      /\ job[h].copy.status = "published" => copy.status = "published"
  BY <1>2 DEF Normalized, AuditShape
<1>4. /\ next \in JobShape /\ next.step = "have" /\ next.copy = copy /\ next.audit = a
      /\ job' = [job EXCEPT ![h] = next]
  BY <1>1, <1>2, <1>3 DEF JobShape
<1>5. SameDraft(copy, audits[a]) /\ ShowsStaked(copy, a)
  BY <1>2, <1>3 DEF SameDraft, ShowsStaked, ClaimFor
<1>6. \/ audits' = [audits EXCEPT ![a] = copy]
      \/ audits' = audits /\ copy = job[h].copy
  BY DEF NormalizeAudit
<1>7. UNCHANGED directory
  BY <1>1 DEF HandlersOnly, identityVars
<1> HIDE DEF a
<1>8. CASE audits' = [audits EXCEPT ![a] = copy]
  <2>1. DOMAIN audits' = DOMAIN audits /\ audits'[a] = copy
    BY <1>2, <1>8
  <2>2. CopyIsTrue(next)'
    BY <1>1, <1>2, <1>3, <1>4, <1>5, <1>7, <2>1
       DEF CopyIsTrue, SameDraft, ShowsStaked, ClaimFor
  <2>3. a \notin contended => \A r \in Request :
          audits[a].claimed = r \/ (job[h].step = "staked" /\ job[h].request = r) =>
            copy.claimed = r \/ (next.step = "staked" /\ next.request = r)
    BY <1>1, <1>2, <1>3
  <2> QED BY <1>1, <1>3, <1>4, <1>5, <1>8, <2>2, <2>3, HandlerKeepsMarket DEF a
<1>9. CASE audits' = audits /\ copy = job[h].copy
  <2>1. CopyIsTrue(next)'
    BY <1>1, <1>2, <1>3, <1>4, <1>5, <1>7, <1>9
       DEF CopyIsTrue, SameDraft, ShowsStaked, ClaimFor
  <2>2. SameDraft(audits[a], audits[a]) /\ ShowsStaked(audits[a], a)
    BY <1>1, <1>2 DEF SameDraft, ClaimsAreKept, RecordsAreTrue
  <2>3. \A r \in Request :
          audits[a].claimed = r \/ (job[h].step = "staked" /\ job[h].request = r) =>
            audits[a].claimed = r \/ (next.step = "staked" /\ next.request = r)
    BY <1>1
  <2> QED BY <1>1, <1>2, <1>4, <1>9, <2>1, <2>2, <2>3, HandlerKeepsMarket DEF a
<1> QED BY <1>6, <1>8, <1>9

\* A handler that leaves the records and the claims alone.
LEMMA MoveKeepsMarket ==
  ASSUME MarketCore, NEW h \in Handler, NEW next \in JobShape,
         job[h] # NoJob, job[h].step # "staked", job' = [job EXCEPT ![h] = next],
         UNCHANGED <<audits, claims, contended>>, HandlersOnly,
         \/ next = NoJob
         \/ /\ next.audit = job[h].audit /\ next.copy = job[h].copy
            /\ next.step \in {"have", "checked"}
            /\ next.step = "checked" => next.copy.status = "draft" /\ next.request \in Request
  PROVE  MarketCore'
<1> DEFINE a == job[h].audit
<1>1. /\ a \in DOMAIN audits /\ audits[a] \in AuditShape /\ job[h].copy \in AuditShape
      /\ SameDraft(job[h].copy, audits[a]) /\ ShowsStaked(job[h].copy, a)
      /\ a \notin contended => job[h].copy = audits[a]
  BY JobFacts DEF MarketCore
<1>2. SameDraft(audits[a], audits[a]) /\ ShowsStaked(audits[a], a)
  BY <1>1 DEF SameDraft, MarketCore, ClaimsAreKept, RecordsAreTrue
<1>3. UNCHANGED directory
  BY DEF HandlersOnly, identityVars
<1>4. CopyIsTrue(next)
  BY <1>1, NoJobFacts DEF CopyIsTrue
<1>5. CopyIsTrue(next)'
  BY <1>3, <1>4 DEF CopyIsTrue, SameDraft, ShowsStaked, ClaimFor
<1>6. next # NoJob => next.audit = a /\ (a \notin contended => next.copy = audits[a])
  BY <1>1
<1>7. \A r \in Request :
        audits[a].claimed = r \/ (job[h].step = "staked" /\ job[h].request = r) =>
          audits[a].claimed = r \/ (next.step = "staked" /\ next.request = r)
  OBVIOUS
<1> QED BY <1>1, <1>2, <1>5, <1>6, <1>7, HandlerKeepsMarket

LEMMA BeginKeepsMarket ==
  ASSUME MarketCore, NEW h \in Handler,
         AnswerAudit(h) \/ \E r \in Request : BeginClaim(h, r)
  PROVE  MarketCore'
<1>1. /\ job[h].step = "have" /\ job[h] # NoJob /\ UNCHANGED <<audits, claims, contended>>
      /\ HandlersOnly
  BY NoJobFacts DEF AnswerAudit, BeginClaim
<1>2. job[h] \in JobShape
  BY <1>1, JobFacts DEF MarketCore
<1>3. CASE AnswerAudit(h)
  BY <1>1, <1>3, NoJobFacts, MoveKeepsMarket DEF AnswerAudit
<1>4. ASSUME NEW r \in Request, BeginClaim(h, r)
      PROVE  MarketCore'
  <2> DEFINE next == [job[h] EXCEPT !.step = "checked", !.request = r]
  <2>1. /\ next \in JobShape /\ next.step = "checked" /\ next.request = r
        /\ next.audit = job[h].audit /\ next.copy = job[h].copy
    BY <1>2 DEF JobShape
  <2>2. job' = [job EXCEPT ![h] = next] /\ job[h].copy.status = "draft"
    BY <1>4 DEF BeginClaim
  <2> HIDE DEF next
  <2> QED BY <1>1, <2>1, <2>2, MoveKeepsMarket
<1> QED BY <1>3, <1>4

\* A claim is staked, or turned down.
LEMMA StakeKeepsMarket ==
  ASSUME MarketCore, NEW h \in Handler, StakeClaim(h)
  PROVE  MarketCore'
<1> DEFINE a == job[h].audit
           r == job[h].request
<1> PICK next : next = [job[h] EXCEPT !.step = "staked"]
  OBVIOUS
<1>1. /\ MarketTyped /\ ClaimsAreKept /\ job[h].step = "checked" /\ job[h] # NoJob
      /\ UNCHANGED <<audits, contended>> /\ HandlersOnly
  BY NoJobFacts DEF MarketCore, StakeClaim
<1>2. /\ job[h] \in JobShape /\ a \in DOMAIN audits /\ job[h].copy \in AuditShape
      /\ SameDraft(job[h].copy, audits[a]) /\ ShowsStaked(job[h].copy, a)
      /\ a \notin contended => job[h].copy = audits[a]
      /\ audits[a] \in AuditShape /\ r \in Request /\ job[h].copy.status = "draft"
  BY <1>1, JobFacts
<1>3. \/ /\ claims' = claims \cup {ClaimFor(job[h].copy, a, r)}
         /\ ~ClaimTaken(r, directory[job[h].copy.service])
         /\ directory[job[h].copy.service] # NoIdentity
         /\ job' = [job EXCEPT ![h].step = "staked"]
      \/ claims' = claims /\ job' = [job EXCEPT ![h] = NoJob]
  BY DEF StakeClaim, ContractAdmits
<1>4. CASE claims' = claims /\ job' = [job EXCEPT ![h] = NoJob]
  BY <1>1, <1>4, NoJobFacts, MoveKeepsMarket
<1>5. CASE /\ claims' = claims \cup {ClaimFor(job[h].copy, a, r)}
           /\ ~ClaimTaken(r, directory[job[h].copy.service])
           /\ directory[job[h].copy.service] # NoIdentity
           /\ job' = [job EXCEPT ![h].step = "staked"]
  <2>1. /\ next \in JobShape /\ next.step = "staked" /\ next.request = r
        /\ next.audit = a /\ next.copy = job[h].copy /\ job' = [job EXCEPT ![h] = next]
    BY <1>2, <1>5 DEF JobShape
  <2>2. /\ job[h].copy.service = audits[a].service
        /\ ClaimFor(job[h].copy, a, r) = ClaimFor(audits[a], a, r)
    BY <1>2 DEF SameDraft, ClaimFor
  <2>3. UNCHANGED directory
    BY <1>1 DEF HandlersOnly, identityVars
  <2>4. CopyIsTrue(next)'
    <3>1. ClaimFor(next.copy, next.audit, next.request)' \in claims'
      BY <1>5, <2>1, <2>3 DEF ClaimFor
    <3>2. ShowsStaked(next.copy, next.audit)'
      BY <1>2, <2>1, DraftShowsNone DEF ShowsStaked
    <3>3. next.audit \in DOMAIN audits' /\ SameDraft(next.copy, audits'[next.audit])
      BY <1>1, <1>2, <2>1
    <3> QED BY <1>2, <2>1, <3>1, <3>2, <3>3 DEF CopyIsTrue
  <2>5. SameDraft(audits[a], audits[a]) /\ ShowsStaked(audits[a], a)
    BY <1>1, <1>2 DEF SameDraft, ClaimsAreKept, RecordsAreTrue
  <2>6. \A q \in Request :
          audits[a].claimed = q \/ (job[h].step = "staked" /\ job[h].request = q) =>
            audits[a].claimed = q \/ (next.step = "staked" /\ next.request = q)
    BY <1>1
  <2> QED BY <1>1, <1>2, <1>5, <2>1, <2>2, <2>4, <2>5, <2>6, HandlerKeepsMarket
<1> QED BY <1>3, <1>4, <1>5

\* The handler stores its copy as published, with the claim that it staked, or
\* none.
LEMMA StoreKeepsMarket ==
  ASSUME MarketCore, NEW h \in Handler, RecordClaim(h) \/ PublishDirectly(h)
  PROVE  /\ MarketCore'
         /\ \E a \in DOMAIN audits, record \in AuditShape :
              audits' = [audits EXCEPT ![a] = record] /\ SameDraft(record, audits[a])
<1> DEFINE a == job[h].audit
<1>1. PICK claimed \in Request \cup {0} :
        /\ StorePublished(h, claimed) /\ job[h] # NoJob /\ job[h].copy.status = "draft"
        /\ \/ job[h].step = "staked" /\ claimed = job[h].request
           \/ job[h].step # "staked" /\ claimed = 0
  <2>1. CASE RecordClaim(h)
    <3>1. job[h].step = "staked" /\ job[h] # NoJob /\ StorePublished(h, job[h].request)
      BY <2>1, NoJobFacts DEF RecordClaim
    <3>2. job[h].request \in Request /\ job[h].copy.status = "draft"
      BY <3>1, JobFacts DEF MarketCore
    <3> QED BY <3>1, <3>2
  <2>2. CASE PublishDirectly(h)
    <3>1. job[h].step = "have" /\ job[h] # NoJob /\ StorePublished(h, 0)
          /\ job[h].copy.status = "draft"
      BY <2>2, NoJobFacts DEF PublishDirectly
    <3> QED BY <3>1
  <2> QED BY <2>1, <2>2
<1>2. /\ a \in DOMAIN audits /\ job[h].copy \in AuditShape /\ audits[a] \in AuditShape
      /\ SameDraft(job[h].copy, audits[a]) /\ ShowsStaked(job[h].copy, a)
      /\ a \notin contended => job[h].copy = audits[a]
      /\ job[h].step = "staked" => ClaimFor(job[h].copy, a, job[h].request) \in claims
  BY <1>1, JobFacts DEF MarketCore
<1> DEFINE record == [job[h].copy EXCEPT !.status = "published", !.claimed = claimed]
<1>3. /\ record \in AuditShape /\ record.status = "published" /\ record.claimed = claimed
      /\ record.service = job[h].copy.service /\ record.request = job[h].copy.request
      /\ record.submittedBy = job[h].copy.submittedBy
  BY <1>2 DEF AuditShape
<1>4. /\ audits' = [audits EXCEPT ![a] = record] /\ job' = [job EXCEPT ![h] = NoJob]
      /\ UNCHANGED <<claims, contended>> /\ HandlersOnly
  BY <1>1 DEF StorePublished
<1> HIDE DEF record
<1>5. SameDraft(record, audits[a])
  BY <1>2, <1>3 DEF SameDraft
<1>6. ShowsStaked(record, a)
  <2>1. ASSUME claimed # 0
        PROVE  ClaimFor(record, a, claimed) \in claims
    BY <1>1, <1>2, <1>3, <2>1 DEF ClaimFor
  <2> QED BY <1>3, <2>1 DEF ShowsStaked
<1>7. a \notin contended => \A r \in Request :
        audits[a].claimed = r \/ (job[h].step = "staked" /\ job[h].request = r) =>
          record.claimed = r \/ (NoJob.step = "staked" /\ NoJob.request = r)
  <2>1. job[h].copy.claimed = 0
    BY <1>1, <1>2, DraftShowsNone
  <2> QED BY <1>1, <1>2, <1>3, <2>1, MarketFacts
<1>8. CopyIsTrue(NoJob)'
  BY DEF CopyIsTrue
<1>9. MarketCore'
  BY <1>1, <1>3, <1>4, <1>5, <1>6, <1>7, <1>8, NoJobFacts, HandlerKeepsMarket
<1> QED BY <1>2, <1>3, <1>4, <1>5, <1>9

LEMMA DraftKeepsMarket ==
  ASSUME MarketCore, NEW r \in Request, NEW s \in Service,
         NEW by \in {"anonymous", "listener"}, CreateDraft(r, s, by), OnlyDrafts
  PROVE  MarketCore'
<1>1. MarketTyped /\ RequestsAreKept /\ ClaimsAreKept
  BY DEF MarketCore
<1>2. UNCHANGED <<identityVars, requestVars, claims, creating, index, job, contended, apiFaults>>
  BY DEF OnlyDrafts
<1>3. UNCHANGED <<directory, claims, job, contended, apiFaults>>
  BY <1>2 DEF identityVars
<1>4. ClaimsAreKept' /\ audits' \in Seq(AuditShape)
  BY <1>1, <1>3, DraftKeepsClaims, DraftFacts
<1>5. DOMAIN audits \subseteq DOMAIN audits'
  <2>1. DOMAIN audits = 1 .. Len(audits) /\ DOMAIN audits' = 1 .. Len(audits) + 1
        /\ Len(audits) \in Nat
    BY <1>1, AuditFacts, DraftFacts
  <2> QED BY <2>1
<1>6. /\ claims' \subseteq Request \X Identities \X DOMAIN audits'
      /\ contended' \subseteq DOMAIN audits'
  <2>1. claims \subseteq Request \X Identities \X DOMAIN audits /\ contended \subseteq DOMAIN audits
    BY <1>1 DEF MarketTyped, MarketTypeOK
  <2> QED BY <1>3, <1>5, <2>1
<1>7. job' \in [Handler -> JobShape] /\ \A h \in Handler : job'[h].audit \in DOMAIN audits' \cup {0}
  BY <1>1, <1>2, <1>5, AuditFacts
<1> QED BY <1>1, <1>2, <1>4, <1>6, <1>7, RequestsStand DEF MarketCore

LEMMA FaultKeepsMarket ==
  ASSUME MarketCore, ReadBackFails \/ CrashApi
  PROVE  MarketCore'
<1>1. /\ MarketTyped /\ RequestsAreKept /\ ClaimsAreKept /\ job \in [Handler -> JobShape]
      /\ \A h \in Handler : job[h].audit \in DOMAIN audits \cup {0}
  BY AuditFacts DEF MarketCore
<1>2. /\ UNCHANGED <<identityVars, requestVars, claims, index, audits, contended>>
      /\ apiFaults' = apiFaults + 1 /\ creating' \subseteq creating
      /\ \/ job' = job
         \/ \E h \in Handler : job' = [job EXCEPT ![h] = NoJob]
         \/ job' = [h \in Handler |-> NoJob]
  BY DEF ReadBackFails, CrashApi
<1>3. job' \in [Handler -> JobShape] /\ \A h \in Handler : job'[h] = job[h] \/ job'[h] = NoJob
  BY <1>1, <1>2, NoJobFacts
<1>4. \A h \in Handler : job'[h].audit \in DOMAIN audits \cup {0}
  BY <1>1, <1>3, NoJobFacts
<1>5. apiFaults' \in Nat \ {0}
  BY <1>1, <1>2 DEF MarketTyped
<1>6. UNCHANGED <<directory, claims, audits, contended>>
  BY <1>2 DEF identityVars
<1>7. ClaimsAreKept'
  BY <1>1, <1>3, <1>5, <1>6, FaultKeepsClaims
<1> QED BY <1>1, <1>2, <1>3, <1>4, <1>5, <1>7, FaultKeepsRequests DEF MarketCore

LEMMA MarketStands ==
  ASSUME MarketCore, UNCHANGED marketVars
  PROVE  MarketCore'
<1>1. UNCHANGED <<directory, owner, transfers, chain, rules, asked, claims, creating, index,
                  audits, job, contended, apiFaults>>
  BY DEF marketVars, identityVars, requestVars, auditVars
<1>2. MarketTyped' /\ RequestsAreKept'
  BY <1>1 DEF MarketCore, MarketTyped, MarketTypeOK, RequestsAreKept, Identities
<1>3. ClaimsAreKept'
  BY <1>1, ClaimsStand DEF MarketCore, auditVars
<1> QED BY <1>2, <1>3 DEF MarketCore

LEMMA MarketStepKeeps ==
  ASSUME MarketCore, MarketStep
  PROVE  MarketCore'
<1> USE DEF MarketCore
<1>1. CASE TransferIdentity
  <2>1. UNCHANGED <<directory, auditVars, claims, apiFaults>>
    BY <1>1 DEF TransferIdentity
  <2> QED BY <1>1, <2>1, TransferKeepsRequests, ClaimsStand
<1>2. ASSUME NEW r \in Request, OpenRequest(r) \/ IndexRequest(r) \/ RequestEnds(r)
      PROVE  MarketCore'
  <2>1. UNCHANGED <<directory, auditVars, claims, apiFaults>>
    BY <1>2 DEF OpenRequest, IndexRequest, RequestEnds, identityVars
  <2>2. ClaimsAreKept'
    BY <2>1, ClaimsStand
  <2> QED BY <1>2, <2>2, OpenKeepsRequests, IndexKeepsRequests, EndKeepsRequests
<1>3. ASSUME NEW r \in Request, NEW s \in Service, SubmitAudit(r, s)
      PROVE  MarketCore'
  <2>1. CreateDraft(r, s, "anonymous") /\ OnlyDrafts
    BY <1>3 DEF SubmitAudit
  <2> QED BY <2>1, DraftKeepsMarket
<1>4. ASSUME NEW h \in Handler,
             \/ \E a \in DOMAIN audits : ReadAudit(h, a)
             \/ NormalizeAudit(h) \/ AnswerAudit(h)
             \/ \E r \in Request : BeginClaim(h, r)
             \/ StakeClaim(h) \/ RecordClaim(h) \/ PublishDirectly(h)
      PROVE  MarketCore'
  BY <1>4, ReadKeepsMarket, NormalizeKeepsMarket, BeginKeepsMarket, StakeKeepsMarket,
     StoreKeepsMarket
<1>5. CASE ReadBackFails \/ CrashApi
  BY <1>5, FaultKeepsMarket
<1> QED BY <1>1, <1>2, <1>3, <1>4, <1>5 DEF MarketStep

-----------------------------------------------------------------------------
\* What the API tells of who may claim.
LEMMA EligibilityAgrees ==
  ASSUME MarketCore
  PROVE  EligibilityIsTrue
<1> SUFFICES ASSUME NEW r \in Request, NEW s \in Service, directory[s] # NoIdentity,
                    NEW value \in Stakes, value >= RequiredStake,
                    value >= rules[r].minimumStake
             PROVE  Eligible(r, s, value, TRUE)
                      <=> ContractAdmits(rules[r], directory[s], owner[directory[s]],
                                         value, owner)
  BY DEF EligibilityIsTrue
<1> DEFINE accounts == rules[r].allowlist => owner[directory[s]] \in rules[r].allowlisted
           identity == rules[r].required \in {NoIdentity, directory[s]}
<1>1. rules[r].minimumStake \in Nat /\ value \in Nat
  BY MarketFacts DEF MarketCore, RequestsAreKept
<1>2. StakeReasons(rules[r].minimumStake, value) = {}
  BY <1>1 DEF StakeReasons
<1>3. Eligible(r, s, value, TRUE) <=> accounts /\ identity
  BY <1>2 DEF Eligible, EligibilityReasons
<1>4. ContractAdmits(rules[r], directory[s], owner[directory[s]], value, owner)
        <=> accounts /\ identity
  BY DEF ContractAdmits
<1> QED BY <1>3, <1>4

LEMMA PreviewAgrees ==
  ASSUME MarketCore
  PROVE  PreviewCarriesOver
<1> SUFFICES ASSUME NEW r \in Request, NEW s \in Service, NEW observed \in Stakes \cup {NoStake},
                    index[r] # "absent", transfers = 0,
                    MatchReasons(asked[r], directory, s, observed) = {}
             PROVE  Eligible(r, s, observed, TRUE)
  BY DEF PreviewCarriesOver
<1>1. PICK f : f = asked[r]
  OBVIOUS
<1>2. rules[r] \in Rules(f, directory, owner) /\ f.agent \in Int
  BY <1>1, NormalizedFacts DEF MarketCore, RequestsAreKept
<1>3. /\ StakeReasons(f.minimumStake, observed) = {}
      /\ f.mode = "allowlist" => s \in f.allowed
      /\ f.service \in {"none", s}
      /\ f.agent # NoAgent => directory[s] # NoIdentity /\ f.agent = directory[s].agent
      /\ f.registry \in {"none", directory[s].registry}
  BY <1>1 DEF MatchReasons
<1>4. StakeReasons(rules[r].minimumStake, observed) = {}
  BY <1>2, <1>3, RulesFacts
<1>5. ASSUME rules[r].allowlist
      PROVE  directory[s] # NoIdentity /\ owner[directory[s]] \in rules[r].allowlisted
  <2>1. s \in f.allowed /\ rules[r].allowlisted \in ResolvedAllowlist(f, directory, owner)
        /\ f.mode = "allowlist"
    BY <1>2, <1>3, <1>5, RulesFacts
  <2> QED BY <2>1 DEF ResolvedAllowlist
<1>6. rules[r].required \in {NoIdentity, directory[s]}
  <2>1. rules[r].required \in RequiredIdentity(f, directory)
    BY <1>2, RulesFacts
  <2>2. CASE rules[r].required \in {directory[t] : t \in Service \cap {f.service}}
    BY <1>3, <2>2, MarketFacts
  <2>3. CASE /\ rules[r].required = Identity(f.agent, f.registry)
             /\ f.agent > 0 /\ f.registry # "none"
    <3>1. f.agent = directory[s].agent /\ f.registry = directory[s].registry
      BY <1>2, <1>3, <2>3 DEF NoAgent
    <3>2. directory[s] = Identity(directory[s].agent, directory[s].registry)
      <4>1. directory = [t \in Service |-> Identity(directory[t].agent, directory[t].registry)]
        BY MarketFacts DEF MarketCore, MarketTyped
      <4> QED BY <4>1
    <3> QED BY <2>3, <3>1, <3>2
  <2> QED BY <2>1, <2>2, <2>3 DEF RequiredIdentity
<1> QED BY <1>4, <1>5, <1>6 DEF Eligible, EligibilityReasons

LEMMA ClaimsAreListed ==
  ASSUME MarketCore
  PROVE  ListedClaimsAreStaked /\ NothingIsLostWithoutFault
<1>1. MarketTyped /\ ClaimsAreOne /\ RecordsAreTrue /\ CopiesAreTrue /\ ClaimsAreShown
  BY DEF MarketCore, ClaimsAreKept
<1>2. ASSUME NEW r \in Request, NEW a \in ListedClaims(r)
      PROVE  a \in DOMAIN audits /\ ClaimFor(audits[a], a, r) \in claims
  <2>1. a \in DOMAIN audits /\ audits[a].claimed = r /\ r # 0
    BY <1>2, MarketFacts DEF ListedClaims
  <2> QED BY <1>1, <2>1 DEF RecordsAreTrue, ShowsStaked
<1>3. ASSUME NEW r \in Request, NEW a \in ListedClaims(r), NEW b \in ListedClaims(r),
             directory[audits[a].service] = directory[audits[b].service]
      PROVE  a = b
  <2> DEFINE c == ClaimFor(audits[a], a, r)
             d == ClaimFor(audits[b], b, r)
  <2>1. c \in claims /\ d \in claims
    BY <1>2, <1>3
  <2>2. c[1] = d[1] /\ c[2] = d[2] /\ c[3] = a /\ d[3] = b
    BY <1>3, ClaimFacts
  <2> HIDE DEF c, d
  <2>3. c = d
    BY <1>1, <2>1, <2>2 DEF ClaimsAreOne
  <2> QED BY <2>2, <2>3
<1>4. ListedClaimsAreStaked
  BY <1>2, <1>3 DEF ListedClaimsAreStaked
<1>5. ASSUME apiFaults = 0, NEW r \in Request, chain[r] # "none"
      PROVE  index[r] # "absent" \/ r \in creating
  BY <1>5 DEF MarketCore, RequestsAreKept
<1>6. ASSUME apiFaults = 0, NEW c \in claims
      PROVE  \/ c[3] \in contended \/ c[3] \in ListedClaims(c[1])
             \/ \E h \in Handler : /\ job[h].step = "staked"
                                  /\ ClaimFor(job[h].copy, job[h].audit, job[h].request) = c
  <2>1. c[3] \in DOMAIN audits /\ c = ClaimFor(audits[c[3]], c[3], c[1])
    BY <1>1 DEF ClaimsAreOne
  <2>2. \/ c[3] \in contended \/ audits[c[3]].claimed = c[1]
        \/ \E h \in Handler : AboutToShow(h, c)
    BY <1>1, <1>6 DEF ClaimsAreShown
  <2>3. audits[c[3]].claimed = c[1] => c[3] \in ListedClaims(c[1])
    BY <2>1 DEF ListedClaims
  <2>4. ASSUME NEW h \in Handler, AboutToShow(h, c)
        PROVE  job[h].step = "staked" /\ ClaimFor(job[h].copy, job[h].audit, job[h].request) = c
    <3>1. job[h].step = "staked" /\ job[h].audit = c[3] /\ job[h].request = c[1]
      BY <2>4 DEF AboutToShow
    <3>2. SameDraft(job[h].copy, audits[c[3]])
      BY <1>1, <3>1, NoJobFacts DEF CopiesAreTrue, CopyIsTrue
    <3> QED BY <2>1, <3>1, <3>2 DEF SameDraft, ClaimFor
  <2> QED BY <2>2, <2>3, <2>4
<1>7. NothingIsLostWithoutFault
  BY <1>5, <1>6 DEF NothingIsLostWithoutFault
<1> QED BY <1>4, <1>7

LEMMA MarketStarts ==
  ASSUME MarketInit
  PROVE  MarketCore
<1>1. /\ directory \in Directories /\ owner \in [Identities -> {Publisher, Buyer}]
      /\ transfers = 0 /\ apiFaults = 0 /\ claims = {} /\ creating = {} /\ audits = <<>>
      /\ rules = [r \in Request |-> NoRules] /\ asked = [r \in Request |-> NoFilters]
      /\ chain = [r \in Request |-> "none"] /\ index = [r \in Request |-> "absent"]
      /\ job = [h \in Handler |-> NoJob] /\ contended = {}
  BY DEF MarketInit
<1>2. MarketTyped
  <2>1. job \in [Handler -> [step : {"idle", "read", "have", "checked", "staked"},
                             audit : DOMAIN audits \cup {0},
                             copy : AuditShape \cup {NoRecord}, request : Request \cup {0}]]
    BY <1>1 DEF NoJob, Job
  <2>2. audits \in Seq(AuditShape)
    BY <1>1
  <2> QED BY <1>1, <2>1, <2>2 DEF MarketTyped, MarketTypeOK, ChainStatus
<1>3. RequestsAreKept
  BY <1>1 DEF RequestsAreKept, NoRules
<1>4. ClaimsAreKept
  <2>1. \A h \in Handler : job[h] = NoJob
    BY <1>1
  <2>2. CopiesAreTrue /\ HoldersAreAlone
    BY <2>1 DEF CopiesAreTrue, CopyIsTrue, HoldersAreAlone
  <2>3. ClaimsAreOne /\ RecordsAreTrue /\ ClaimsAreShown
    BY <1>1 DEF ClaimsAreOne, RecordsAreTrue, ClaimsAreShown
  <2> QED BY <2>2, <2>3 DEF ClaimsAreKept
<1> QED BY <1>2, <1>3, <1>4 DEF MarketCore

LEMMA MarketCoreSuffices == MarketCore => MarketInvariant
BY EligibilityAgrees, PreviewAgrees, ClaimsAreListed
   DEF MarketInvariant, MarketCore, MarketTyped

\* The marketplace and its agent together are a marketplace.
LEMMA ParticipationKeepsMarket ==
  ASSUME MarketCore, ParticipationNext,
         agent.place = "posting" => agent.request \in Request
  PROVE  MarketCore'
<1>1. CASE MarketStep
  BY <1>1, MarketStepKeeps
<1>2. CASE UNCHANGED marketVars
  BY <1>2, MarketStands
<1>3. CASE (PostDraft \/ LoseAnswer) /\ OnlyDrafts
  <2>1. CreateDraft(agent.request, Self, "listener") /\ Self \in Service
        /\ agent.request \in Request
    BY <1>3, ParticipationAssumption DEF PostDraft, LoseAnswer
  <2> QED BY <1>3, <2>1, DraftKeepsMarket
<1> QED BY <1>1, <1>2, <1>3 DEF ParticipationNext

-----------------------------------------------------------------------------
\* Lines of the log and drafts, counted.
Count(s, P) == Cardinality({i \in DOMAIN s : s[i] \in P})

LEMMA CountNat ==
  ASSUME NEW S, NEW s \in Seq(S), NEW P
  PROVE  /\ Count(s, P) \in Nat
         /\ \A X \in SUBSET DOMAIN s : IsFiniteSet(X)
<1>1. DOMAIN s = 1 .. Len(s) /\ Len(s) \in Nat
  OBVIOUS
<1>2. IsFiniteSet(DOMAIN s)
  BY <1>1, FS_Interval
<1>3. \A X \in SUBSET DOMAIN s : IsFiniteSet(X)
  BY <1>2, FS_Subset
<1> QED BY <1>3, FS_CardinalityType DEF Count

LEMMA CountAppend ==
  ASSUME NEW S, NEW s \in Seq(S), NEW e \in S, NEW P
  PROVE  Count(Append(s, e), P) = Count(s, P) + (IF e \in P THEN 1 ELSE 0)
<1> DEFINE before == {i \in DOMAIN s : s[i] \in P}
           new == Len(s) + 1
<1>1. DOMAIN s = 1 .. Len(s) /\ Len(s) \in Nat
  OBVIOUS
<1>2. DOMAIN Append(s, e) = 1 .. new
  <2>1. Append(s, e) \in Seq(S) /\ Len(Append(s, e)) = new
    OBVIOUS
  <2> QED BY <2>1
<1>3. Append(s, e)[new] = e /\ \A i \in DOMAIN s : Append(s, e)[i] = s[i]
  BY <1>1
<1>4. IsFiniteSet(before) /\ Cardinality(before) \in Nat
  BY CountNat DEF Count
<1>5. new \notin before
  BY <1>1
<1>6. {i \in DOMAIN Append(s, e) : Append(s, e)[i] \in P}
        = before \cup (IF e \in P THEN {new} ELSE {})
  BY <1>1, <1>2, <1>3
<1>7. CASE e \in P
  BY <1>4, <1>5, <1>6, <1>7, FS_AddElement DEF Count
<1>8. CASE e \notin P
  <2>1. {i \in DOMAIN Append(s, e) : Append(s, e)[i] \in P} = before
    BY <1>6, <1>8
  <2>2. Count(Append(s, e), P) = Cardinality(before) /\ Count(s, P) = Cardinality(before)
    BY <2>1 DEF Count
  <2> HIDE DEF before
  <2> QED BY <1>4, <1>8, <2>2
<1> QED BY <1>7, <1>8

Line == [request : Request, action : {"skip", "would_submit", "submitted"}]
AcceptingLines == {l \in Line : l.action \in Accepting}
SubmittedLines(rs) == {l \in Line : l.action = "submitted" /\ l.request \in rs}
AgentDrafts(rs) == {a \in AuditShape : a.submittedBy = "listener" /\ a.request \in rs}

Accepted == Count(log, AcceptingLines)
Logged(rs) == Count(log, SubmittedLines(rs))
Drafted(rs) == Count(audits, AgentDrafts(rs))

LEMMA CountsAreCounts ==
  /\ ParticipationTypeOK => ActiveSubmissionCount = Accepted
  /\ MarketTyped => \A rs \in SUBSET Request : DraftsOf(rs) = Drafted(rs)
<1>1. ASSUME ParticipationTypeOK
      PROVE  ActiveSubmissionCount = Accepted
  <2>1. \A i \in DOMAIN log : log[i] \in Line
    <3>1. log \in Seq(Line)
      BY <1>1 DEF ParticipationTypeOK, Line
    <3> QED BY <3>1
  <2> QED BY <2>1 DEF ActiveSubmissionCount, Accepted, Count, AcceptingLines
<1>2. ASSUME MarketTyped
      PROVE  \A rs \in SUBSET Request : DraftsOf(rs) = Drafted(rs)
  <2>1. \A a \in DOMAIN audits : audits[a] \in AuditShape
    BY <1>2, AuditFacts
  <2> QED BY <2>1 DEF DraftsOf, Drafted, Count, AgentDrafts
<1> QED BY <1>1, <1>2

-----------------------------------------------------------------------------
AgentTyped == ParticipationTypeOK /\ agentCrashes \in Nat

Busy == {"deciding", "posting", "appending"}

\* The request the agent works on has no decision yet, and none has two.
DecisionsAreNew ==
  /\ agent.place \in Busy => agent.request \in Request /\ ~HasDecision(agent.request)
  /\ \A i, j \in DOMAIN log : log[i].request = log[j].request => i = j

\* What the poll counted at its start, and what it added since, is what the log
\* holds and is about to hold; and it stays within the capacity.
CountsAreKept ==
  /\ Accepted <= Capacity
  /\ agent.place \in {"looping", "deciding", "posting"} => active = Accepted
  /\ agent.place = "posting" => active < Capacity
  /\ agent.place = "appending" =>
       /\ agent.action \in {"skip", "would_submit", "submitted"}
       /\ agent.action \in Accepting => Accepted < Capacity
       /\ active = Accepted + (IF agent.action \in Accepting THEN 1 ELSE 0)

\* Lines that a draft is waiting for.
Pending(rs) ==
  IF /\ agent.place = "appending" /\ agent.action = "submitted" /\ agent.request \in rs
  THEN 1 ELSE 0

\* Every draft of the agent has its line, is waiting for it or cost a death.
DraftsArePaid ==
  \A rs \in SUBSET Request : Drafted(rs) <= Logged(rs) + Pending(rs) + agentCrashes

AgentCore == AgentTyped /\ DecisionsAreNew /\ CountsAreKept /\ DraftsArePaid
ParticipationCore == MarketCore /\ AgentCore

LEMMA CountsAreNat ==
  /\ ParticipationTypeOK =>
       Accepted \in Nat /\ \A rs \in SUBSET Request : Logged(rs) \in Nat
  /\ MarketTyped => \A rs \in SUBSET Request : Drafted(rs) \in Nat
<1>1. ParticipationTypeOK => log \in Seq(Line)
  BY DEF ParticipationTypeOK, Line
<1>2. MarketTyped => audits \in Seq(AuditShape)
  BY AuditFacts
<1> QED BY <1>1, <1>2, CountNat DEF Accepted, Logged, Drafted

LEMMA AgentCoreSuffices ==
  ASSUME ParticipationCore
  PROVE  ParticipationInvariant
<1>1. MarketTyped /\ ParticipationTypeOK /\ agentCrashes \in Nat /\ Capacity \in Nat
      /\ log \in Seq(Line)
  BY ParticipationAssumption
     DEF ParticipationCore, MarketCore, AgentCore, AgentTyped, ParticipationTypeOK, Line
<1>2. /\ Accepted \in Nat /\ Accepted <= Capacity
      /\ \A rs \in SUBSET Request : /\ Logged(rs) \in Nat /\ Drafted(rs) \in Nat
                                   /\ Drafted(rs) <= Logged(rs) + Pending(rs) + agentCrashes
                                   /\ Pending(rs) \in {0, 1}
  BY <1>1, CountsAreNat DEF ParticipationCore, AgentCore, CountsAreKept, DraftsArePaid, Pending
<1>3. Logged(Request) <= Accepted
  <2> DEFINE few == {i \in DOMAIN log : log[i] \in SubmittedLines(Request)}
             many == {i \in DOMAIN log : log[i] \in AcceptingLines}
  <2>1. few \subseteq many
    BY DEF SubmittedLines, AcceptingLines, Accepting
  <2>2. IsFiniteSet(many)
    BY <1>1, CountNat
  <2>3. Cardinality(few) <= Cardinality(many)
    BY <2>1, <2>2, FS_Subset
  <2> QED BY <2>3 DEF Logged, Accepted, Count
<1>4. Pending(Request) = 1 => Accepted < Capacity
  BY DEF Pending, ParticipationCore, AgentCore, CountsAreKept, Accepting
<1>5. CapacityHolds
  <2>1. Drafted(Request) <= Capacity + agentCrashes
    BY <1>1, <1>2, <1>3, <1>4
  <2>2. ActiveSubmissionCount = Accepted /\ DraftsOf(Request) = Drafted(Request)
    BY <1>1, CountsAreCounts
  <2> QED BY <1>2, <2>1, <2>2 DEF CapacityHolds
<1>6. \A i, j \in DOMAIN log : log[i].request = log[j].request => i = j
  BY DEF ParticipationCore, AgentCore, DecisionsAreNew
<1>7. ASSUME NEW r \in Request
      PROVE  DraftsOf({r}) <= 1 + agentCrashes
  <2> DEFINE lines == {i \in DOMAIN log : log[i] \in SubmittedLines({r})}
  <2>1. CASE lines = {}
    <3>1. Logged({r}) = 0
      BY <2>1, FS_EmptySet DEF Logged, Count
    <3> QED BY <1>1, <1>2, <3>1, CountsAreCounts
  <2>2. CASE lines # {}
    <3>1. PICK i : i \in lines
      BY <2>2
    <3>2. lines = {i} /\ HasDecision(r)
      BY <1>6, <3>1 DEF SubmittedLines, HasDecision
    <3>3. Logged({r}) = 1
      BY <3>2, FS_Singleton DEF Logged, Count
    <3>4. Pending({r}) = 0
      BY <3>2 DEF Pending, ParticipationCore, AgentCore, DecisionsAreNew, Busy
    <3> QED BY <1>1, <1>2, <3>3, <3>4, CountsAreCounts
  <2> QED BY <2>1, <2>2
<1> QED BY <1>1, <1>5, <1>6, <1>7 DEF ParticipationInvariant, DecidedOnce

-----------------------------------------------------------------------------
\* The steps of the marketplace leave the agent's drafts as they are.
LEMMA StoredKeepsDrafts ==
  ASSUME MarketTyped, NEW rs \in SUBSET Request, NEW a \in DOMAIN audits,
         NEW record \in AuditShape, audits' = [audits EXCEPT ![a] = record],
         SameDraft(record, audits[a])
  PROVE  Drafted(rs)' = Drafted(rs)
<1>1. audits \in Seq(AuditShape) /\ audits[a] \in AuditShape
  BY AuditFacts
<1>2. /\ DOMAIN audits' = DOMAIN audits /\ audits'[a] = record
      /\ \A b \in DOMAIN audits \ {a} : audits'[b] = audits[b]
  BY <1>1
<1>3. \A b \in DOMAIN audits : audits'[b] \in AgentDrafts(rs) <=> audits[b] \in AgentDrafts(rs)
  BY <1>1, <1>2 DEF AgentDrafts, SameDraft
<1>4. {b \in DOMAIN audits' : audits'[b] \in AgentDrafts(rs)}
        = {b \in DOMAIN audits : audits[b] \in AgentDrafts(rs)}
  BY <1>2, <1>3
<1> QED BY <1>4 DEF Drafted, Count

LEMMA MarketKeepsDrafts ==
  ASSUME MarketCore, MarketStep, NEW rs \in SUBSET Request
  PROVE  Drafted(rs)' = Drafted(rs)
<1>1. MarketTyped /\ ClaimsAreKept /\ audits \in Seq(AuditShape)
  BY AuditFacts DEF MarketCore
<1>2. CASE UNCHANGED audits
  BY <1>2 DEF Drafted
<1>3. ASSUME NEW r \in Request, NEW s \in Service, SubmitAudit(r, s)
      PROVE  Drafted(rs)' = Drafted(rs)
  <2> DEFINE e == AuditRecord(r, s, "anonymous")
  <2>1. e \in AuditShape /\ e.submittedBy = "anonymous"
    BY DEF AuditRecord, AuditShape
  <2>2. audits' = Append(audits, e)
    BY <1>3 DEF SubmitAudit, CreateDraft
  <2> HIDE DEF e
  <2>3. e \notin AgentDrafts(rs)
    BY <2>1 DEF AgentDrafts
  <2>4. Count(Append(audits, e), AgentDrafts(rs)) = Count(audits, AgentDrafts(rs)) + 0
    BY <1>1, <2>1, <2>3, CountAppend
  <2>5. Count(audits, AgentDrafts(rs)) \in Nat
    BY <1>1, CountNat
  <2> QED BY <2>2, <2>4, <2>5 DEF Drafted
<1>4. ASSUME NEW h \in Handler, NormalizeAudit(h)
      PROVE  Drafted(rs)' = Drafted(rs)
  <2>1. job[h] # NoJob
    BY <1>4, NoJobFacts DEF NormalizeAudit
  <2>2. /\ job[h].audit \in DOMAIN audits /\ job[h].copy \in AuditShape
        /\ SameDraft(job[h].copy, audits[job[h].audit])
    BY <1>1, <2>1, JobFacts
  <2>3. /\ Normalized(job[h].copy) \in AuditShape
        /\ SameDraft(Normalized(job[h].copy), audits[job[h].audit])
    BY <2>2 DEF Normalized, AuditShape, SameDraft
  <2>4. \/ audits' = [audits EXCEPT ![job[h].audit] = Normalized(job[h].copy)]
        \/ UNCHANGED audits
    BY <1>4 DEF NormalizeAudit
  <2> QED BY <1>1, <1>2, <2>2, <2>3, <2>4, StoredKeepsDrafts
<1>5. ASSUME NEW h \in Handler, RecordClaim(h) \/ PublishDirectly(h)
      PROVE  Drafted(rs)' = Drafted(rs)
  BY <1>1, <1>5, StoreKeepsMarket, StoredKeepsDrafts
<1>6. \/ UNCHANGED audits
      \/ \E r \in Request, s \in Service : SubmitAudit(r, s)
      \/ \E h \in Handler : NormalizeAudit(h) \/ RecordClaim(h) \/ PublishDirectly(h)
  BY DEF MarketStep, TransferIdentity, OpenRequest, IndexRequest, RequestEnds, ReadAudit,
         AnswerAudit, BeginClaim, StakeClaim, ReadBackFails, CrashApi, auditVars
<1> QED BY <1>2, <1>3, <1>4, <1>5, <1>6

\* A draft of the agent.
LEMMA DraftCounts ==
  ASSUME MarketTyped, NEW r \in Request, CreateDraft(r, Self, "listener"),
         NEW rs \in SUBSET Request
  PROVE  Drafted(rs)' = Drafted(rs) + (IF r \in rs THEN 1 ELSE 0)
<1> DEFINE e == AuditRecord(r, Self, "listener")
<1>1. e \in AuditShape /\ e.submittedBy = "listener" /\ e.request = r
  BY ParticipationAssumption DEF AuditRecord, AuditShape
<1>2. audits' = Append(audits, e) /\ audits \in Seq(AuditShape)
  BY AuditFacts DEF CreateDraft
<1> HIDE DEF e
<1>3. e \in AgentDrafts(rs) <=> r \in rs
  BY <1>1 DEF AgentDrafts
<1>4. Count(Append(audits, e), AgentDrafts(rs))
        = Count(audits, AgentDrafts(rs)) + (IF e \in AgentDrafts(rs) THEN 1 ELSE 0)
  BY <1>1, <1>2, CountAppend
<1> QED BY <1>2, <1>3, <1>4 DEF Drafted

\* Nothing of the agent but its place in the loop.
LEMMA LogStands ==
  ASSUME UNCHANGED log
  PROVE  /\ Accepted' = Accepted /\ \A rs : Logged(rs)' = Logged(rs)
         /\ \A r : HasDecision(r)' <=> HasDecision(r)
BY DEF Accepted, Logged, HasDecision

\* The marketplace moves, the agent does not.
LEMMA MarketKeepsAgent ==
  ASSUME ParticipationCore, MarketStep, UNCHANGED <<agentVars, submits>>
  PROVE  AgentCore'
<1>1. UNCHANGED <<agent, todo, active, log, agentCrashes, submits>> /\ AgentCore
  BY DEF agentVars, ParticipationCore
<1>2. AgentTyped'
  BY <1>1 DEF AgentCore, AgentTyped, ParticipationTypeOK
<1>3. DecisionsAreNew'
  BY <1>1, LogStands DEF AgentCore, DecisionsAreNew
<1>4. CountsAreKept'
  BY <1>1, LogStands DEF AgentCore, CountsAreKept
<1>5. \A rs \in SUBSET Request : Drafted(rs)' = Drafted(rs)
  BY MarketKeepsDrafts DEF ParticipationCore
<1>6. \A rs : Pending(rs)' = Pending(rs) /\ Logged(rs)' = Logged(rs)
  BY <1>1, LogStands DEF Pending
<1>7. DraftsArePaid'
  BY <1>1, <1>5, <1>6 DEF AgentCore, DraftsArePaid
<1> QED BY <1>2, <1>3, <1>4, <1>7 DEF AgentCore

-----------------------------------------------------------------------------
\* The steps of the agent.  LineFacts: what a new line of the log counts.
LEMMA LineFacts ==
  ASSUME AgentTyped, agent.request \in Request,
         agent.action \in {"skip", "would_submit", "submitted"}, AppendDecision
  PROVE  /\ Accepted' = Accepted + (IF agent.action \in Accepting THEN 1 ELSE 0)
         /\ \A rs \in SUBSET Request : Logged(rs)' =
              Logged(rs) + (IF agent.action = "submitted" /\ agent.request \in rs THEN 1 ELSE 0)
         /\ log' \in Seq(Line)
         /\ DOMAIN log' = DOMAIN log \cup {Len(log) + 1}
         /\ \A i \in DOMAIN log : log'[i] = log[i]
         /\ log'[Len(log) + 1].request = agent.request
         /\ Len(log) + 1 \notin DOMAIN log
<1> DEFINE line == [request |-> agent.request, action |-> agent.action]
<1>1. line \in Line /\ line.request = agent.request /\ line.action = agent.action
  BY DEF Line
<1>2. log' = Append(log, line) /\ log \in Seq(Line)
  BY DEF AppendDecision, AgentTyped, ParticipationTypeOK, Line
<1> HIDE DEF line
<1>3. line \in AcceptingLines <=> agent.action \in Accepting
  BY <1>1 DEF AcceptingLines
<1>4. Accepted' = Accepted + (IF agent.action \in Accepting THEN 1 ELSE 0)
  BY <1>1, <1>2, <1>3, CountAppend DEF Accepted
<1>5. ASSUME NEW rs \in SUBSET Request
      PROVE  Logged(rs)' =
               Logged(rs) + (IF agent.action = "submitted" /\ agent.request \in rs THEN 1 ELSE 0)
  <2>1. line \in SubmittedLines(rs) <=> agent.action = "submitted" /\ agent.request \in rs
    BY <1>1 DEF SubmittedLines
  <2>2. Count(Append(log, line), SubmittedLines(rs)) =
          Count(log, SubmittedLines(rs)) + (IF line \in SubmittedLines(rs) THEN 1 ELSE 0)
    BY <1>1, <1>2, CountAppend
  <2> QED BY <1>2, <2>1, <2>2 DEF Logged
<1>6. DOMAIN log = 1 .. Len(log) /\ Len(log) \in Nat
  BY <1>2
<1>7. log' \in Seq(Line) /\ Len(log') = Len(log) + 1
  BY <1>1, <1>2
<1>8. DOMAIN log' = 1 .. Len(log')
  BY <1>7
<1>9. DOMAIN log' = DOMAIN log \cup {Len(log) + 1} /\ Len(log) + 1 \notin DOMAIN log
  BY <1>6, <1>7, <1>8
<1>10. (\A i \in DOMAIN log : log'[i] = log[i]) /\ log'[Len(log) + 1] = line
  BY <1>1, <1>2, <1>6
<1> QED BY <1>1, <1>4, <1>5, <1>7, <1>9, <1>10

LEMMA AppendKeepsAgent ==
  ASSUME ParticipationCore, AppendDecision, UNCHANGED marketVars, UNCHANGED submits
  PROVE  AgentCore'
<1>1. /\ AgentTyped /\ DecisionsAreNew /\ CountsAreKept /\ DraftsArePaid
      /\ agent.place = "appending" /\ agent' = At("looping", 0, "none")
      /\ UNCHANGED <<todo, active, agentCrashes, audits, submits>>
  BY DEF ParticipationCore, AgentCore, AppendDecision, marketVars, auditVars
<1>2. /\ agent.request \in Request /\ ~HasDecision(agent.request)
      /\ agent.action \in {"skip", "would_submit", "submitted"}
  BY <1>1 DEF DecisionsAreNew, CountsAreKept, Busy
<1>3. agent'.place = "looping"
      /\ agent' \in [place : Place, request : Request \cup {0},
                     action : {"none", "skip", "would_submit", "submitted"}]
  BY <1>1 DEF At, Place
<1>4. AgentTyped'
  BY <1>1, <1>2, <1>3, LineFacts DEF AgentTyped, ParticipationTypeOK, Line
<1>5. DecisionsAreNew'
  <2>1. agent'.place \notin Busy
    BY <1>3 DEF Busy
  <2>2. \A i \in DOMAIN log : log[i].request # agent.request
    BY <1>2 DEF HasDecision
  <2>3. \A i, j \in DOMAIN log' : log'[i].request = log'[j].request => i = j
    BY <1>1, <1>2, <2>2, LineFacts DEF DecisionsAreNew
  <2> QED BY <2>1, <2>3 DEF DecisionsAreNew
<1>6. CountsAreKept'
  <2>1. Accepted \in Nat /\ Capacity \in Nat
    BY <1>1, CountsAreNat, ParticipationAssumption DEF AgentTyped
  <2> QED BY <1>1, <1>2, <1>3, <2>1, LineFacts DEF CountsAreKept
<1>7. DraftsArePaid'
  <2>1. \A rs \in SUBSET Request : Drafted(rs)' = Drafted(rs) /\ Pending(rs)' = 0
    BY <1>1, <1>3 DEF Drafted, Pending
  <2>2. \A rs \in SUBSET Request : Logged(rs)' = Logged(rs) + Pending(rs)
    BY <1>1, <1>2, LineFacts DEF Pending
  <2>3. \A rs \in SUBSET Request : Logged(rs) \in Nat /\ Pending(rs) \in {0, 1}
    BY <1>1, CountsAreNat DEF AgentTyped, Pending
  <2> QED BY <1>1, <2>1, <2>2, <2>3 DEF DraftsArePaid
<1> QED BY <1>4, <1>5, <1>6, <1>7 DEF AgentCore

\* A draft is posted: answered, or not.
LEMMA PostKeepsAgent ==
  ASSUME ParticipationCore, PostDraft \/ LoseAnswer, UNCHANGED submits
  PROVE  AgentCore'
<1>1. /\ AgentTyped /\ DecisionsAreNew /\ CountsAreKept /\ DraftsArePaid /\ MarketTyped
      /\ agent.place = "posting" /\ UNCHANGED <<log, submits>>
      /\ CreateDraft(agent.request, Self, "listener")
  BY DEF ParticipationCore, MarketCore, AgentCore, PostDraft, LoseAnswer
<1>2. agent.request \in Request /\ ~HasDecision(agent.request)
  BY <1>1 DEF DecisionsAreNew, Busy
<1>3. \/ /\ agent' = At("appending", agent.request, "submitted")
         /\ active' = active + 1 /\ UNCHANGED <<todo, agentCrashes>>
      \/ /\ agent' = Down /\ todo' = {} /\ active' = 0 /\ agentCrashes' = agentCrashes + 1
  BY DEF PostDraft, LoseAnswer
<1>4. /\ \A rs \in SUBSET Request :
           /\ Drafted(rs)' = Drafted(rs) + (IF agent.request \in rs THEN 1 ELSE 0)
           /\ Drafted(rs) \in Nat /\ Logged(rs) \in Nat /\ Logged(rs)' = Logged(rs)
           /\ Pending(rs) = 0
      /\ Accepted \in Nat /\ Accepted' = Accepted /\ agentCrashes \in Nat /\ Capacity \in Nat
  BY <1>1, <1>2, DraftCounts, CountsAreNat, LogStands, ParticipationAssumption
     DEF AgentTyped, Pending
<1>5. AgentTyped' /\ DecisionsAreNew'
  <2>1. agent' \in [place : Place, request : Request \cup {0},
                    action : {"none", "skip", "would_submit", "submitted"}]
        /\ (agent'.place \in Busy => agent'.request = agent.request)
    BY <1>2, <1>3 DEF At, Down, Place, Busy
  <2>2. AgentTyped'
    BY <1>1, <1>3, <2>1 DEF AgentTyped, ParticipationTypeOK
  <2>3. DecisionsAreNew'
    BY <1>1, <1>2, <2>1, LogStands DEF DecisionsAreNew
  <2> QED BY <2>2, <2>3
<1>6. CASE agent' = Down /\ agentCrashes' = agentCrashes + 1
  <2>1. CountsAreKept'
    BY <1>1, <1>4, <1>6 DEF CountsAreKept, Down, At
  <2>2. \A rs \in SUBSET Request : Pending(rs)' = 0
    BY <1>6 DEF Pending, Down, At
  <2>3. DraftsArePaid'
    BY <1>1, <1>4, <1>6, <2>2 DEF DraftsArePaid
  <2> QED BY <1>5, <2>1, <2>3 DEF AgentCore
<1>7. CASE /\ agent' = At("appending", agent.request, "submitted")
           /\ active' = active + 1 /\ UNCHANGED agentCrashes
  <2>1. agent'.place = "appending" /\ agent'.action = "submitted"
        /\ agent'.request = agent.request
    BY <1>7 DEF At
  <2>2. CountsAreKept'
    BY <1>1, <1>4, <1>7, <2>1 DEF CountsAreKept, Accepting
  <2>3. \A rs \in SUBSET Request : Pending(rs)' = IF agent.request \in rs THEN 1 ELSE 0
    BY <2>1 DEF Pending
  <2>4. DraftsArePaid'
    BY <1>1, <1>4, <1>7, <2>3 DEF DraftsArePaid
  <2> QED BY <1>5, <2>2, <2>4 DEF AgentCore
<1> QED BY <1>3, <1>6, <1>7

\* The agent moves on without a line or a draft; from a line it was about to
\* append only by dying.
LEMMA MoveKeepsAgent ==
  ASSUME ParticipationCore, UNCHANGED <<marketVars, log, submits>>,
         agent'.place \in Busy => agent'.request \in Request /\ ~HasDecision(agent'.request),
         agent'.place = "appending" => agent'.action \in {"skip", "would_submit"},
         agent' \in [place : Place, request : Request \cup {0},
                     action : {"none", "skip", "would_submit", "submitted"}],
         todo' \subseteq Request, active' \in Nat, CountsAreKept',
         agentCrashes' \in {agentCrashes, agentCrashes + 1},
         agent.place = "appending" => agentCrashes' = agentCrashes + 1
  PROVE  AgentCore'
<1>1. AgentTyped /\ DecisionsAreNew /\ DraftsArePaid /\ UNCHANGED <<audits, log, submits>>
  BY DEF ParticipationCore, AgentCore, marketVars, auditVars
<1>2. AgentTyped'
  BY <1>1 DEF AgentTyped, ParticipationTypeOK
<1>3. DecisionsAreNew'
  BY <1>1, LogStands DEF DecisionsAreNew, HasDecision
<1>4. agentCrashes \in Nat /\ agentCrashes' \in Nat
  BY <1>1 DEF AgentTyped
<1>5. ASSUME NEW rs \in SUBSET Request
      PROVE  Drafted(rs)' <= Logged(rs)' + Pending(rs)' + agentCrashes'
  <2>1. Drafted(rs)' = Drafted(rs) /\ Logged(rs)' = Logged(rs)
    BY <1>1 DEF Drafted, Logged
  <2>2. Drafted(rs) \in Nat /\ Logged(rs) \in Nat
    BY <1>1, CountsAreNat DEF AgentTyped, ParticipationCore, MarketCore
  <2>3. Pending(rs)' = 0 /\ Pending(rs) \in {0, 1}
    BY DEF Pending
  <2>4. agentCrashes' = agentCrashes + 1 \/ (Pending(rs) = 0 /\ agentCrashes' = agentCrashes)
    BY DEF Pending
  <2>5. Drafted(rs) <= Logged(rs) + Pending(rs) + agentCrashes
    BY <1>1 DEF DraftsArePaid
  <2> QED BY <1>4, <2>1, <2>2, <2>3, <2>4, <2>5
<1>6. DraftsArePaid'
  BY <1>5 DEF DraftsArePaid
<1> QED BY <1>2, <1>3, <1>6 DEF AgentCore

LEMMA LoopKeepsAgent ==
  ASSUME ParticipationCore, UNCHANGED <<marketVars, submits>>,
         Poll \/ NextRequest \/ EndPoll \/ Restart
  PROVE  AgentCore'
<1>1. /\ AgentTyped /\ CountsAreKept /\ UNCHANGED <<log, agentCrashes>>
      /\ agent.place # "appending" /\ Accepted \in Nat /\ Accepted' = Accepted
      /\ Accepted <= Capacity
  BY CountsAreNat, LogStands
     DEF ParticipationCore, AgentCore, AgentTyped, CountsAreKept, Poll, NextRequest, EndPoll,
         Restart, Sleeping, Down, At
<1>2. \/ /\ agent'.place = "looping" /\ agent' = At("looping", 0, "none")
         /\ active' = ActiveSubmissionCount
      \/ agent'.place = "looping" /\ UNCHANGED <<agent, active>> /\ agent.place = "looping"
      \/ /\ agent.place = "looping" /\ UNCHANGED active
         /\ \E r \in Request : ~HasDecision(r) /\ agent' = At("deciding", r, "none")
      \/ agent' = Sleeping /\ active' \in {0, active}
  BY DEF Poll, NextRequest, EndPoll, Restart, At
<1>3. todo' \subseteq Request
  BY <1>1 DEF Poll, NextRequest, EndPoll, Restart, AgentTyped, ParticipationTypeOK, ListedOpen
<1>4. ActiveSubmissionCount = Accepted
  BY <1>1, CountsAreCounts DEF AgentTyped
<1>5. agent' \in [place : Place, request : Request \cup {0},
                  action : {"none", "skip", "would_submit", "submitted"}]
      /\ active' \in Nat
  BY <1>1, <1>2, <1>4 DEF At, Sleeping, Place, AgentTyped, ParticipationTypeOK
<1>6. /\ agent'.place \in Busy => agent'.request \in Request /\ ~HasDecision(agent'.request)
      /\ agent'.place # "appending" /\ agent'.place # "posting"
  BY <1>2 DEF At, Sleeping, Busy
<1>7. CountsAreKept'
  BY <1>1, <1>2, <1>4, <1>6 DEF CountsAreKept, At, Sleeping
<1> QED BY <1>1, <1>3, <1>5, <1>6, <1>7, MoveKeepsAgent

LEMMA DecideKeepsAgent ==
  ASSUME ParticipationCore, UNCHANGED <<marketVars, submits>>, Decide
  PROVE  AgentCore'
<1>1. /\ AgentTyped /\ CountsAreKept /\ DecisionsAreNew
      /\ UNCHANGED <<log, todo, agentCrashes>>
      /\ agent.place = "deciding" /\ Accepted \in Nat /\ Accepted' = Accepted
      /\ active = Accepted /\ Accepted <= Capacity /\ Capacity \in Nat
  BY CountsAreNat, LogStands, ParticipationAssumption
     DEF ParticipationCore, AgentCore, AgentTyped, CountsAreKept, Decide
<1>2. agent.request \in Request /\ ~HasDecision(agent.request)
  BY <1>1 DEF DecisionsAreNew, Busy
<1>3. \/ agent' = At("appending", agent.request, "skip") /\ active' = active
      \/ /\ agent' = At("posting", agent.request, "would_submit") /\ active' = active
         /\ active < Capacity
      \/ /\ agent' = At("appending", agent.request, "would_submit") /\ active' = active + 1
         /\ active < Capacity
  BY DEF Decide, Accepts
<1>4. agent' \in [place : Place, request : Request \cup {0},
                  action : {"none", "skip", "would_submit", "submitted"}]
      /\ active' \in Nat /\ todo' \subseteq Request /\ agent'.request = agent.request
      /\ (agent'.place = "appending" => agent'.action \in {"skip", "would_submit"})
  BY <1>1, <1>2, <1>3 DEF At, Place, AgentTyped, ParticipationTypeOK
<1>5. CountsAreKept'
  BY <1>1, <1>3 DEF CountsAreKept, At, Accepting
<1> QED BY <1>1, <1>2, <1>4, <1>5, MoveKeepsAgent

LEMMA DeathKeepsAgent ==
  ASSUME ParticipationCore, UNCHANGED <<marketVars, submits>>, EligibilityFails \/ CrashAgent
  PROVE  AgentCore'
<1>1. /\ AgentTyped /\ CountsAreKept /\ UNCHANGED log /\ todo' = {} /\ active' = 0
      /\ agent'.place \in {"down", "torn"}
      /\ agentCrashes' \in {agentCrashes, agentCrashes + 1}
      /\ agent.place = "appending" => agentCrashes' = agentCrashes + 1
      /\ Accepted' = Accepted
  BY LogStands
     DEF ParticipationCore, AgentCore, EligibilityFails, CrashAgent, Down, At
<1>2. agent' \in [place : Place, request : Request \cup {0},
                  action : {"none", "skip", "would_submit", "submitted"}]
  BY DEF EligibilityFails, CrashAgent, Down, At, Place
<1>3. CountsAreKept'
  BY <1>1 DEF CountsAreKept
<1>4. agent'.place \notin Busy /\ agent'.place # "appending"
  BY <1>1 DEF Busy
<1> QED BY <1>1, <1>2, <1>3, <1>4, MoveKeepsAgent

LEMMA ParticipationKeepsCore ==
  ASSUME ParticipationCore, [ParticipationNext]_participationVars
  PROVE  ParticipationCore'
<1>1. CASE ParticipationNext
  <2>1. MarketCore'
    BY <1>1, ParticipationKeepsMarket DEF ParticipationCore, AgentCore, DecisionsAreNew, Busy
  <2>2. UNCHANGED submits
    BY <1>1 DEF ParticipationNext
  <2>3. CASE MarketStep /\ UNCHANGED agentVars
    BY <2>1, <2>2, <2>3, MarketKeepsAgent DEF ParticipationCore
  <2>4. CASE (AgentStep \/ CrashAgent \/ Restart) /\ UNCHANGED marketVars
    BY <2>1, <2>2, <2>4, AppendKeepsAgent, LoopKeepsAgent, DecideKeepsAgent, DeathKeepsAgent
       DEF ParticipationCore, AgentStep
  <2>5. CASE PostDraft \/ LoseAnswer
    BY <2>1, <2>2, <2>5, PostKeepsAgent DEF ParticipationCore
  <2> QED BY <1>1, <2>3, <2>4, <2>5 DEF ParticipationNext
<1>2. CASE UNCHANGED participationVars
  <2>1. UNCHANGED <<marketVars, agent, todo, active, log, agentCrashes, submits>>
    BY <1>2 DEF participationVars, agentVars
  <2>2. UNCHANGED audits
    BY <2>1 DEF marketVars, auditVars
  <2>3. MarketCore'
    BY <2>1, MarketStands DEF ParticipationCore
  <2>4. AgentCore'
    BY <2>1, <2>2 DEF ParticipationCore, AgentCore, AgentTyped, ParticipationTypeOK,
       DecisionsAreNew, CountsAreKept, DraftsArePaid, HasDecision, Accepted, Logged, Drafted,
       Pending
  <2> QED BY <2>3, <2>4 DEF ParticipationCore
<1> QED BY <1>1, <1>2

LEMMA ParticipationStarts ==
  ASSUME MarketInit, ParticipationInit
  PROVE  ParticipationCore
<1>1. MarketCore /\ audits = <<>>
  BY MarketStarts DEF MarketInit
<1>2. /\ submits \in BOOLEAN /\ agent = Sleeping /\ todo = {} /\ active = 0 /\ log = <<>>
      /\ agentCrashes = 0
  BY DEF ParticipationInit
<1>3. AgentTyped
  <2>1. log \in Seq([request : Request, action : {"skip", "would_submit", "submitted"}])
    BY <1>2
  <2> QED BY <1>2, <2>1 DEF AgentTyped, ParticipationTypeOK, Sleeping, At, Place
<1>4. DecisionsAreNew
  BY <1>2 DEF DecisionsAreNew, Busy, Sleeping, At
<1>5. Accepted = 0 /\ \A rs : Drafted(rs) = 0 /\ Logged(rs) = 0
  <2>1. ASSUME NEW P
        PROVE  Count(<<>>, P) = 0
    <3>1. {i \in DOMAIN <<>> : <<>>[i] \in P} = {}
      OBVIOUS
    <3> QED BY <3>1, FS_EmptySet DEF Count
  <2> QED BY <1>1, <1>2, <2>1 DEF Accepted, Drafted, Logged
<1>6. CountsAreKept /\ DraftsArePaid
  BY <1>2, <1>5, ParticipationAssumption DEF CountsAreKept, DraftsArePaid, Pending, Sleeping, At
<1> QED BY <1>1, <1>3, <1>4, <1>6 DEF ParticipationCore, AgentCore

LEMMA ParticipationCoreHolds == ParticipationSpec => []ParticipationCore
<1>1. MarketInit /\ ParticipationInit => ParticipationCore
  BY ParticipationStarts
<1>2. ParticipationCore /\ [ParticipationNext]_participationVars => ParticipationCore'
  BY ParticipationKeepsCore
<1> QED BY <1>1, <1>2, PTL DEF ParticipationSpec

\* Of the marketplace in service.py, with an agent at work beside its clients,
\* in every reachable state: a listed claim is staked and listed once per
\* identity, nothing on the chain is missing from the books unless a read
\* failed or the API died, and what the API tells of who may claim is what the
\* contract then asks.
THEOREM MarketBooksAreTrue == ParticipationSpec => []MarketInvariant
BY ParticipationCoreHolds, MarketCoreSuffices, PTL DEF ParticipationCore

\* Of request_participation.py: across all its restarts the agent never takes
\* on more than its capacity, never decides twice, and drafts twice only when
\* it died between the draft and the line of the log.
THEOREM AgentKeepsItsLimits == ParticipationSpec => []ParticipationInvariant
<1>1. ParticipationCore => ParticipationInvariant
  BY AgentCoreSuffices
<1> QED BY <1>1, ParticipationCoreHolds, PTL

-----------------------------------------------------------------------------
\* The watchers.
WatchSpec == WatchInit /\ [][WatchNext]_watchVars

WatchersTyped ==
  \A w \in DOMAIN watchers :
    /\ watchers[w] = Config(watchers[w].service, watchers[w].strategy)
    /\ watchers[w].service \notin {"none", "other"}
    /\ watchers[w].strategy \in Strategy

Action == {"monitored", "skipped", "flagged", "challenged"}

WatchTyped ==
  /\ WatchTypeOK
  /\ DOMAIN challenger = PublishedClaim
  /\ seen = [w \in DOMAIN watchers |-> seen[w]]
  /\ results \in [DOMAIN watchers -> [PublishedClaim -> Seq(Action)]]

\* What is left of a poll was not acted on before, and everything else seen was.
ReactionsAreKept ==
  /\ place = "polling" => fresh = {}
  /\ \A c \in fresh : /\ results[turn][c] = <<>> /\ Published(c) \in seen[turn]
                      /\ Author[c] # watchers[turn].service
  /\ \A w \in DOMAIN watchers, c \in PublishedClaim :
       /\ Len(results[w][c]) <= 1
       /\ results[w][c] # <<>> => Published(c) \in seen[w]
       /\ Published(c) \in seen[w] /\ Author[c] # watchers[w].service =>
            results[w][c] # <<>> \/ (w = turn /\ c \in fresh)

\* A challenge is submitted, or left to the API, by a watcher told to challenge
\* and on a claim of another service.
ChallengesAreKept ==
  /\ place = "challenging" => watchers[turn].strategy = "auto-challenge"
  /\ \A l \in late : /\ watchers[l[1]].strategy = "auto-challenge"
                     /\ Author[l[2]] # watchers[l[1]].service
  /\ ChallengesAreTrue

WatchCore == WatchersTyped /\ WatchTyped /\ ReactionsAreKept /\ ChallengesAreKept

LEMMA FeedIsStored == Feed \subseteq stored
BY DEF Feed

LEMMA AppendedEvent ==
  ASSUME WatchTyped, NEW e \in EventKind \X PublishedClaim
  PROVE  /\ Append(order, e) \in Seq(EventKind \X PublishedClaim)
         /\ ToSet(Append(order, e)) = ToSet(order) \cup {e}
<1>1. order \in Seq(EventKind \X PublishedClaim)
  BY DEF WatchTyped, WatchTypeOK
<1>2. /\ Append(order, e) \in Seq(EventKind \X PublishedClaim)
      /\ Len(Append(order, e)) = Len(order) + 1
      /\ Len(order) \in Nat /\ DOMAIN order = 1 .. Len(order)
  BY <1>1
<1>3. DOMAIN Append(order, e) = 1 .. Len(order) + 1
  BY <1>2
<1>4. /\ \A i \in DOMAIN order : Append(order, e)[i] = order[i]
      /\ Append(order, e)[Len(order) + 1] = e
  BY <1>1, <1>2
<1>5. /\ DOMAIN Append(order, e) = DOMAIN order \cup {Len(order) + 1}
  BY <1>2, <1>3
<1> QED BY <1>2, <1>4, <1>5 DEF ToSet

LEMMA Challenged ==
  ASSUME WatchTyped, NEW c \in PublishedClaim, NEW who, OpenChallenge(c, who)
  PROVE  /\ order' \in Seq(EventKind \X PublishedClaim) /\ stored' \subseteq ToSet(order')
         /\ stored \subseteq stored' /\ DOMAIN challenger' = PublishedClaim
         /\ challenger'[c] = who
         /\ \A d \in PublishedClaim \ {c} : challenger'[d] = challenger[d]
<1>1. PICK e \in EventKind \X PublishedClaim : e = <<"challenge_opened", c>>
  BY DEF EventKind
<1>2. /\ order' = Append(order, e) /\ stored' = stored \cup {e}
      /\ challenger' = [challenger EXCEPT ![c] = who]
  BY <1>1 DEF OpenChallenge
<1> QED BY <1>2, AppendedEvent DEF WatchTyped, WatchTypeOK


\* A bond posted by others, or by a watcher that may challenge.
LEMMA BondKeepsChallenges ==
  ASSUME WatchCore, NEW c \in PublishedClaim, NEW who, OpenChallenge(c, who),
         Challengeable(c), UNCHANGED watchers, who # "none",
         who # "other" => \E w \in DOMAIN watchers :
           /\ watchers[w].service = who /\ watchers[w].strategy = "auto-challenge"
           /\ Author[c] # who
  PROVE  /\ \A t \in told : challenger'[t[2]] = watchers[t[1]].service
         /\ \A d \in PublishedClaim : challenger'[d] \notin {"none", "other"} =>
              /\ challenger'[d] # Author[d]
              /\ \E w \in DOMAIN watchers : watchers[w] = Config(challenger'[d], "auto-challenge")
<1>1. /\ challenger'[c] = who /\ challenger[c] = "none"
      /\ \A d \in PublishedClaim \ {c} : challenger'[d] = challenger[d]
      /\ WatchersTyped /\ WatchTyped /\ ChallengesAreTrue
  BY Challenged DEF WatchCore, ChallengesAreKept, Challengeable
<1>2. ASSUME NEW t \in told
      PROVE  challenger'[t[2]] = watchers[t[1]].service
  <2>1. t[1] \in DOMAIN watchers /\ t[2] \in PublishedClaim
        /\ challenger[t[2]] = watchers[t[1]].service /\ watchers[t[1]].service # "none"
    BY <1>1 DEF WatchTyped, WatchTypeOK, ChallengesAreTrue, WatchersTyped
  <2> QED BY <1>1, <2>1
<1>3. ASSUME NEW d \in PublishedClaim, challenger'[d] \notin {"none", "other"}
      PROVE  /\ challenger'[d] # Author[d]
             /\ \E w \in DOMAIN watchers : watchers[w] = Config(challenger'[d], "auto-challenge")
  <2>1. CASE d # c
    BY <1>1, <1>3, <2>1 DEF ChallengesAreTrue
  <2>2. CASE d = c
    <3>1. PICK w \in DOMAIN watchers :
            /\ watchers[w].service = who /\ watchers[w].strategy = "auto-challenge"
            /\ Author[c] # who
      BY <1>1, <1>3, <2>2
    <3>2. watchers[w] = Config(who, "auto-challenge")
      BY <1>1, <3>1 DEF WatchersTyped
    <3> QED BY <1>1, <2>2, <3>1, <3>2
  <2> QED BY <2>1, <2>2
<1> QED BY <1>2, <1>3

\* The API's side of a step.
LEMMA FeedStepKeeps ==
  ASSUME WatchCore, FeedStep, UNCHANGED <<watchers, processVars, faults>>
  PROVE  WatchCore'
<1>1. /\ WatchersTyped /\ WatchTyped /\ ReactionsAreKept /\ ChallengesAreKept
      /\ UNCHANGED <<watchers, turn, place, fresh, seen, results, told>>
  BY DEF WatchCore, processVars
<1>2. WatchersTyped'
  BY <1>1 DEF WatchersTyped
<1>3. ReactionsAreKept'
  BY <1>1 DEF ReactionsAreKept
<1>4. ASSUME order' \in Seq(EventKind \X PublishedClaim), stored' \subseteq ToSet(order'),
             stored \subseteq stored', late' \subseteq late, DOMAIN challenger' = PublishedClaim
      PROVE  WatchTyped'
  BY <1>1, <1>4 DEF WatchTyped, WatchTypeOK
<1>5. ASSUME late' \subseteq late, UNCHANGED challenger
      PROVE  ChallengesAreKept'
  BY <1>1, <1>5 DEF ChallengesAreKept, ChallengesAreTrue
<1>6. ASSUME NEW c \in PublishedClaim, NEW who, OpenChallenge(c, who), Challengeable(c),
             late' \subseteq late, who # "none",
             who # "other" => \E w \in DOMAIN watchers :
               /\ watchers[w].service = who /\ watchers[w].strategy = "auto-challenge"
               /\ Author[c] # who
      PROVE  WatchCore'
  <2>1. WatchTyped'
    BY <1>1, <1>4, <1>6, Challenged
  <2>2. ChallengesAreTrue'
    BY <1>1, <1>6, BondKeepsChallenges DEF ChallengesAreTrue
  <2>3. ChallengesAreKept'
    BY <1>1, <1>6, <2>2 DEF ChallengesAreKept
  <2> QED BY <1>2, <1>3, <2>1, <2>3 DEF WatchCore
<1>7. ASSUME NEW c \in PublishedClaim, PublishClaim(c)
      PROVE  WatchCore'
  <2>1. PICK e \in EventKind \X PublishedClaim : e = Published(c)
    BY DEF EventKind, Published
  <2>2. WatchTyped'
    BY <1>1, <1>4, <1>7, <2>1, AppendedEvent DEF PublishClaim, WatchTyped, WatchTypeOK
  <2>3. ChallengesAreKept'
    BY <1>5, <1>7 DEF PublishClaim
  <2> QED BY <1>2, <1>3, <2>2, <2>3 DEF WatchCore
<1>8. ASSUME NEW c \in PublishedClaim, StoreClaim(c)
      PROVE  WatchCore'
  <2>1. WatchTyped'
    BY <1>1, <1>4, <1>8 DEF StoreClaim, Happened, WatchTyped, WatchTypeOK
  <2>2. ChallengesAreKept'
    BY <1>5, <1>8 DEF StoreClaim
  <2> QED BY <1>2, <1>3, <2>1, <2>2 DEF WatchCore
<1>9. ASSUME NEW c \in PublishedClaim, OthersChallenge(c)
      PROVE  WatchCore'
  BY <1>6, <1>9 DEF OthersChallenge
<1>10. CASE LateChallenge
  <2>1. PICK l \in late :
          /\ late' = late \ {l}
          /\ \/ Challengeable(l[2]) /\ OpenChallenge(l[2], watchers[l[1]].service)
             \/ UNCHANGED <<challenger, order, stored>>
    BY <1>10 DEF LateChallenge
  <2>2. /\ l[1] \in DOMAIN watchers /\ l[2] \in PublishedClaim
        /\ watchers[l[1]].strategy = "auto-challenge"
        /\ Author[l[2]] # watchers[l[1]].service
        /\ watchers[l[1]].service # "none"
    BY <1>1 DEF WatchTyped, WatchTypeOK, ChallengesAreKept, WatchersTyped
  <2>3. CASE Challengeable(l[2]) /\ OpenChallenge(l[2], watchers[l[1]].service)
    BY <1>6, <2>1, <2>2, <2>3
  <2>4. CASE UNCHANGED <<challenger, order, stored>>
    <3>1. WatchTyped'
      BY <1>1, <1>4, <2>1, <2>4 DEF WatchTyped, WatchTypeOK
    <3>2. ChallengesAreKept'
      BY <1>5, <2>1, <2>4
    <3> QED BY <1>2, <1>3, <3>1, <3>2 DEF WatchCore
  <2> QED BY <2>1, <2>3, <2>4
<1> QED BY <1>7, <1>8, <1>9, <1>10 DEF FeedStep

\* A poll of the feed.
LEMMA PollKeeps ==
  ASSUME WatchCore, PollFeed, UNCHANGED <<watchers, apiVars>>
  PROVE  WatchCore'
<1>1. /\ WatchersTyped /\ WatchTyped /\ ReactionsAreKept /\ ChallengesAreKept
      /\ place = "polling" /\ fresh = {} /\ fresh' = NewClaims(turn)
      /\ seen' = [seen EXCEPT ![turn] = @ \cup Feed] /\ place' = "processing"
      /\ UNCHANGED <<watchers, order, stored, challenger, late, turn, results, told>>
      /\ turn \in DOMAIN watchers
  BY DEF WatchCore, PollFeed, ReactionsAreKept, apiVars, WatchTyped, WatchTypeOK
<1>2. /\ seen'[turn] = seen[turn] \cup Feed
      /\ \A w \in DOMAIN watchers \ {turn} : seen'[w] = seen[w]
      /\ seen' = [w \in DOMAIN watchers |-> seen'[w]]
  BY <1>1 DEF WatchTyped
<1>3. WatchTyped'
  <2>1. \A w \in DOMAIN watchers : seen'[w] \subseteq stored
    BY <1>1, <1>2, FeedIsStored DEF WatchTyped, WatchTypeOK
  <2> QED BY <1>1, <1>2, <2>1 DEF WatchTyped, WatchTypeOK, NewClaims
<1>4. ReactionsAreKept'
  <2>1. \A c \in fresh' : /\ results[turn][c] = <<>> /\ Published(c) \in seen'[turn]
                          /\ Author[c] # watchers[turn].service
    BY <1>1, <1>2 DEF NewClaims, ReactionsAreKept
  <2>2. ASSUME NEW w \in DOMAIN watchers, NEW c \in PublishedClaim
        PROVE  /\ Len(results[w][c]) <= 1
               /\ results[w][c] # <<>> => Published(c) \in seen'[w]
               /\ Published(c) \in seen'[w] /\ Author[c] # watchers[w].service =>
                    results[w][c] # <<>> \/ (w = turn /\ c \in fresh')
    <3>1. /\ Len(results[w][c]) <= 1
          /\ results[w][c] # <<>> => Published(c) \in seen[w]
          /\ Published(c) \in seen[w] /\ Author[c] # watchers[w].service => results[w][c] # <<>>
      BY <1>1 DEF ReactionsAreKept
    <3> QED BY <1>1, <1>2, <3>1 DEF NewClaims
  <2> QED BY <1>1, <2>1, <2>2 DEF ReactionsAreKept
<1>5. WatchersTyped' /\ ChallengesAreKept'
  BY <1>1 DEF WatchersTyped, ChallengesAreKept, ChallengesAreTrue
<1> QED BY <1>3, <1>4, <1>5 DEF WatchCore

\* A claim of the poll is done with.
LEMMA ReactionKept ==
  ASSUME WatchCore, NEW c \in fresh, NEW action \in Action, React(c, action),
         UNCHANGED <<watchers, turn, seen>>, place' = "processing",
         order' \in Seq(EventKind \X PublishedClaim), stored' \subseteq ToSet(order'),
         stored \subseteq stored', DOMAIN challenger' = PublishedClaim,
         late' \cup told' \subseteq (DOMAIN watchers) \X PublishedClaim
  PROVE  WatchersTyped' /\ WatchTyped' /\ ReactionsAreKept'
<1>1. /\ WatchersTyped /\ WatchTyped /\ ReactionsAreKept
      /\ turn \in DOMAIN watchers /\ c \in PublishedClaim
      /\ results \in [DOMAIN watchers -> [PublishedClaim -> Seq(Action)]]
      /\ results[turn][c] = <<>> /\ Published(c) \in seen[turn]
      /\ fresh' = fresh \ {c}
  BY DEF WatchCore, WatchTyped, WatchTypeOK, ReactionsAreKept, React
<1>2. results' = [results EXCEPT ![turn] = [results[turn] EXCEPT ![c] = <<action>>]]
  <2>1. Append(results[turn][c], action) = <<action>>
    BY <1>1
  <2> QED BY <2>1 DEF React
<1> DEFINE mine == [results[turn] EXCEPT ![c] = <<action>>]
<1>3. /\ mine \in [PublishedClaim -> Seq(Action)] /\ mine[c] = <<action>>
      /\ \A d \in PublishedClaim \ {c} : mine[d] = results[turn][d]
  <2>1. <<action>> \in Seq(Action)
    OBVIOUS
  <2>2. results[turn] \in [PublishedClaim -> Seq(Action)]
    BY <1>1
  <2> QED BY <1>1, <2>1, <2>2
<1> HIDE DEF mine
<1>4. /\ results' \in [DOMAIN watchers -> [PublishedClaim -> Seq(Action)]]
      /\ results'[turn] = mine
      /\ \A w \in DOMAIN watchers \ {turn} : results'[w] = results[w]
  BY <1>1, <1>2, <1>3 DEF mine
<1>5. WatchersTyped' /\ WatchTyped'
  BY <1>1, <1>4 DEF WatchersTyped, WatchTyped, WatchTypeOK
<1>6. <<action>> # <<>> /\ Len(<<action>>) = 1
  OBVIOUS
<1>7. \A d \in fresh' : /\ results'[turn][d] = <<>> /\ Published(d) \in seen[turn]
                        /\ Author[d] # watchers[turn].service
  BY <1>1, <1>3, <1>4 DEF ReactionsAreKept, WatchTyped, WatchTypeOK
<1>8. ASSUME NEW w \in DOMAIN watchers, NEW d \in PublishedClaim
      PROVE  /\ Len(results'[w][d]) <= 1
             /\ results'[w][d] # <<>> => Published(d) \in seen[w]
             /\ Published(d) \in seen[w] /\ Author[d] # watchers[w].service =>
                  results'[w][d] # <<>> \/ (w = turn /\ d \in fresh')
  <2>1. CASE w = turn /\ d = c
    <3>1. results'[w][d] = <<action>>
      BY <1>3, <1>4, <2>1
    <3>2. Len(results'[w][d]) = 1 /\ results'[w][d] # <<>>
      BY <1>6, <3>1
    <3> QED BY <1>1, <2>1, <3>2
  <2>2. CASE ~(w = turn /\ d = c)
    <3>1. results'[w][d] = results[w][d]
      BY <1>3, <1>4, <2>2
    <3> QED BY <1>1, <2>2, <3>1 DEF ReactionsAreKept
  <2> QED BY <2>1, <2>2
<1> QED BY <1>1, <1>5, <1>7, <1>8 DEF ReactionsAreKept

\* The step of a watcher on a claim, except for its challenge.
LEMMA ClaimStepKeeps ==
  ASSUME WatchCore, NEW c \in PublishedClaim, Observe(c) \/ ReanalysisFails(c) \/ Reanalyze(c),
         UNCHANGED <<watchers, apiVars>>
  PROVE  WatchCore'
<1>1. /\ WatchersTyped /\ WatchTyped /\ ReactionsAreKept /\ ChallengesAreKept
      /\ place = "processing" /\ c \in fresh
      /\ UNCHANGED <<watchers, order, stored, challenger, late, turn, seen, told>>
  BY DEF WatchCore, Observe, ReanalysisFails, Reanalyze, Processing, NextClaim, apiVars
<1>2. \/ /\ place' = "processing"
         /\ \E action \in {"monitored", "skipped", "flagged"} : React(c, action)
      \/ /\ place' = "challenging" /\ UNCHANGED <<results, fresh>>
         /\ watchers[turn].strategy = "auto-challenge"
  BY <1>1 DEF Observe, ReanalysisFails, Reanalyze
<1>3. CASE /\ place' = "processing"
           /\ \E action \in {"monitored", "skipped", "flagged"} : React(c, action)
  <2>1. PICK action \in Action : React(c, action)
    BY <1>3 DEF Action
  <2>2. WatchersTyped' /\ WatchTyped' /\ ReactionsAreKept'
    BY <1>1, <1>3, <2>1, ReactionKept DEF WatchTyped, WatchTypeOK
  <2>3. ChallengesAreKept'
    BY <1>1, <1>3 DEF ChallengesAreKept, ChallengesAreTrue
  <2> QED BY <2>2, <2>3 DEF WatchCore
<1>4. CASE /\ place' = "challenging" /\ UNCHANGED <<results, fresh>>
           /\ watchers[turn].strategy = "auto-challenge"
  <2>1. WatchersTyped' /\ WatchTyped'
    BY <1>1, <1>4 DEF WatchersTyped, WatchTyped, WatchTypeOK
  <2>2. ReactionsAreKept' /\ ChallengesAreKept'
    BY <1>1, <1>4 DEF ReactionsAreKept, ChallengesAreKept, ChallengesAreTrue
  <2> QED BY <2>1, <2>2 DEF WatchCore
<1> QED BY <1>2, <1>3, <1>4

LEMMA ChallengeKeeps ==
  ASSUME WatchCore, NEW c \in PublishedClaim, SubmitChallenge(c), UNCHANGED watchers
  PROVE  WatchCore'
<1>1. /\ WatchersTyped /\ WatchTyped /\ ReactionsAreKept /\ ChallengesAreKept
      /\ place = "challenging" /\ place' = "processing" /\ c \in fresh
      /\ UNCHANGED <<watchers, turn, seen>>
  BY DEF WatchCore, SubmitChallenge, NextClaim
<1>2. /\ turn \in DOMAIN watchers /\ watchers[turn].strategy = "auto-challenge"
      /\ Author[c] # watchers[turn].service
      /\ watchers[turn].service \notin {"none", "other"}
  BY <1>1 DEF WatchTyped, WatchTypeOK, ChallengesAreKept, ReactionsAreKept, WatchersTyped
<1>3. \/ /\ Challengeable(c) /\ OpenChallenge(c, watchers[turn].service)
         /\ React(c, "challenged") /\ told' = told \cup {<<turn, c>>} /\ UNCHANGED late
      \/ /\ React(c, "skipped") /\ late' \in {late, late \cup {<<turn, c>>}}
         /\ UNCHANGED <<challenger, order, stored, told>>
  BY DEF SubmitChallenge
<1>4. CASE /\ Challengeable(c) /\ OpenChallenge(c, watchers[turn].service)
           /\ React(c, "challenged") /\ told' = told \cup {<<turn, c>>} /\ UNCHANGED late
  <2>1. WatchersTyped' /\ WatchTyped' /\ ReactionsAreKept'
    <3>1. late' \cup told' \subseteq (DOMAIN watchers) \X PublishedClaim
      BY <1>1, <1>2, <1>4 DEF WatchTyped, WatchTypeOK
    <3>2. "challenged" \in Action /\ React(c, "challenged")
      BY <1>4 DEF Action
    <3>3. /\ order' \in Seq(EventKind \X PublishedClaim) /\ stored' \subseteq ToSet(order')
          /\ stored \subseteq stored' /\ DOMAIN challenger' = PublishedClaim
      BY <1>1, <1>4, Challenged
    <3> QED BY <1>1, <3>1, <3>2, <3>3, ReactionKept
  <2>2. /\ \A t \in told : challenger'[t[2]] = watchers[t[1]].service
        /\ \A d \in PublishedClaim : challenger'[d] \notin {"none", "other"} =>
             /\ challenger'[d] # Author[d]
             /\ \E w \in DOMAIN watchers : watchers[w] = Config(challenger'[d], "auto-challenge")
    BY <1>1, <1>2, <1>4, BondKeepsChallenges
  <2>3. challenger'[c] = watchers[turn].service
    BY <1>1, <1>4, Challenged
  <2>4. ChallengesAreKept'
    BY <1>1, <1>4, <2>2, <2>3 DEF ChallengesAreKept, ChallengesAreTrue
  <2> QED BY <2>1, <2>4 DEF WatchCore
<1>5. CASE /\ React(c, "skipped") /\ late' \in {late, late \cup {<<turn, c>>}}
           /\ UNCHANGED <<challenger, order, stored, told>>
  <2>1. WatchersTyped' /\ WatchTyped' /\ ReactionsAreKept'
    <3>1. late' \cup told' \subseteq (DOMAIN watchers) \X PublishedClaim
      BY <1>1, <1>2, <1>5 DEF WatchTyped, WatchTypeOK
    <3>2. "skipped" \in Action /\ React(c, "skipped")
      BY <1>5 DEF Action
    <3>3. /\ order' \in Seq(EventKind \X PublishedClaim) /\ stored' \subseteq ToSet(order')
          /\ stored \subseteq stored' /\ DOMAIN challenger' = PublishedClaim
      BY <1>1, <1>5 DEF WatchTyped, WatchTypeOK
    <3> QED BY <1>1, <3>1, <3>2, <3>3, ReactionKept
  <2>2. ChallengesAreKept'
    BY <1>1, <1>2, <1>5 DEF ChallengesAreKept, ChallengesAreTrue
  <2> QED BY <2>1, <2>2 DEF WatchCore
<1> QED BY <1>3, <1>4, <1>5

\* The turn goes on, a poll fails, or the process starts again.
LEMMA TurnKeeps ==
  ASSUME WatchCore, NextWatcher \/ PollFails, UNCHANGED <<watchers, apiVars>>
  PROVE  WatchCore'
<1>1. /\ WatchersTyped /\ WatchTyped /\ ReactionsAreKept /\ ChallengesAreKept
      /\ fresh = {} /\ place' \in {"polling", "processing"} /\ turn' \in DOMAIN watchers
      /\ UNCHANGED <<watchers, order, stored, challenger, late, fresh, seen, results, told>>
  BY DEF WatchCore, NextWatcher, PollFails, ReactionsAreKept, WatchTyped, WatchTypeOK, apiVars
<1>2. WatchersTyped' /\ WatchTyped'
  BY <1>1 DEF WatchersTyped, WatchTyped, WatchTypeOK
<1>3. ReactionsAreKept'
  BY <1>1 DEF ReactionsAreKept
<1>4. ChallengesAreKept'
  BY <1>1 DEF ChallengesAreKept, ChallengesAreTrue
<1> QED BY <1>2, <1>3, <1>4 DEF WatchCore

LEMMA NoReactions ==
  ASSUME NEW ws
  PROVE  /\ NoResults(ws) \in [DOMAIN ws -> [PublishedClaim -> Seq(Action)]]
         /\ \A w \in DOMAIN ws, c \in PublishedClaim : NoResults(ws)[w][c] = <<>>
<1>1. <<>> \in Seq(Action)
  OBVIOUS
<1> QED BY <1>1 DEF NoResults

LEMMA RestartKeeps ==
  ASSUME WatchCore, DieAndRestart, UNCHANGED <<watchers, apiVars>>
  PROVE  WatchCore'
<1>1. /\ WatchersTyped /\ WatchTyped /\ ChallengesAreKept
      /\ turn' \in DOMAIN watchers /\ place' = "polling" /\ fresh' = {}
      /\ seen' = [w \in DOMAIN watchers |-> {}] /\ results' = NoResults(watchers)
      /\ UNCHANGED <<watchers, order, stored, challenger, late, told>>
  BY DEF WatchCore, DieAndRestart, apiVars
<1>2. WatchersTyped' /\ WatchTyped'
  BY <1>1, NoReactions DEF WatchersTyped, WatchTyped, WatchTypeOK
<1>3. ReactionsAreKept'
  <2>1. \A w \in DOMAIN watchers, c \in PublishedClaim :
          results'[w][c] = <<>> /\ seen'[w] = {}
    BY <1>1, NoReactions
  <2>2. Len(<<>>) = 0
    OBVIOUS
  <2> QED BY <1>1, <2>1, <2>2 DEF ReactionsAreKept
<1>4. ChallengesAreKept'
  BY <1>1 DEF ChallengesAreKept, ChallengesAreTrue
<1> QED BY <1>2, <1>3, <1>4 DEF WatchCore

LEMMA WatchKeepsCore ==
  ASSUME WatchCore, [WatchNext]_watchVars
  PROVE  WatchCore'
<1>1. CASE WatchNext
  <2>1. UNCHANGED watchers
    BY <1>1 DEF WatchNext
  <2>2. CASE FeedStep /\ UNCHANGED <<processVars, faults>>
    BY <2>1, <2>2, FeedStepKeeps
  <2>3. CASE (PollFeed \/ NextWatcher) /\ UNCHANGED apiVars
    BY <2>1, <2>3, PollKeeps, TurnKeeps
  <2>4. ASSUME NEW c \in PublishedClaim,
               \/ (Observe(c) \/ ReanalysisFails(c) \/ Reanalyze(c)) /\ UNCHANGED apiVars
               \/ SubmitChallenge(c)
        PROVE  WatchCore'
    BY <2>1, <2>4, ClaimStepKeeps, ChallengeKeeps
  <2>5. CASE (PollFails \/ DieAndRestart) /\ UNCHANGED apiVars
    BY <2>1, <2>5, TurnKeeps, RestartKeeps
  <2> QED BY <1>1, <2>2, <2>3, <2>4, <2>5 DEF WatchNext, WatcherStep
<1>2. CASE UNCHANGED watchVars
  <2>1. UNCHANGED <<watchers, order, stored, challenger, late, turn, place, fresh, seen,
                    results, told>>
    BY <1>2 DEF watchVars
  <2>2. WatchersTyped' /\ WatchTyped' /\ ReactionsAreKept' /\ ChallengesAreKept'
    BY <2>1 DEF WatchCore, WatchersTyped, WatchTyped, WatchTypeOK, ReactionsAreKept,
       ChallengesAreKept, ChallengesAreTrue
  <2> QED BY <2>2 DEF WatchCore
<1> QED BY <1>1, <1>2

LEMMA PersonaFacts ==
  ASSUME NEW persona, persona.service \notin {"none", "other"}, persona.strategy \in Strategy,
         NEW override \in Overrides
  PROVE  LET w == FromPersona(persona, override)
         IN /\ w = Config(w.service, w.strategy) /\ w.service \notin {"none", "other"}
            /\ w.strategy \in Strategy
BY WatcherAssumption DEF FromPersona, Config

LEMMA WatchStarts == WatchInit => WatchCore
<1> SUFFICES ASSUME WatchInit
             PROVE  WatchCore
  OBVIOUS
<1>1. PICK override \in Overrides :
        \/ watchers = ResolveAllAgents(override)
        \/ \E c \in PublishedClaim : watchers = <<ResolveAgentConfig(Author[c], override)>>
  BY DEF WatchInit
<1>2. WatchersTyped
  <2>1. CASE watchers = ResolveAllAgents(override)
    <3>1. \A w \in DOMAIN watchers :
            w \in DOMAIN Personas /\ watchers[w] = FromPersona(Personas[w], override)
      BY <2>1 DEF ResolveAllAgents
    <3> QED BY <3>1, PersonaFacts, WatcherAssumption DEF WatchersTyped
  <2>2. ASSUME NEW c \in PublishedClaim, watchers = <<ResolveAgentConfig(Author[c], override)>>
        PROVE  WatchersTyped
    <3> DEFINE own == {i \in DOMAIN Personas : Personas[i].service = Author[c]}
               first == CHOOSE i \in own : \A j \in own : i <= j
               guest == Config(Author[c], "silent-monitor")
    <3>1. own # {} => first \in DOMAIN Personas
      <4>1. own \in SUBSET Nat
        BY WatcherAssumption
      <4> QED BY <4>1, SomeFirst
    <3>2. guest.service \notin {"none", "other"} /\ guest.strategy \in Strategy
      BY WatcherAssumption DEF Config, Strategy
    <3>3. ResolveAgentConfig(Author[c], override) =
            IF own # {} THEN FromPersona(Personas[first], override)
            ELSE FromPersona(guest, override)
      BY DEF ResolveAgentConfig
    <3> HIDE DEF own, first, guest
    <3>4. PICK persona : /\ persona.service \notin {"none", "other"}
                         /\ persona.strategy \in Strategy
                         /\ watchers = <<FromPersona(persona, override)>>
      BY <2>2, <3>1, <3>2, <3>3, WatcherAssumption
    <3>5. \A w \in DOMAIN watchers : watchers[w] = FromPersona(persona, override)
      BY <3>4
    <3> QED BY <3>4, <3>5, PersonaFacts DEF WatchersTyped
  <2> QED BY <1>1, <2>1, <2>2
<1>3. /\ order = <<>> /\ stored = {} /\ challenger = [c \in PublishedClaim |-> "none"]
      /\ late = {} /\ turn \in DOMAIN watchers /\ place = "polling" /\ fresh = {}
      /\ seen = [w \in DOMAIN watchers |-> {}] /\ results = NoResults(watchers) /\ told = {}
  BY DEF WatchInit
<1>4. WatchTyped
  <2>1. order \in Seq(EventKind \X PublishedClaim)
    BY <1>3
  <2> QED BY <1>2, <1>3, <2>1, NoReactions DEF WatchTyped, WatchTypeOK, WatchersTyped
<1>5. ReactionsAreKept
  <2>1. \A w \in DOMAIN watchers, c \in PublishedClaim : results[w][c] = <<>> /\ seen[w] = {}
    BY <1>3, NoReactions
  <2>2. Len(<<>>) = 0
    OBVIOUS
  <2> QED BY <1>3, <2>1, <2>2 DEF ReactionsAreKept
<1>6. ChallengesAreKept
  BY <1>3 DEF ChallengesAreKept, ChallengesAreTrue
<1> QED BY <1>2, <1>4, <1>5, <1>6 DEF WatchCore

LEMMA WatchCoreHolds == WatchSpec => []WatchCore
BY WatchStarts, WatchKeepsCore, PTL DEF WatchSpec

\* Of the challenger watchers: whoever was ever reported to have challenged a
\* claim holds its bond, and no watcher challenges unless told to, or its own
\* service, whatever time-outs, restarts and the challenges of others do.
THEOREM WatchersChallengeTruly == WatchSpec => []ChallengesAreTrue
BY WatchCoreHolds, PTL DEF WatchCore, ChallengesAreKept

\* Of one process: every claim of another service that it has seen is acted on
\* exactly once, or is still ahead of it in the poll that showed it.
THEOREM WatchersLoseNoClaim == WatchSpec => []WatchInvariant
<1>1. WatchCore => WatchInvariant
  BY DEF WatchCore, WatchTyped, ReactionsAreKept, WatchInvariant, SeenIsReactedToOnce
<1> QED BY <1>1, WatchCoreHolds, PTL
=============================================================================
