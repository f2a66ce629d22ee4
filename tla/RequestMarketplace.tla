------------------------- MODULE RequestMarketplace -------------------------
(***************************************************************************)
(* The API's side of the marketplace: requests it opens on the chain and   *)
(* indexes in its store, drafts, and the claims it stakes for them.        *)
(*                                                                         *)
(* A request is opened by one transaction and indexed by a later write; a  *)
(* claim is staked by one transaction and recorded by a later write, of    *)
(* the whole record as it was read at the start; the API may crash in      *)
(* between, and handlers interleave, those that only read a record among   *)
(* them, for they write it back when they normalised or refreshed it.      *)
(* What a client is shown of a request is the stored record refreshed from *)
(* the chain, or the stored record itself when the chain cannot be read.   *)
(* The contract is reduced to the rules the API meets (RequestSettlement   *)
(* has all).                                                               *)
(***************************************************************************)
EXTENDS RequestEligibility, FiniteSets, Sequences

CONSTANTS
  Request,        \* request ids, 1 .. n
  Target,         \* Target[r]: the contract whose audit r asks for
  Handler,        \* API handlers that read audits, submit claims or publish
  Filters,        \* Filters[r]: the filters a client may open request r with
  Directories,    \* the directories: what identity each service has
  Publisher,      \* the account the API sends its transactions from
  Buyer,          \* an account that identities may be sold to
  Stakes,         \* what a claim may be staked with
  MaxDrafts,      \* bound on the audits that clients create by hand
  MaxTransfers,   \* bound on the identities that change hands
  MaxApiFaults    \* bound on the crashes and failed reads of the API

ASSUME MarketAssumption ==
  /\ Request \subseteq Nat \ {0} /\ Stakes \subseteq Nat /\ RequiredStake \in Nat
  /\ "none" \notin Service
  /\ \A d \in Directories :
       d = [s \in Service |-> Identity(d[s].agent, d[s].registry)]
  /\ \A r \in Request : \A f \in Filters[r] :
       /\ f = [minimumStake |-> f.minimumStake, mode |-> f.mode, allowed |-> f.allowed,
               service |-> f.service, agent |-> f.agent, registry |-> f.registry]
       /\ f.minimumStake \in Int /\ f.agent \in Int

VARIABLES
  directory,  \* directory[s]: the identity of service s
  owner,      \* owner[i]: the account that identity i belongs to
  transfers,  \* how many identities have changed hands
  chain,      \* chain[r]: the contract's state of request r
  rules,      \* rules[r]: who may claim it, on the chain
  asked,      \* asked[r]: the filters it was opened with
  claims,     \* <<r, i, a>>: a claim on request r was staked for identity i,
              \* with the report of audit a
  creating,   \* requests opened by a handler that has not indexed them yet
  index,      \* index[r]: the status the store holds, "absent" if none
  audits,     \* the audit records, in the order of their creation
  job,        \* job[h]: the audit handler h works on, and its copy of the record
  contended,  \* (history) the audits that two handlers had hold of at once
  apiFaults

identityVars == <<directory, owner, transfers>>
requestVars == <<chain, rules, asked>>
auditVars == <<audits, job, contended>>
marketVars == <<identityVars, requestVars, claims, creating, index, auditVars, apiFaults>>

ChainStatus == {"none", "open", "closed"}

\* A new audit by a service, and who asked for it.  Of the request it was made
\* for the record has the target only; claimed is the request whose claim it
\* shows.  A draft is raw until a read has normalised it.
AuditRecord(r, s, by) ==
  [request |-> r, service |-> s, submittedBy |-> by, status |-> "raw", claimed |-> 0]
NoRecord == AuditRecord(0, "none", "none")

Job(step, a, copy, r) == [step |-> step, audit |-> a, copy |-> copy, request |-> r]
NoJob == Job("idle", 0, NoRecord, 0)

Identities == {directory[s] : s \in Service} \ {NoIdentity}

NoFilters == [minimumStake |-> 0, mode |-> "open", allowed |-> {},
              service |-> "none", agent |-> NoAgent, registry |-> "none"]

MarketInit ==
  /\ directory \in Directories
  /\ owner \in [Identities -> {Publisher, Buyer}]
  /\ transfers = 0
  /\ rules = [r \in Request |-> NoRules]
  /\ asked = [r \in Request |-> NoFilters]
  /\ chain = [r \in Request |-> "none"]
  /\ claims = {}
  /\ creating = {}
  /\ index = [r \in Request |-> "absent"]
  /\ audits = <<>>
  /\ job = [h \in Handler |-> NoJob]
  /\ contended = {}
  /\ apiFaults = 0

\* An identity is an ERC-721 token: its owner may sell it at any time.
TransferIdentity ==
  /\ transfers < MaxTransfers
  /\ \E i \in Identities : owner' = [owner EXCEPT ![i] = Buyer]
  /\ transfers' = transfers + 1
  /\ UNCHANGED <<directory, requestVars, claims, creating, index, auditVars, apiFaults>>

\* create_audit_request up to its transaction: the filters are resolved into
\* rules before anything is sent, then the bounty is in escrow.
OpenRequest(r) ==
  /\ chain[r] = "none" /\ \A q \in 1 .. r - 1 : chain[q] # "none"
  /\ \E f \in Filters[r] :
       /\ asked' = [asked EXCEPT ![r] = NormalizeFilters(f)]
       /\ \E e \in Rules(NormalizeFilters(f), directory, owner) :
            rules' = [rules EXCEPT ![r] = e]
  /\ chain' = [chain EXCEPT ![r] = "open"]
  /\ creating' = creating \cup {r}
  /\ UNCHANGED <<identityVars, claims, index, auditVars, apiFaults>>

\* ... and its end: the state read from the contract is stored.
IndexRequest(r) ==
  /\ r \in creating
  /\ creating' = creating \ {r}
  /\ index' = [index EXCEPT ![r] = chain[r]]
  /\ UNCHANGED <<identityVars, requestVars, claims, auditVars, apiFaults>>

\* The response window ends ("closed" stands for all that may follow).
RequestEnds(r) ==
  /\ chain[r] = "open"
  /\ chain' = [chain EXCEPT ![r] = "closed"]
  /\ UNCHANGED <<identityVars, rules, asked, claims, creating, index, auditVars, apiFaults>>

\* _sync_audit_request_record: what the API shows of r, given whether the
\* chain could be read.  The stored record is not rewritten.
ShownStatus(r, chainReadable) ==
  IF index[r] = "absent" THEN "absent"
  ELSE IF chainReadable THEN chain[r] ELSE index[r]

ListedOpen(readable) ==
  {r \in Request : ShownStatus(r, r \in readable) = "open"}

\* build_audit_request_eligibility of an indexed request: what the API answers
\* about service s, given the stake the registry told and whether the owner
\* could be read.
Eligible(r, s, observed, resolved) ==
  EligibilityReasons(rules[r], directory, owner, s, observed, resolved) = {}

\* create_audit_submission: a draft of the target of r.
CreateDraft(r, s, by) == audits' = Append(audits, AuditRecord(r, s, by))

OnlyDrafts == UNCHANGED <<identityVars, requestVars, claims, creating, index, job, contended,
                          apiFaults>>

SubmitAudit(r, s) ==
  /\ Len(audits) < MaxDrafts
  /\ CreateDraft(r, s, "anonymous")
  /\ OnlyDrafts

HandlersOnly == UNCHANGED <<identityVars, requestVars, creating, index, apiFaults>>

\* Every handler starts from the stored record.
ReadAudit(h, a) ==
  /\ job[h] = NoJob
  /\ job' = [job EXCEPT ![h] = Job("read", a, audits[a], 0)]
  /\ contended' = contended \cup {b \in {a} : \E g \in Handler : job[g].audit = b}
  /\ UNCHANGED <<claims, audits>> /\ HandlersOnly

Normalized(record) == [record EXCEPT !.status = IF @ = "raw" THEN "draft" ELSE @]

\* _normalize_stored_record: a draft that was raw is stored again, and a
\* published record when the chain tells something new of its claim.
NormalizeAudit(h) ==
  LET copy == Normalized(job[h].copy)
  IN /\ job[h].step = "read"
     /\ \/ /\ copy # job[h].copy \/ copy.status = "published"
           /\ audits' = [audits EXCEPT ![job[h].audit] = copy]
        \/ /\ copy = job[h].copy
           /\ UNCHANGED audits
     /\ job' = [job EXCEPT ![h].step = "have", ![h].copy = copy]
     /\ UNCHANGED <<claims, contended>> /\ HandlersOnly

\* A reader has its answer, or a check of the handler fails.
AnswerAudit(h) ==
  /\ job[h].step = "have"
  /\ job' = [job EXCEPT ![h] = NoJob]
  /\ UNCHANGED <<claims, audits, contended>> /\ HandlersOnly

\* submit_audit_request_claim up to its transaction: an indexed request, a
\* draft of the same target, a service with an identity.
BeginClaim(h, r) ==
  LET copy == job[h].copy
  IN /\ job[h].step = "have"
     /\ index[r] # "absent"
     /\ copy.status = "draft"
     /\ Target[copy.request] = Target[r]
     /\ directory[copy.service] # NoIdentity
     /\ job' = [job EXCEPT ![h].step = "checked", ![h].request = r]
     /\ UNCHANGED <<claims, audits, contended>> /\ HandlersOnly

\* The contract knows a claim by its request and its identity, and keeps the
\* hash of the report.
ClaimFor(record, a, r) == <<r, directory[record.service], a>>

ClaimTaken(r, identity) == \E c \in claims : c[1] = r /\ c[2] = identity

\* The contract takes one claim per identity that its rules admit, from the
\* owner of the identity, while the request is open; a call it rejects ends
\* the handler with an error.
StakeClaim(h) ==
  LET r == job[h].request
      identity == directory[job[h].copy.service]
      accepted(value) == /\ chain[r] = "open"
                         /\ ContractAdmits(rules[r], identity, Publisher, value, owner)
                         /\ ~ClaimTaken(r, identity)
  IN /\ job[h].step = "checked"
     /\ \E value \in Stakes :
          \/ /\ accepted(value)
             /\ claims' = claims \cup {ClaimFor(job[h].copy, job[h].audit, r)}
             /\ job' = [job EXCEPT ![h].step = "staked"]
          \/ /\ ~accepted(value)
             /\ job' = [job EXCEPT ![h] = NoJob]
             /\ UNCHANGED claims
     /\ UNCHANGED <<audits, contended>> /\ HandlersOnly

\* The end of a handler that published its copy of the record, with the claim
\* it shows from now on.
StorePublished(h, claimed) ==
  /\ audits' = [audits EXCEPT ![job[h].audit] =
                  [job[h].copy EXCEPT !.status = "published", !.claimed = claimed]]
  /\ job' = [job EXCEPT ![h] = NoJob]
  /\ UNCHANGED <<claims, contended>> /\ HandlersOnly

\* Mutant: the record is published as soon as the checks pass.
MutatedRecordClaim(h) ==
  /\ job[h].step \in {"checked", "staked"}
  /\ StorePublished(h, job[h].request)

\* The claim is read back and the record, as read at the start, published.
RecordClaim(h) == job[h].step = "staked" /\ StorePublished(h, job[h].request)

\* publish_audit of the same draft: the direct flow, which no request sees.
PublishDirectly(h) ==
  /\ job[h].step = "have" /\ job[h].copy.status = "draft"
  /\ StorePublished(h, 0)

\* A read after the transaction fails: the handler ends with an error and
\* stores nothing, although the transaction took effect.
ReadBackFails ==
  /\ apiFaults < MaxApiFaults
  /\ apiFaults' = apiFaults + 1
  /\ \/ /\ \E r \in creating : creating' = creating \ {r}
        /\ UNCHANGED job
     \/ /\ \E h \in Handler :
             job[h].step = "staked" /\ job' = [job EXCEPT ![h] = NoJob]
        /\ UNCHANGED creating
  /\ UNCHANGED <<identityVars, requestVars, claims, index, audits, contended>>

\* The API dies with its handlers; the chain and the store stay.
CrashApi ==
  /\ apiFaults < MaxApiFaults
  /\ apiFaults' = apiFaults + 1
  /\ creating' = {}
  /\ job' = [h \in Handler |-> NoJob]
  /\ UNCHANGED <<identityVars, requestVars, claims, index, audits, contended>>

MarketStep ==
  \/ TransferIdentity
  \/ \E r \in Request : OpenRequest(r) \/ IndexRequest(r) \/ RequestEnds(r)
  \/ \E r \in Request, s \in Service : SubmitAudit(r, s)
  \/ \E h \in Handler :
       \/ \E a \in DOMAIN audits : ReadAudit(h, a)
       \/ NormalizeAudit(h)
       \/ AnswerAudit(h)
       \/ \E r \in Request : BeginClaim(h, r)
       \/ StakeClaim(h)
       \/ RecordClaim(h)
       \/ PublishDirectly(h)
  \/ ReadBackFails
  \/ CrashApi

\* list_audit_request_claims: the audits that show a claim on the request.
ListedClaims(r) == {a \in DOMAIN audits : audits[a].claimed = r}

-----------------------------------------------------------------------------
(***************************************************************************)
(* Properties                                                              *)
(***************************************************************************)

AuditShape == [request : Request, service : Service,
               submittedBy : {"anonymous", "listener"},
               status : {"raw", "draft", "published"}, claimed : Request \cup {0}]

MarketTypeOK ==
  /\ chain \in [Request -> ChainStatus]
  /\ owner \in [Identities -> {Publisher, Buyer}]
  /\ claims \subseteq Request \X Identities \X DOMAIN audits
  /\ creating \subseteq Request
  /\ index \in [Request -> ChainStatus \cup {"absent"}]
  /\ audits \in Seq(AuditShape)
  /\ job \in [Handler -> [step : {"idle", "read", "have", "checked", "staked"},
                          audit : DOMAIN audits \cup {0},
                          copy : AuditShape \cup {NoRecord}, request : Request \cup {0}]]
  /\ contended \subseteq DOMAIN audits

\* Every listed claim is staked on the chain, with the report of the audit that
\* lists it, and no two of them by the same identity, however many drafts were
\* made of the target by the services that share it, whichever handlers submit
\* and store them over each other and wherever the API crashes.
ListedClaimsAreStaked ==
  \A r \in Request :
    /\ \A a \in ListedClaims(r) : ClaimFor(audits[a], a, r) \in claims
    /\ \A a, b \in ListedClaims(r) :
         directory[audits[a].service] = directory[audits[b].service] => a = b

\* A request in escrow that no handler is about to index is the work of a crash
\* or of a failed read.  A staked claim that no record shows and no handler is
\* about to record is the work of one of these too, or of two handlers, readers
\* included, that had hold of the record at the same time: drafts submitted
\* twice, requests that end early and handlers of other records lose nothing.
NothingIsLostWithoutFault ==
  LET unindexed == {r \in Request : /\ chain[r] # "none" /\ index[r] = "absent"
                                    /\ r \notin creating}
      unrecorded == {c \in claims :
        /\ c[3] \notin ListedClaims(c[1])
        /\ ~\E h \in Handler : /\ job[h].step = "staked"
                               /\ ClaimFor(job[h].copy, job[h].audit, job[h].request) = c}
  IN apiFaults = 0 => unindexed = {} /\ \A c \in unrecorded : c[3] \in contended

\* The eligibility the API shows for a registered service is, apart from the
\* stake, what the contract then requires of the owner of its identity, to
\* whomever the identity was sold since the request was opened.
EligibilityIsTrue ==
  \A r \in Request, s \in Service : index[r] # "absent" /\ directory[s] # NoIdentity =>
    \A value \in Stakes :
      value >= RequiredStake /\ value >= rules[r].minimumStake =>
        (Eligible(r, s, value, TRUE)
           <=> ContractAdmits(rules[r], directory[s], owner[directory[s]], value, owner))

\* A service that matched the filters in the preview of the marketplace is
\* eligible for the request opened with them, unless an identity was sold.
PreviewCarriesOver ==
  \A r \in Request, s \in Service, observed \in Stakes \cup {NoStake} :
    /\ index[r] # "absent" /\ transfers = 0
    /\ MatchReasons(asked[r], directory, s, observed) = {}
    => Eligible(r, s, observed, TRUE)

\* The API's books of the marketplace, and what it tells of who may claim,
\* agree with the chain: MarketTypeOK, ListedClaimsAreStaked,
\* NothingIsLostWithoutFault, EligibilityIsTrue and PreviewCarriesOver.
MarketInvariant ==
  /\ MarketTypeOK
  /\ ListedClaimsAreStaked
  /\ NothingIsLostWithoutFault
  /\ EligibilityIsTrue
  /\ PreviewCarriesOver
=============================================================================
