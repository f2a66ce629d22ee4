---------------------------- MODULE AuditService ----------------------------
(***************************************************************************)
(* The handlers of api/proof_of_audit_api/service.py that move an audit    *)
(* record through its life: draft, published, challenged, resolved.        *)
(*                                                                         *)
(* The handlers run in a thread pool and take no lock.  A handler reads    *)
(* the record into memory, changes that copy while it waits for            *)
(* transactions and verifiers, and stores the copy: every wait and every   *)
(* store is a step of its own.  The contract is AuditLifecycle; the two    *)
(* registries that mirror it are modelled by the calls made to them.       *)
(*                                                                         *)
(* Reports, snapshots, hashes, links, texts and times are left out.        *)
(***************************************************************************)
EXTENDS AuditLifecycle, Integers, FiniteSets

CONSTANTS
  Audit,                \* ids of the audit records
  Handler,              \* the threads of the API process
  Challengeable,        \* audits of other services than the configured one
  NoAudit,
  NoEntry,
  FaultSets,            \* what may go wrong in a behaviour: sets of AnyFault
  MaxLate               \* bound: transactions that may be late at a time

\* lost: a transaction is mined and its sender is told that it failed;
\* late: its receipt times out and it may still be mined;
\* crash: the API process restarts; read: a call that only reads the chain
\* raises; verifier: the verifier raises; others: other accounts call the contract.
AnyFault == {"lost", "late", "crash", "read", "verifier", "others"}

ASSUME ServiceAssumption ==
  /\ Audits \cup Claims \subseteq Nat \ {0}
  /\ NoEntry \notin Entries
  /\ NoAudit \notin Audit
  /\ Challengeable \subseteq Audit
  /\ FaultSets \subseteq SUBSET AnyFault
  /\ MaxLate \in Nat

VARIABLES
  author,      \* the audit record whose report each on-chain id carries
  opened,      \* the ids for which the chain has logged a challenge
  registry,    \* what the validation and reputation registries hold
  faults,      \* what may go wrong from the start of this behaviour on
  late,        \* transactions whose receipt timed out
  store,       \* the stored audit records
  handlers     \* what each thread is doing

chainVars == <<stage, author, opened, registry>>
serviceVars == <<stage, author, opened, registry, faults, late, store, handlers>>

\* A record is normal when it is what _normalize_stored_record makes of it: a
\* draft lacks the findings, and an open challenge the dossier, that reading
\* it adds.
AuditRecord ==
  [status     : {"none", "draft", "published", "challenged", "resolved"},
   entry      : Entries \cup {NoEntry},
   claimState : Stage,
   challenge  : {"none", "opened", "upheld", "rejected"},
   policy     : {"none", "admissible", "inadmissible"},
   validation : {"none", "requested", "failed", "responded"},
   reputation : {"none", "recorded", "failed", "resolved"},
   normal     : BOOLEAN]

NoRecord ==
  [status |-> "none", entry |-> NoEntry, claimState |-> "None",
   challenge |-> "none", policy |-> "none", validation |-> "none",
   reputation |-> "none", normal |-> FALSE]

Operation == {"get", "publish", "submit", "challenge", "resolve"}

Step ==
  {"idle", "load", "refresh", "writeBack", "publish", "requestValidation",
   "recordClaim", "submit", "readClaim", "challenge", "open", "verify",
   "autoResolve", "resolve", "respond", "recordResolution", "save"}

Mirror == {"none", "recorded", "confirmed", "refuted"}

Calls ==
  {"publish", "submit", "challenge", "resolve", "requestValidation",
   "recordClaim", "respond", "recordResolution"}

Transaction ==
  [call : Calls, audit : Audit, entry : Entries \cup {NoEntry}, upheld : BOOLEAN]

\* A thread that waits for a request.
Idle == [step |-> "idle"]

Thread ==
  [op : Operation, step : Step, audit : Audit, record : AuditRecord,
   upheld : BOOLEAN]

ServiceTypeOK ==
  /\ stage \in [Entries -> Stage]
  /\ author \in [Entries -> Audit \cup {NoAudit}]
  /\ opened \subseteq Entries
  /\ registry \in [Entries -> [validation : Mirror, reputation : Mirror]]
  /\ faults \in FaultSets
  /\ late \subseteq Transaction
  /\ store \in [Audit -> AuditRecord]
  /\ handlers \in [Handler -> Thread \cup {Idle}]

ServiceInit ==
  /\ LifecycleInit
  /\ author = [id \in Entries |-> NoAudit]
  /\ opened = {}
  /\ registry = [id \in Entries |-> [validation |-> "none", reputation |-> "none"]]
  /\ faults \in FaultSets
  /\ late = {}
  /\ store = [a \in Audit |-> NoRecord]
  /\ handlers = [h \in Handler |-> Idle]

-----------------------------------------------------------------------------
(***************************************************************************)
(* What a transaction does when it is mined, with the on-chain id that it  *)
(* creates or concerns.                                                    *)
(***************************************************************************)

\* The next id that a flow gives out.
IsNext(id, flow) ==
  stage[id] = "None" /\ \A other \in flow : other < id => stage[other] # "None"

MinePublish(tx, id) ==
  /\ tx.call = "publish"
  /\ id \in Audits /\ IsNext(id, Audits)
  /\ Publish(id)
  /\ author' = [author EXCEPT ![id] = tx.audit]
  /\ UNCHANGED <<opened, registry>>

\* The contract takes one claim per agent identity and request, and a record is
\* tied to no request: it can be claimed again for another one.
MineSubmit(tx, id) ==
  /\ tx.call = "submit"
  /\ id \in Claims /\ IsNext(id, Claims)
  /\ Publish(id)
  /\ author' = [author EXCEPT ![id] = tx.audit]
  /\ UNCHANGED <<opened, registry>>

MineChallenge(tx, id) ==
  /\ tx.call = "challenge" /\ id = tx.entry
  /\ Challenge(id)
  /\ opened' = opened \cup {id}
  /\ UNCHANGED <<author, registry>>

MineResolve(tx, id) ==
  /\ tx.call = "resolve" /\ id = tx.entry
  /\ Resolve(id, tx.upheld)
  /\ UNCHANGED <<author, opened, registry>>

\* The validation registry takes a request once and any number of responses.
MineValidation(tx, id) ==
  /\ id = tx.entry
  /\ \/ /\ tx.call = "requestValidation"
        /\ registry[id].validation = "none"
        /\ registry' = [registry EXCEPT ![id].validation = "recorded"]
     \/ /\ tx.call = "respond"
        /\ registry[id].validation # "none"
        /\ registry' = [registry EXCEPT ![id].validation =
             IF tx.upheld THEN "refuted" ELSE "confirmed"]
  /\ UNCHANGED <<stage, author, opened>>

\* The reputation registry takes a claim once and its resolution once.
MineReputation(tx, id) ==
  /\ id = tx.entry
  /\ \/ /\ tx.call = "recordClaim"
        /\ registry[id].reputation = "none"
        /\ registry' = [registry EXCEPT ![id].reputation = "recorded"]
     \/ /\ tx.call = "recordResolution"
        /\ registry[id].reputation = "recorded"
        /\ registry' = [registry EXCEPT ![id].reputation =
             IF tx.upheld THEN "refuted" ELSE "confirmed"]
  /\ UNCHANGED <<stage, author, opened>>

Mine(tx, id) ==
  \/ MinePublish(tx, id)
  \/ MineSubmit(tx, id)
  \/ MineChallenge(tx, id)
  \/ MineResolve(tx, id)
  \/ MineValidation(tx, id)
  \/ MineReputation(tx, id)

-----------------------------------------------------------------------------
(***************************************************************************)
(* The steps of a thread.  Definitions named Mutated... are the wrong      *)
(* forms that the properties are tested against.                           *)
(***************************************************************************)
At(h, step) == handlers[h].step = step

Continue(h, step, record) ==
  handlers' = [handlers EXCEPT ![h].step = step, ![h].record = record]

Finish(h) == handlers' = [handlers EXCEPT ![h] = Idle]

\* The transaction that a thread sends.
Request(h, call) ==
  [call |-> call, audit |-> handlers[h].audit,
   entry |-> handlers[h].record.entry, upheld |-> handlers[h].upheld]

\* The receipt arrives, with the events of a mined transaction.
Confirmed(h, call, id) == Mine(Request(h, call), id) /\ UNCHANGED late

\* The sender is told that the transaction failed: it was rejected or
\* reverted, or it was mined and the check that follows it failed, or its
\* receipt timed out.
Refused(h, call) ==
  \/ UNCHANGED <<chainVars, late>>
  \/ /\ "lost" \in faults
     /\ \E id \in Entries : Mine(Request(h, call), id)
     /\ UNCHANGED late
  \/ /\ "late" \in faults /\ Cardinality(late) < MaxLate
     /\ late' = late \cup {Request(h, call)}
     /\ UNCHANGED chainVars

\* A call that only reads, before the transaction or to check what it did, raises
\* an error of the node.  The handlers expect the errors of the bridges and of
\* the arbiter's client and no others: this one ends the operation, whatever
\* was mined, and nothing of it is stored.
Raised(h, call) ==
  /\ "read" \in faults
  /\ UNCHANGED chainVars \/ \E id \in Entries : Mine(Request(h, call), id)
  /\ UNCHANGED late
  /\ Finish(h)

\* A draft is not needed to publish.
MutatedAdmitAnyStatus(op, a, record, upheld) ==
  CASE op = "publish" -> "publish"
    [] op = "submit" /\ record.status = "draft" -> "submit"
    [] op = "challenge" /\ record.status = "published" -> "challenge"
    [] op = "resolve" /\ record.status = "challenged" -> "resolve"
    [] OTHER -> "idle"

\* The checks at the head of an operation on the record that it has read.
Admit(op, a, record, upheld) ==
  CASE op = "publish" /\ record.status = "draft" -> "publish"
    [] op = "submit" /\ record.status = "draft" -> "submit"
    [] /\ op = "challenge"
       /\ record.status = "published" /\ record.challenge = "none"
       /\ record.entry \in Claims => a \in Challengeable -> "challenge"
    [] /\ op = "resolve"
       /\ record.status = "challenged" /\ record.challenge # "none"
       /\ ~(upheld /\ record.policy = "inadmissible") -> "resolve"
    [] OTHER -> "idle"

\* Where a thread goes once it has the record: one that is not normal, or that
\* has a claim, is refreshed first; any other is checked at once.
Loaded(h, op, a, record, upheld) ==
  LET step == IF ~record.normal \/ record.entry \in Claims THEN "refresh"
              ELSE Admit(op, a, record, upheld)
  IN handlers' = [handlers EXCEPT ![h] =
       IF step = "idle" THEN Idle
       ELSE [op |-> op, step |-> step, audit |-> a, record |-> record,
             upheld |-> upheld]]

\* create_audit_submission: a draft under a fresh id, read back at once.
CreateAudit(h, a) ==
  /\ At(h, "idle")
  /\ store[a].status = "none"
  /\ store' = [store EXCEPT ![a].status = "draft"]
  /\ handlers' = [handlers EXCEPT ![h] =
       [op |-> "get", step |-> "load", audit |-> a, record |-> NoRecord,
        upheld |-> FALSE]]
  /\ UNCHANGED <<chainVars, late>>

\* A request arrives, with a verdict when it is one to resolve, and reads the
\* stored record.
Load(h, op, a, upheld) ==
  /\ At(h, "idle")
  /\ store[a].status # "none"
  /\ upheld => op = "resolve"
  /\ Loaded(h, op, a, store[a], upheld)
  /\ UNCHANGED <<chainVars, late, store>>

\* The answer of a call that created or claimed is read back from the store.
LoadAnswer(h) ==
  /\ At(h, "load")
  /\ Loaded(h, "get", handlers[h].audit, store[handlers[h].audit], FALSE)
  /\ UNCHANGED <<chainVars, late, store>>

\* What follows the refresh of a record.
Checked(h, record) ==
  LET t == handlers[h]
      step == Admit(t.op, t.audit, record, t.upheld)
  IN IF step = "idle" THEN Finish(h) ELSE Continue(h, step, record)

\* _normalize_stored_record asks the chain for the state of the claim, goes on
\* without an answer when the chain cannot be read, and stores the record
\* again when it comes out changed.
Refresh(h) ==
  LET record == handlers[h].record
      normalized == [record EXCEPT !.normal = TRUE]
      answered == IF record.entry \in Claims
                  THEN [normalized EXCEPT !.claimState = stage[record.entry]]
                  ELSE normalized
      results == IF "read" \in faults THEN {normalized, answered} ELSE {answered}
  IN
  /\ At(h, "refresh")
  /\ \E result \in results :
       IF result # record THEN Continue(h, "writeBack", result)
                          ELSE Checked(h, record)
  /\ UNCHANGED <<chainVars, late, store>>

WriteBack(h) ==
  /\ At(h, "writeBack")
  /\ store' = [store EXCEPT ![handlers[h].audit] = handlers[h].record]
  /\ Checked(h, handlers[h].record)
  /\ UNCHANGED <<chainVars, late>>

\* publish_audit: the stake, then the two mirrors, then the record.
PublishTransaction(h) ==
  /\ At(h, "publish")
  /\ \/ \E id \in Audits :
          /\ Confirmed(h, "publish", id)
          /\ Continue(h, "requestValidation",
               [handlers[h].record EXCEPT !.status = "published", !.entry = id])
     \/ Refused(h, "publish") /\ Finish(h)
  /\ UNCHANGED store

\* An error of the bridge is noted in the record, and the operation goes on.
RequestValidation(h) ==
  LET record == handlers[h].record IN
  /\ At(h, "requestValidation")
  /\ \/ /\ Confirmed(h, "requestValidation", record.entry)
        /\ Continue(h, "recordClaim", [record EXCEPT !.validation = "requested"])
     \/ /\ Refused(h, "requestValidation")
        /\ Continue(h, "recordClaim", [record EXCEPT !.validation = "failed"])
     \/ Raised(h, "requestValidation")
  /\ UNCHANGED store

RecordClaim(h) ==
  LET record == handlers[h].record IN
  /\ At(h, "recordClaim")
  /\ \/ /\ Confirmed(h, "recordClaim", record.entry)
        /\ Continue(h, "save", [record EXCEPT !.reputation = "recorded"])
     \/ /\ Refused(h, "recordClaim")
        /\ Continue(h, "save", [record EXCEPT !.reputation = "failed"])
     \/ Raised(h, "recordClaim")
  /\ UNCHANGED store

\* submit_audit_request_claim: the stake, the claim as the chain has it, the
\* record; a claim has no mirrors.
SubmitTransaction(h) ==
  /\ At(h, "submit")
  /\ \/ \E id \in Claims :
          /\ Confirmed(h, "submit", id)
          /\ Continue(h, "readClaim",
               [handlers[h].record EXCEPT !.status = "published", !.entry = id])
     \/ Refused(h, "submit") /\ Finish(h)
  /\ UNCHANGED store

ReadClaim(h) ==
  LET record == handlers[h].record IN
  /\ At(h, "readClaim")
  /\ \/ Continue(h, "save", [record EXCEPT !.claimState = stage[record.entry]])
     \/ "read" \in faults /\ Finish(h)
  /\ UNCHANGED <<chainVars, late, store>>

\* challenge_audit: the bond, a first store of the record, the verifier, and
\* perhaps the verdict, before the record is stored again.
ChallengeTransaction(h) ==
  LET record == handlers[h].record IN
  /\ At(h, "challenge")
  /\ \/ /\ Confirmed(h, "challenge", record.entry)
        /\ Continue(h, "open",
             [record EXCEPT !.status = "challenged", !.challenge = "opened",
                            !.normal = FALSE,
                            !.claimState = IF record.entry \in Claims
                                           THEN "Challenged" ELSE @])
     \/ Refused(h, "challenge") /\ Finish(h)
  /\ UNCHANGED store

\* The challenge is stored only with the outcome of its verification.
MutatedOpenChallenge(h) ==
  /\ At(h, "open")
  /\ Continue(h, "verify", handlers[h].record)
  /\ UNCHANGED <<chainVars, late, store>>

OpenChallenge(h) ==
  /\ At(h, "open")
  /\ store' = [store EXCEPT ![handlers[h].audit] = handlers[h].record]
  /\ Continue(h, "verify", handlers[h].record)
  /\ UNCHANGED <<chainVars, late>>

\* The policy and the verifier find the challenge inadmissible, or admissible
\* and open, or decide it; the verifier may also raise.
VerifyChallenge(h) ==
  LET record == handlers[h].record IN
  /\ At(h, "verify")
  /\ \/ \E policy \in {"inadmissible", "admissible"} :
          Continue(h, "save", [record EXCEPT !.policy = policy, !.normal = TRUE])
     \/ \E upheld \in BOOLEAN :
          handlers' = [handlers EXCEPT
            ![h].step = "autoResolve", ![h].upheld = upheld,
            ![h].record = [record EXCEPT !.policy = "admissible", !.normal = TRUE]]
     \/ "verifier" \in faults /\ Finish(h)
  /\ UNCHANGED <<chainVars, late, store>>

\* The record of a challenge whose verdict is on the chain.
Settled(record, upheld) ==
  [record EXCEPT
     !.status = "resolved",
     !.challenge = IF upheld THEN "upheld" ELSE "rejected",
     !.claimState = IF record.entry \notin Claims THEN @
                    ELSE IF upheld THEN "Upheld" ELSE "Rejected"]

\* The mirrors follow a verdict on an audit that has them.
AfterVerdict(record) == IF record.validation = "none" THEN "save" ELSE "respond"

\* The verdict is sent and not recorded.
MutatedAutoResolveUnrecorded(h) ==
  /\ At(h, "autoResolve")
  /\ Confirmed(h, "resolve", handlers[h].record.entry) \/ Refused(h, "resolve")
  /\ Continue(h, "save", handlers[h].record)
  /\ UNCHANGED store

AutoResolve(h) ==
  LET record == handlers[h].record
      settled == Settled(record, handlers[h].upheld)
  IN
  /\ At(h, "autoResolve")
  /\ \/ /\ Confirmed(h, "resolve", record.entry)
        /\ Continue(h, AfterVerdict(settled), settled)
     \/ /\ Refused(h, "resolve")
        /\ Continue(h, "save", record)
     \/ Raised(h, "resolve")
  /\ UNCHANGED store

\* resolve_audit: the verdict, the mirrors, the record.  A failed verdict is
\* taken for one already given.
MutatedResolveTransaction(h) ==
  LET settled == Settled(handlers[h].record, handlers[h].upheld) IN
  /\ At(h, "resolve")
  /\ Confirmed(h, "resolve", settled.entry) \/ Refused(h, "resolve")
  /\ Continue(h, AfterVerdict(settled), settled)
  /\ UNCHANGED store

ResolveTransaction(h) ==
  LET settled == Settled(handlers[h].record, handlers[h].upheld) IN
  /\ At(h, "resolve")
  /\ \/ /\ Confirmed(h, "resolve", settled.entry)
        /\ Continue(h, AfterVerdict(settled), settled)
     \/ Refused(h, "resolve") /\ Finish(h)
  /\ UNCHANGED store

Respond(h) ==
  LET record == handlers[h].record IN
  /\ At(h, "respond")
  /\ \/ /\ Confirmed(h, "respond", record.entry)
        /\ Continue(h, "recordResolution", [record EXCEPT !.validation = "responded"])
     \/ /\ Refused(h, "respond")
        /\ Continue(h, "recordResolution", [record EXCEPT !.validation = "failed"])
     \/ Raised(h, "respond")
  /\ UNCHANGED store

RecordResolution(h) ==
  LET record == handlers[h].record IN
  /\ At(h, "recordResolution")
  /\ \/ /\ Confirmed(h, "recordResolution", record.entry)
        /\ Continue(h, "save", [record EXCEPT !.reputation = "resolved"])
     \/ /\ Refused(h, "recordResolution")
        /\ Continue(h, "save", [record EXCEPT !.reputation = "failed"])
     \/ Raised(h, "recordResolution")
  /\ UNCHANGED store

\* The last store of an operation, and its answer.
Save(h) ==
  /\ At(h, "save")
  /\ store' = [store EXCEPT ![handlers[h].audit] = handlers[h].record]
  /\ IF handlers[h].op = "submit" THEN Continue(h, "load", NoRecord) ELSE Finish(h)
  /\ UNCHANGED <<chainVars, late>>

-----------------------------------------------------------------------------
(***************************************************************************)
(* What happens around the threads.                                        *)
(***************************************************************************)
LateTransaction(tx) ==
  /\ late' = late \ {tx}
  /\ (\E id \in Entries : Mine(tx, id)) \/ UNCHANGED chainVars
  /\ UNCHANGED <<store, handlers>>

\* A restart loses what the threads hold.
Crash ==
  /\ "crash" \in faults
  /\ handlers' = [h \in Handler |-> Idle]
  /\ UNCHANGED <<chainVars, late, store>>

\* Other accounts may challenge, release and expire.
Others(id) ==
  /\ "others" \in faults
  /\ \/ Challenge(id) /\ opened' = opened \cup {id}
     \/ (Release(id) \/ Expire(id)) /\ UNCHANGED opened
  /\ UNCHANGED <<author, registry, late, store, handlers>>

ThreadStep(h) ==
  \/ \E a \in Audit : CreateAudit(h, a)
  \/ \E op \in Operation, a \in Audit, upheld \in BOOLEAN : Load(h, op, a, upheld)
  \/ LoadAnswer(h)
  \/ Refresh(h)
  \/ WriteBack(h)
  \/ PublishTransaction(h)
  \/ RequestValidation(h)
  \/ RecordClaim(h)
  \/ SubmitTransaction(h)
  \/ ReadClaim(h)
  \/ ChallengeTransaction(h)
  \/ OpenChallenge(h)
  \/ VerifyChallenge(h)
  \/ AutoResolve(h)
  \/ ResolveTransaction(h)
  \/ Respond(h)
  \/ RecordResolution(h)
  \/ Save(h)

ServiceNext ==
  /\ UNCHANGED faults
  /\ \/ \E h \in Handler : ThreadStep(h)
     \/ \E tx \in late : LateTransaction(tx)
     \/ Crash
     \/ \E id \in Entries : Others(id)

ServiceSpec == ServiceInit /\ [][ServiceNext]_serviceVars

-----------------------------------------------------------------------------
(***************************************************************************)
(* What holds.                                                             *)
(***************************************************************************)

\* The records that exist: the stored ones and those that threads hold.
Records ==
  {<<a, store[a]>> : a \in Audit}
    \cup {<<handlers[h].audit, handlers[h].record>> :
            h \in {g \in Handler : handlers[g] # Idle}}

\* No record runs ahead of the contract: what it says was published was
\* published for its own report, a challenge that it shows was opened, and a
\* verdict that it shows is the verdict of the chain.
RecordsFollowChain ==
  \A pair \in Records :
    LET record == pair[2] IN
    /\ record.entry = NoEntry <=> record.status \in {"none", "draft"}
    /\ record.entry # NoEntry => author[record.entry] = pair[1]
    /\ record.status = "resolved" =>
         stage[record.entry] =
           (IF record.challenge = "upheld" THEN "Upheld" ELSE "Rejected")
    /\ record.challenge # "none" => record.entry \in opened
    /\ record.claimState \in {"Upheld", "Rejected"} =>
         stage[record.entry] = record.claimState

\* A mirror never shows a verdict that the contract has not given, or another
\* one, whichever thread sent it and however late it was mined.
MirrorsFollowVerdicts ==
  \A id \in Entries :
    \A shown \in {registry[id].validation, registry[id].reputation} :
      /\ shown = "confirmed" => stage[id] = "Rejected"
      /\ shown = "refuted" => stage[id] = "Upheld"
      /\ shown # "none" => author[id] # NoAudit

\* Nothing that the API shows runs ahead of the chain: ServiceTypeOK,
\* RecordsFollowChain and MirrorsFollowVerdicts.
NothingRunsAhead == ServiceTypeOK /\ RecordsFollowChain /\ MirrorsFollowVerdicts

\* While nothing fails, a report is staked once.
OneStakePerReport ==
  faults = {} =>
    \A a \in Audit : Cardinality({id \in Entries : author[id] = a}) <= 1

\* While nothing fails, and when no request is being served, a record and its
\* on-chain entry tell the same stage.
QuietRecordsMatchChain ==
  faults = {} /\ (\A h \in Handler : handlers[h] = Idle) =>
    \A a \in Audit :
      /\ \A id \in Entries : author[id] = a => store[a].entry = id
      /\ store[a].entry # NoEntry =>
           store[a].status =
             (CASE stage[store[a].entry] = "Published" -> "published"
                [] stage[store[a].entry] = "Challenged" -> "challenged"
                [] OTHER -> "resolved")

\* A verdict against the auditor is given only on a challenge that the policy
\* has admitted: the admissibility layer runs before automatic or manual
\* resolution (docs/CHALLENGE_POLICY.md).
PolicyBeforeVerdict ==
  \A pair \in Records :
    pair[2].challenge = "upheld" => pair[2].policy = "admissible"

\* A stored audit goes through the states of the claim state machine of
\* docs/TECHNICAL_DOCUMENTATION.md, one at a time and never back.
StatusAdvances ==
  [][\A a \in Audit :
       <<store[a].status, store'[a].status>> \in
         {<<s, s>> : s \in {"none", "draft", "published", "challenged", "resolved"}}
           \cup {<<"none", "draft">>, <<"draft", "published">>,
                 <<"published", "challenged">>, <<"challenged", "resolved">>}
    ]_serviceVars
=============================================================================
