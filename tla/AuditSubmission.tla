--------------------------- MODULE AuditSubmission ---------------------------
(***************************************************************************)
(* Audit submissions: AuditService.create_audit_submission captures the    *)
(* snapshot of a deployed target in several reads of the chain, swaps the  *)
(* worker's shared backend for one scoped to the chosen auditor service,   *)
(* runs the audit and puts the backend back.  The publish check captures   *)
(* the snapshot again.  One handler is one request thread of the API, and  *)
(* the API may be started again with other settings.                       *)
(***************************************************************************)
EXTENDS Naturals, FiniteSets

CONSTANTS
    RequestThread,  \* request threads
    AuditId,        \* the identities of the audits created
    Family,         \* finding categories, each a detector family
    ScopeOf,        \* auditor service -> its detectors; {} for the primary one
    Setups,         \* deployments: mode, hosted, storage, fallback, local, and
                    \* client: whether it can read the chain
    Submissions,    \* submissions: kind, service, benchmark, legacy
    Implementation, \* contracts the target's proxy slot may point to
    MaxBlock        \* bound: the blocks of the chain

VARIABLES
    setup,      \* the configuration the process started with
    forge,      \* detectors of worker.agent_forge, the shared backend
    chain,      \* at the head: block number, code of the contracts, proxy slot
    history,    \* block -> the code and the slot at it
    thread,     \* handler -> what its request is doing
    audits      \* audit -> its stored record, NoAudit before

submissionVars == <<setup, forge, chain, history, thread, audits>>

\* The detectors of a backend that runs every family.
AllFamilies == {}
NoAudit == [status |-> "none"]

\* A slot that points nowhere; versions of a contract's code, 0 for no code.
Nowhere == "none"
Target == "target"
Contract == Implementation \cup {Target}
Version == 0..2

ASSUME ChainAssumption ==
    /\ MaxBlock \in Nat \ {0}
    /\ Nowhere \notin Implementation /\ Target \notin Implementation

\* The kinds a submission may have; a service runs none but known detectors,
\* anything else is refused when a scan resolves them.
SubmissionKind == {"demo_fixture", "deployed_address", "repository_url", "source_bundle"}
ASSUME ScopeAssumption ==
  \A s \in Submissions : s.kind \in SubmissionKind /\ ScopeOf[s.service] \subseteq Family

\* What a snapshot keeps of the target; it has no hashes (hashed is FALSE) when
\* the API cannot read the chain, and an implementation may have none.
NoSnapshot ==
    [block |-> 0, hashed |-> FALSE, code |-> 0, slot |-> Nowhere, built |-> 0]
Free == [step |-> "idle"]

-----------------------------------------------------------------------------
(* The backends.                                                           *)

LiveEnabled == setup.mode \in {"hybrid", "agent_forge"}

\* _resolve_detectors: the families a scan runs.
Active(detectors) == IF detectors = AllFamilies THEN Family ELSE detectors \cap Family

\* A report: who wrote it, the families of its findings.
ReportBy(writer, findings) == [writer |-> writer, findings |-> findings]

\* AgentForgeBackend.run_submission: what a backend with these detectors may
\* return.  A failure is swallowed unless live analysis is mandatory; a hosted
\* run is not told the detectors.
Failure == IF setup.mode = "agent_forge" THEN "raised" ELSE "none"
LiveOutcomes(detectors) ==
    IF ~LiveEnabled THEN {ReportBy("none", {})}
    ELSE {ReportBy(Failure, {})} \cup
         IF setup.hosted
         THEN IF setup.storage = "local" THEN {}
              ELSE {ReportBy("hosted", found) : found \in SUBSET Family}
         ELSE {ReportBy("command", found) : found \in SUBSET Active(detectors)}

\* DeterministicAuditorBackend.run_submission, with the worker's label of it.
Deterministic(submission) ==
    ReportBy("deterministic", IF submission.benchmark THEN Family ELSE {})

\* What the worker does once live analysis returned nothing.
Fallback(submission) ==
    CASE submission.kind = "deployed_address" ->
            IF setup.fallback THEN Deterministic(submission) ELSE ReportBy("raised", {})
      [] submission.kind = "repository_url" ->
            IF setup.mode = "agent_forge" THEN ReportBy("raised", {})
            ELSE ReportBy("deterministic", {})
      [] submission.kind = "source_bundle" -> Deterministic(submission)

\* _validate_live_deployed_address_execution.
LiveWhereRequired(submission, report) ==
    \/ submission.kind # "deployed_address"
    \/ setup.local \/ submission.legacy
    \/ report.writer \in {"hosted", "command"}

-----------------------------------------------------------------------------
(* Creating an audit.                                                      *)

Advance(h, record) == thread' = [thread EXCEPT ![h] = record]
EndRequest(h) == Advance(h, Free)

\* A request arrives; a service that does not exist or support the kind is
\* refused before any of this.
CreateAudit(h) ==
    /\ thread[h] = Free
    /\ \E a \in {b \in AuditId : audits[b] = NoAudit
                               /\ \A g \in RequestThread : thread[g] = Free \/ thread[g].audit # b},
          s \in Submissions :
         Advance(h, [step |-> IF s.kind = "deployed_address" /\ setup.client
                              THEN "block" ELSE "runtime",
                     audit |-> a, submission |-> s, publishing |-> FALSE,
                     snapshot |-> NoSnapshot, original |-> AllFamilies,
                     report |-> ReportBy("none", {})])
    /\ UNCHANGED <<setup, forge, chain, history, audits>>

\* _capture_deployed_address_snapshot: the head's number, and then, in further
\* calls, what "latest" means by then.
ReadBlock(h) ==
    /\ thread[h].step = "block"
    /\ Advance(h, [thread[h] EXCEPT !.step = "code", !.snapshot.block = chain.block])
    /\ UNCHANGED <<setup, forge, chain, history, audits>>

ReadCode(h) ==
    /\ thread[h].step = "code"
    /\ Advance(h, [thread[h] EXCEPT !.step = "slot", !.snapshot.hashed = TRUE,
                                    !.snapshot.code = chain.code[Target]])
    /\ UNCHANGED <<setup, forge, chain, history, audits>>

\* What follows the snapshot.
AfterSnapshot(h) == IF thread[h].publishing THEN "compare" ELSE "runtime"

\* _resolve_proxy_identity_snapshot: the slot of the implementation ...
ReadImplementation(h) ==
    /\ thread[h].step = "slot"
    /\ Advance(h, [thread[h] EXCEPT
                     !.step = IF chain.slot # Nowhere THEN "implementation" ELSE "beacon",
                     !.snapshot.slot = chain.slot])
    /\ UNCHANGED <<setup, forge, chain, history, audits>>

\* ... then the code it points to, which may have gone ...
ReadImplementationCode(h) ==
    /\ thread[h].step = "implementation"
    /\ Advance(h, [thread[h] EXCEPT !.step = AfterSnapshot(h),
                     !.snapshot.built = chain.code[thread[h].snapshot.slot]])
    /\ UNCHANGED <<setup, forge, chain, history, audits>>

\* ... or else the slot of a beacon, which only names the kind of the proxy:
\* there is no implementation with it or without it.
ReadBeacon(h) ==
    /\ thread[h].step = "beacon"
    /\ Advance(h, [thread[h] EXCEPT !.step = AfterSnapshot(h)])
    /\ UNCHANGED <<setup, forge, chain, history, audits>>

\* A call to the node fails: nothing is stored, the request answers an error.
NodeFails(h) ==
    /\ thread[h].step \in {"block", "code", "slot", "implementation", "beacon"}
    /\ EndRequest(h)
    /\ UNCHANGED <<setup, forge, chain, history, audits>>

\* run_submission remembers the backend it is going to put back ...
RememberRuntime(h) ==
    /\ thread[h].step = "runtime"
    /\ Advance(h, [thread[h] EXCEPT !.step = "install", !.original = forge])
    /\ UNCHANGED <<setup, forge, chain, history, audits>>

Overrides(h) == ScopeOf[thread[h].submission.service]

\* ... and installs one scoped to the service, for everybody.
InstallOverrides(h) ==
    /\ thread[h].step = "install"
    /\ forge' = IF Overrides(h) = {} THEN forge ELSE Overrides(h)
    /\ Advance(h, [thread[h] EXCEPT !.step = "execute"])
    /\ UNCHANGED <<setup, chain, history, audits>>

\* _execute_submission: a demo fixture is read from the benchmarks and then
\* filtered by the installed detectors; the other kinds run the installed
\* backend, whose detectors are fixed from here on, or fall back.
Execute(h) ==
    /\ thread[h].step = "execute"
    /\ LET s == thread[h].submission IN
       \E outcome \in IF s.kind = "demo_fixture" THEN {ReportBy("fixture", Family)}
                      ELSE LiveOutcomes(forge) :
         Advance(h, [thread[h] EXCEPT
                       !.step = IF s.kind = "demo_fixture" THEN "scope" ELSE "restore",
                       !.report = IF outcome.writer = "none" THEN Fallback(s) ELSE outcome])
    /\ UNCHANGED <<setup, forge, chain, history, audits>>

\* _apply_detector_scope reads the detectors of whatever backend is installed.
ApplyScope(h) ==
    /\ thread[h].step = "scope"
    /\ Advance(h, [thread[h] EXCEPT !.step = "restore",
                                    !.report.findings = @ \cap Active(forge)])
    /\ UNCHANGED <<setup, forge, chain, history, audits>>

\* Mutant: the backend is put back on the normal path only.
MutatedRestored(h) ==
    IF thread[h].report.writer = "raised" THEN forge ELSE thread[h].original

\* The finally block puts the backend back, whether the run raised or not.
Restored(h) == thread[h].original

Restore(h) ==
    /\ thread[h].step = "restore"
    /\ forge' = IF Overrides(h) = {} THEN forge ELSE Restored(h)
    /\ IF thread[h].report.writer = "raised" THEN EndRequest(h)
       ELSE Advance(h, [thread[h] EXCEPT !.step = "store"])
    /\ UNCHANGED <<setup, chain, history, audits>>

\* The record is stored as a draft, unless the target needed live analysis.
StoreAudit(h) ==
    /\ thread[h].step = "store"
    /\ LET t == thread[h] IN
       audits' = IF LiveWhereRequired(t.submission, t.report)
                 THEN [audits EXCEPT ![t.audit] =
                         [status |-> "draft", submission |-> t.submission,
                          snapshot |-> t.snapshot, report |-> t.report]]
                 ELSE audits
    /\ EndRequest(h)
    /\ UNCHANGED <<setup, forge, chain, history>>

-----------------------------------------------------------------------------
(* Publishing it.                                                          *)

\* Whether there is anything to compare: a draft that was made where the chain
\* could not be read has no hash, and is published as it is.
Compared(a) ==
    audits[a].submission.kind = "deployed_address" /\ audits[a].snapshot.hashed

\* publish_audit up to the snapshot check; repositories and bundles are refused,
\* and an API with a publisher reads the chain through it.
BeginPublish(h) ==
    /\ thread[h] = Free /\ setup.client
    /\ \E a \in {b \in AuditId : audits[b].status = "draft"} :
         /\ audits[a].submission.kind \in {"demo_fixture", "deployed_address"}
         /\ Advance(h, [step |-> IF Compared(a) THEN "block" ELSE "compare",
                        audit |-> a, submission |-> audits[a].submission,
                        publishing |-> TRUE, snapshot |-> NoSnapshot,
                        original |-> AllFamilies, report |-> audits[a].report])
    /\ UNCHANGED <<setup, forge, chain, history, audits>>

\* Mutant: only the target's own code is compared.
MutatedSameIdentity(audited, now) == now.hashed => now.code = audited.code

\* _assert_snapshot_publishable: the implementation is compared only when the
\* audit found one.
SameIdentity(audited, now) ==
    /\ now.hashed => now.code = audited.code
    /\ audited.slot # Nowhere => now.slot = audited.slot /\ now.built = audited.built

\* The comparison, and, when it holds, the publication of the claim.
ComparePublish(h) ==
    /\ thread[h].step = "compare"
    /\ LET a == thread[h].audit IN
       audits' = IF ~Compared(a) \/ SameIdentity(audits[a].snapshot, thread[h].snapshot)
                 THEN [audits EXCEPT ![a].status = "published"] ELSE audits
    /\ EndRequest(h)
    /\ UNCHANGED <<setup, forge, chain, history>>

-----------------------------------------------------------------------------
(* The chain, and the whole.                                               *)

HeadIdentity == [code |-> chain'.code, slot |-> chain'.slot]

\* A block: others redeploy or destroy a contract, or upgrade the proxy.
NewBlock ==
    /\ chain.block < MaxBlock
    /\ \/ \E c \in Contract, v \in Version :
            chain' = [chain EXCEPT !.block = @ + 1, !.code[c] = v]
       \/ \E i \in Implementation \cup {Nowhere} :
            chain' = [chain EXCEPT !.block = @ + 1, !.slot = i]
    /\ history' = [history EXCEPT ![chain.block + 1] = HeadIdentity]
    /\ UNCHANGED <<setup, forge, thread, audits>>

\* The process starts again, with these or other settings; its requests are gone.
Restart ==
    /\ setup' \in Setups
    /\ forge' = AllFamilies
    /\ thread' = [h \in RequestThread |-> Free]
    /\ UNCHANGED <<chain, history, audits>>

SubmissionInit ==
    /\ setup \in Setups
    /\ forge = AllFamilies
    /\ chain \in [block : {1}, code : {[c \in Contract |-> 1]},
                  slot : Implementation \cup {Nowhere}]
    /\ history = [b \in 1..MaxBlock |-> [code |-> chain.code, slot |-> chain.slot]]
    /\ thread = [h \in RequestThread |-> Free]
    /\ audits = [a \in AuditId |-> NoAudit]

SubmissionStep(h) ==
    \/ CreateAudit(h) \/ ReadBlock(h) \/ ReadCode(h) \/ ReadImplementation(h)
    \/ ReadImplementationCode(h) \/ ReadBeacon(h) \/ NodeFails(h)
    \/ RememberRuntime(h) \/ InstallOverrides(h) \/ Execute(h) \/ ApplyScope(h)
    \/ Restore(h) \/ StoreAudit(h) \/ BeginPublish(h) \/ ComparePublish(h)

SubmissionNext == NewBlock \/ Restart \/ \E h \in RequestThread : SubmissionStep(h)

-----------------------------------------------------------------------------
(* Properties.                                                             *)

\* Every variable has its type.
SubmissionTypeOK ==
    /\ setup \in Setups
    /\ forge \in SUBSET Family
    /\ chain.block \in 1..MaxBlock
    /\ \A b \in 1..MaxBlock : /\ history[b].slot \in Implementation \cup {Nowhere}
                            /\ \A c \in Contract : history[b].code[c] \in Version
    /\ \A a \in AuditId : audits[a].status \in {"none", "draft", "published"}
    /\ \A h \in RequestThread : thread[h].step \in
         {"idle", "block", "code", "slot", "implementation", "beacon", "runtime",
          "install", "execute", "scope", "restore", "store", "compare"}

\* A report the worker scoped (a fixture's, or the local command's) lists no
\* finding outside the families of the service it is stored under, and a fixture
\* of the primary service lists them all: the audits of other services, and the
\* runs that raised, leave nothing behind (worker.py run_submission).
ReportsKeepTheirScope ==
    \A a \in AuditId : audits[a].status # "none" =>
        LET r == audits[a].report
            scope == Active(ScopeOf[audits[a].submission.service])
        IN /\ r.writer \in {"fixture", "command"} => r.findings \subseteq scope
           /\ r.writer = "fixture" => r.findings = scope

\* Between requests the worker runs the detectors it was configured with.
WorkerIsRestored == (\A h \in RequestThread : thread[h] = Free) => forge = AllFamilies

\* Every service is audited with its own detectors: SubmissionTypeOK,
\* ReportsKeepTheirScope and WorkerIsRestored.
ScopeInvariant == SubmissionTypeOK /\ ReportsKeepTheirScope /\ WorkerIsRestored

\* What the head was from a block on.
Since(began) == {history[b] : b \in began..chain.block}

\* Of a claim on a deployed address whose audit read the target, every part of
\* what it read still stood when it was published: since the request to publish
\* began, the head had, each at some block, the target's audited code and, if
\* the target was a proxy, its audited implementation and that one's audited
\* code.  It may be a different block for each part, because every part is read
\* in a call of its own (service.py _assert_snapshot_publishable).
StandsSince(began, seen) ==
    /\ \E head \in Since(began) : head.code[Target] = seen.code
    /\ seen.slot # Nowhere =>
         /\ \E head \in Since(began) : head.slot = seen.slot
         /\ \E head \in Since(began) : head.code[seen.slot] = seen.built

PublishedStandsAtPublish ==
    [][\A a \in AuditId :
         (audits[a].status = "draft" /\ audits'[a].status = "published" /\ Compared(a)) =>
           \E h \in {g \in RequestThread : thread[g].step = "compare"} :
             /\ thread[h].audit = a
             /\ StandsSince(thread[h].snapshot.block, audits[a].snapshot)
      ]_submissionVars
=============================================================================
