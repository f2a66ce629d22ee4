--------------------------- MODULE SubmissionProofs ---------------------------
(***************************************************************************)
(* Proofs about what is published and what it is worth: the creation and   *)
(* publication of audits, the verification of their challenges and the     *)
(* reputation of the auditors, for every set of request threads, audits,   *)
(* services, deployments, targets, policies and auditors.                  *)
(*                                                                         *)
(* What holds with any number of threads is what is published: the target  *)
(* is the one that was audited.  That the reports keep their scope needs   *)
(* one thread at a time, because the worker's backend is shared.           *)
(***************************************************************************)
EXTENDS AuditSubmission, ChallengeVerification, ReputationIndex, SumFacts,
        FiniteSetTheorems, TLAPS

SubmissionSpec == SubmissionInit /\ [][SubmissionNext]_submissionVars

Writer == {"none", "raised", "hosted", "command", "fixture", "deterministic"}
ReportRecord == [writer : Writer, findings : SUBSET Family]
SnapshotRecord ==
  [block : 0 .. MaxBlock, hashed : BOOLEAN, code : Version,
   slot : Implementation \cup {Nowhere}, built : Version]
BusyStep ==
  {"block", "code", "slot", "implementation", "beacon", "runtime", "install",
   "execute", "scope", "restore", "store", "compare"}
ThreadRecord ==
  [step : BusyStep, audit : AuditId, submission : Submissions,
   publishing : BOOLEAN, snapshot : SnapshotRecord, original : SUBSET Family,
   report : ReportRecord]
AuditRecord ==
  [status : {"draft", "published"}, submission : Submissions,
   snapshot : SnapshotRecord, report : ReportRecord]

RecordsTyped ==
  /\ thread \in [RequestThread -> {Free} \cup ThreadRecord]
  /\ audits \in [AuditId -> {NoAudit} \cup AuditRecord]

Identities == [code : [Contract -> Version], slot : Implementation \cup {Nowhere}]

\* The history says of the head what the chain says, and the head is in range.
HistoryIsKept ==
  /\ chain.block \in 1 .. MaxBlock
  /\ [code |-> chain.code, slot |-> chain.slot] \in Identities
  /\ history \in [1 .. MaxBlock -> Identities]
  /\ history[chain.block] = [code |-> chain.code, slot |-> chain.slot]

\* What a publishing thread has read of the target so far was the head's, each
\* part at some block since it began.
ReadsStand(t) ==
  /\ t.step # "block" => t.snapshot.block \in 1 .. chain.block
  /\ t.step \in {"slot", "implementation", "beacon", "compare"} =>
       t.snapshot.hashed /\ \E head \in Since(t.snapshot.block) :
                              head.code[Target] = t.snapshot.code
  /\ t.step \in {"implementation", "beacon", "compare"} /\ t.snapshot.slot # Nowhere =>
       \E head \in Since(t.snapshot.block) : head.slot = t.snapshot.slot
  /\ t.step = "compare" /\ t.snapshot.slot # Nowhere =>
       \E head \in Since(t.snapshot.block) :
         head.code[t.snapshot.slot] = t.snapshot.built

\* A publishing thread holds an audit that is stored; the audit of a creating
\* thread is its own.
ThreadIsKept(t) ==
  /\ t.step = "implementation" => t.snapshot.slot # Nowhere
  /\ t.step = "beacon" => t.snapshot.slot = Nowhere
  /\ IF t.publishing
     THEN /\ t.step \in {"block", "code", "slot", "implementation", "beacon", "compare"}
          /\ audits[t.audit] # NoAudit
          /\ audits[t.audit].submission = t.submission
          /\ IF Compared(t.audit) THEN ReadsStand(t) ELSE t.step = "compare"
     ELSE t.step # "compare" /\ audits[t.audit] = NoAudit

ThreadsAreKept ==
  /\ \A h \in RequestThread : thread[h] # Free => ThreadIsKept(thread[h])
  /\ \A g, h \in RequestThread :
       /\ g # h /\ thread[g] # Free /\ thread[h] # Free
       /\ ~thread[h].publishing
       => thread[g].audit # thread[h].audit

SubmissionCore == RecordsTyped /\ HistoryIsKept /\ ThreadsAreKept

(***************************************************************************)
(* With one request thread, what the worker's backend is at every step.    *)
(***************************************************************************)
ReportKeepsScope(s, report) ==
  LET scope == Active(ScopeOf[s.service])
  IN /\ report.writer \in {"fixture", "command"} => report.findings \subseteq scope
     /\ report.writer = "fixture" => report.findings = scope

BackendIsKept(t) ==
  LET scope == ScopeOf[t.submission.service]
  IN CASE t.step \in {"execute", "scope", "restore"} ->
            /\ t.original = AllFamilies
            /\ forge = scope
            /\ t.step = "scope" => t.report = ReportBy("fixture", Family)
            /\ t.step = "restore" => ReportKeepsScope(t.submission, t.report)
       [] OTHER ->
            /\ forge = AllFamilies
            /\ t.step = "install" => t.original = AllFamilies
            /\ t.step = "store" => ReportKeepsScope(t.submission, t.report)

ScopeCore ==
  /\ SubmissionCore
  /\ setup \in Setups /\ forge \in SUBSET Family
  /\ WorkerIsRestored
  /\ \A h \in RequestThread : thread[h] # Free => BackendIsKept(thread[h])
  /\ ReportsKeepTheirScope

-----------------------------------------------------------------------------
(***************************************************************************)
(* The steps of one thread.                                                *)
(***************************************************************************)

\* A thread that goes on, or ends, without touching an audit.
LEMMA ThreadGoesOn ==
  ASSUME SubmissionCore, NEW h \in RequestThread, thread[h] # Free,
         NEW next, thread' = [thread EXCEPT ![h] = next],
         UNCHANGED <<chain, history, audits>>,
         \/ next = Free
         \/ /\ next \in ThreadRecord
            /\ next.audit = thread[h].audit
            /\ next.publishing = thread[h].publishing
            /\ ThreadIsKept(next)
  PROVE  SubmissionCore'
<1>1. RecordsTyped'
  BY DEF SubmissionCore, RecordsTyped
<1>2. HistoryIsKept'
  BY DEF SubmissionCore, HistoryIsKept, Identities
<1>3. ASSUME NEW g \in RequestThread
      PROVE  (thread[g] # Free => ThreadIsKept(thread[g]))'
  <2>1. CASE g = h
    BY <2>1 DEF SubmissionCore, RecordsTyped, ThreadIsKept, ReadsStand, Compared, Since
  <2>2. CASE g # h
    <3>1. thread'[g] = thread[g]
      BY <2>2 DEF SubmissionCore, RecordsTyped
    <3>2. thread[g] # Free => ThreadIsKept(thread[g])
      BY DEF SubmissionCore, ThreadsAreKept
    <3>3. Since(thread[g].snapshot.block)' = Since(thread[g].snapshot.block)
      BY <3>1 DEF Since
    <3>4. ReadsStand(thread[g]) => ReadsStand(thread[g])'
      BY <3>1, <3>3 DEF ReadsStand
    <3>5. /\ Compared(thread[g].audit)' = Compared(thread[g].audit)
          /\ (audits[thread[g].audit] = audits[thread[g].audit]')
      BY <3>1 DEF Compared
    <3> QED BY <3>1, <3>2, <3>4, <3>5 DEF ThreadIsKept
  <2> QED BY <2>1, <2>2
<1>4. ASSUME NEW f \in RequestThread, NEW g \in RequestThread, f # g,
             thread'[f] # Free, thread'[g] # Free, ~thread'[g].publishing
      PROVE  thread'[f].audit # thread'[g].audit
  BY <1>4 DEF SubmissionCore, RecordsTyped, ThreadsAreKept
<1> QED BY <1>1, <1>2, <1>3, <1>4 DEF SubmissionCore, ThreadsAreKept

\* The head is one of the heads from an earlier block on.
LEMMA HeadIsSince ==
  ASSUME HistoryIsKept, NEW began \in 1 .. chain.block
  PROVE  [code |-> chain.code, slot |-> chain.slot] \in Since(began)
<1>1. chain.block \in began .. chain.block /\ began \in Nat
  BY ChainAssumption DEF HistoryIsKept
<1> QED BY <1>1 DEF Since, HistoryIsKept

\* The reads of the target, and a call to the node that fails.
LEMMA Reads ==
  ASSUME SubmissionCore, NEW h \in RequestThread,
         \/ ReadBlock(h) \/ ReadCode(h) \/ ReadImplementation(h)
         \/ ReadImplementationCode(h) \/ ReadBeacon(h) \/ NodeFails(h)
  PROVE  SubmissionCore'
<1> DEFINE t == thread[h]
           head == [code |-> chain.code, slot |-> chain.slot]
<1>1. t # Free /\ t \in ThreadRecord /\ ThreadIsKept(t)
  BY DEF SubmissionCore, RecordsTyped, ThreadsAreKept, Free, ReadBlock, ReadCode,
         ReadImplementation, ReadImplementationCode, ReadBeacon, NodeFails
<1>2. /\ chain.block \in 1 .. MaxBlock /\ MaxBlock \in Nat
      /\ chain.code \in [Contract -> Version]
      /\ chain.slot \in Implementation \cup {Nowhere}
  BY ChainAssumption DEF SubmissionCore, HistoryIsKept, Identities
<1>3. ASSUME NEW next \in ThreadRecord,
             thread' = [thread EXCEPT ![h] = next], UNCHANGED <<chain, history, audits>>,
             next.audit = t.audit, next.publishing = t.publishing,
             next.submission = t.submission,
             next.step = "implementation" => next.snapshot.slot # Nowhere,
             next.step = "beacon" => next.snapshot.slot = Nowhere,
             t.step \in {"block", "code", "slot", "implementation", "beacon"},
             t.publishing => next.step \in {"block", "code", "slot", "implementation",
                                            "beacon", "compare"},
             ~t.publishing => next.step # "compare",
             t.publishing /\ Compared(t.audit) => ReadsStand(next)
      PROVE  SubmissionCore'
  <2>1. ThreadIsKept(next)
    BY <1>1, <1>3 DEF ThreadIsKept
  <2> QED BY <1>1, <1>3, <2>1, ThreadGoesOn
<1>4. ASSUME t.publishing, t.step # "block", ThreadIsKept(t),
             t.step \in {"block", "code", "slot", "implementation", "beacon"}
      PROVE  t.snapshot.block \in 1 .. chain.block /\ head \in Since(t.snapshot.block)
  <2>1. t.snapshot.block \in 1 .. chain.block
    BY <1>4 DEF ThreadIsKept, ReadsStand
  <2> QED BY <2>1, HeadIsSince DEF SubmissionCore
<1>5. CASE ReadBlock(h)
  <2> DEFINE next == [t EXCEPT !.step = "code", !.snapshot.block = chain.block]
  <2>0. chain.block \in 0 .. MaxBlock /\ chain.block \in 1 .. chain.block
    BY <1>2
  <2>1. next \in ThreadRecord
    BY <1>1, <2>0 DEF ThreadRecord, SnapshotRecord, BusyStep
  <2>2. /\ next.audit = t.audit /\ next.publishing = t.publishing
        /\ next.step = "code" /\ next.snapshot.block = chain.block
        /\ next.submission = t.submission /\ t.step = "block"
    BY <1>1, <1>5 DEF ThreadRecord, SnapshotRecord, ReadBlock
  <2>3. thread' = [thread EXCEPT ![h] = next] /\ UNCHANGED <<chain, history, audits>>
    BY <1>5 DEF ReadBlock, Advance
  <2> HIDE DEF next
  <2>4. ReadsStand(next)
    BY <2>0, <2>2 DEF ReadsStand
  <2> QED BY <1>3, <2>1, <2>2, <2>3, <2>4
<1>6. CASE ReadCode(h)
  <2> DEFINE next == [t EXCEPT !.step = "slot", !.snapshot.hashed = TRUE,
                               !.snapshot.code = chain.code[Target]]
  <2>0. chain.code[Target] \in Version
    BY <1>2 DEF Contract
  <2>1. next \in ThreadRecord
    BY <1>1, <2>0 DEF ThreadRecord, SnapshotRecord, BusyStep
  <2>2. /\ next.audit = t.audit /\ next.publishing = t.publishing
        /\ next.step = "slot" /\ next.snapshot.block = t.snapshot.block
        /\ next.snapshot.hashed /\ next.snapshot.code = head.code[Target]
        /\ next.submission = t.submission /\ t.step = "code"
    BY <1>1, <1>6 DEF ThreadRecord, SnapshotRecord, ReadCode
  <2>3. thread' = [thread EXCEPT ![h] = next] /\ UNCHANGED <<chain, history, audits>>
    BY <1>6 DEF ReadCode, Advance
  <2> HIDE DEF next, head
  <2>4. t.publishing => ReadsStand(next)
    BY <1>1, <1>4, <2>2 DEF ReadsStand
  <2> QED BY <1>3, <2>1, <2>2, <2>3, <2>4
<1>7. CASE ReadImplementation(h)
  <2> DEFINE step == IF chain.slot # Nowhere THEN "implementation" ELSE "beacon"
             next == [t EXCEPT !.step = step, !.snapshot.slot = chain.slot]
  <2>1. next \in ThreadRecord
    BY <1>1, <1>2 DEF ThreadRecord, SnapshotRecord, BusyStep
  <2>2. /\ next.audit = t.audit /\ next.publishing = t.publishing
        /\ next.step = step /\ next.snapshot.block = t.snapshot.block
        /\ next.snapshot.hashed = t.snapshot.hashed
        /\ next.snapshot.code = t.snapshot.code /\ next.snapshot.slot = head.slot
        /\ next.submission = t.submission /\ t.step = "slot" /\ head.slot = chain.slot
    BY <1>1, <1>7 DEF ThreadRecord, SnapshotRecord, ReadImplementation
  <2>3. thread' = [thread EXCEPT ![h] = next] /\ UNCHANGED <<chain, history, audits>>
    BY <1>7 DEF ReadImplementation, Advance
  <2> HIDE DEF next, head
  <2>4. t.publishing /\ Compared(t.audit) => ReadsStand(next)
    BY <1>1, <1>4, <2>2 DEF ReadsStand, ThreadIsKept
  <2> QED BY <1>3, <2>1, <2>2, <2>3, <2>4
<1>8. CASE ReadImplementationCode(h)
  <2> DEFINE step == IF t.publishing THEN "compare" ELSE "runtime"
             next == [t EXCEPT !.step = step, !.snapshot.built = chain.code[t.snapshot.slot]]
  <2>0. chain.code[t.snapshot.slot] \in Version
    BY <1>1, <1>2, <1>8 DEF Contract, ThreadIsKept, ThreadRecord, SnapshotRecord,
       ReadImplementationCode
  <2>1. next \in ThreadRecord
    BY <1>1, <2>0 DEF ThreadRecord, SnapshotRecord, BusyStep
  <2>2. /\ next.audit = t.audit /\ next.publishing = t.publishing
        /\ next.step = step /\ next.snapshot.block = t.snapshot.block
        /\ next.snapshot.hashed = t.snapshot.hashed
        /\ next.snapshot.code = t.snapshot.code /\ next.snapshot.slot = t.snapshot.slot
        /\ next.snapshot.built = head.code[t.snapshot.slot]
        /\ next.submission = t.submission /\ t.step = "implementation"
    BY <1>1, <1>8 DEF ThreadRecord, SnapshotRecord, ReadImplementationCode
  <2>3. thread' = [thread EXCEPT ![h] = next] /\ UNCHANGED <<chain, history, audits>>
    BY <1>8 DEF ReadImplementationCode, AfterSnapshot, Advance
  <2> HIDE DEF next, head
  <2>4. t.publishing /\ Compared(t.audit) => ReadsStand(next)
    BY <1>1, <1>4, <2>2 DEF ReadsStand, ThreadIsKept
  <2> QED BY <1>3, <2>1, <2>2, <2>3, <2>4
<1>9. CASE ReadBeacon(h)
  <2> DEFINE step == IF t.publishing THEN "compare" ELSE "runtime"
             next == [t EXCEPT !.step = step]
  <2>1. next \in ThreadRecord
    BY <1>1 DEF ThreadRecord, SnapshotRecord, BusyStep
  <2>2. /\ next.audit = t.audit /\ next.publishing = t.publishing
        /\ next.step = step /\ next.snapshot = t.snapshot
        /\ next.submission = t.submission /\ t.step = "beacon"
        /\ t.snapshot.slot = Nowhere
    BY <1>1, <1>9 DEF ThreadRecord, SnapshotRecord, ReadBeacon, ThreadIsKept
  <2>3. thread' = [thread EXCEPT ![h] = next] /\ UNCHANGED <<chain, history, audits>>
    BY <1>9 DEF ReadBeacon, AfterSnapshot, Advance
  <2> HIDE DEF next
  <2>4. t.publishing /\ Compared(t.audit) => ReadsStand(next)
    BY <1>1, <2>2 DEF ReadsStand, ThreadIsKept
  <2> QED BY <1>3, <2>1, <2>2, <2>3, <2>4
<1>10. CASE NodeFails(h)
  BY <1>1, <1>10, ThreadGoesOn DEF NodeFails, EndRequest, Advance
<1> QED BY <1>5, <1>6, <1>7, <1>8, <1>9, <1>10

\* The reports that a run may return are reports.
LEMMA OutcomesAreReports ==
  ASSUME NEW detectors \in SUBSET Family, NEW s \in Submissions
  PROVE  /\ \A r \in LiveOutcomes(detectors) :
              /\ r \in ReportRecord /\ r.writer # "fixture"
              /\ r.writer = "command" => r.findings \subseteq Active(detectors)
         /\ s.kind # "demo_fixture" =>
              /\ Fallback(s) \in ReportRecord
              /\ Fallback(s).writer \in {"raised", "deterministic"}
<1>1. ASSUME NEW r \in LiveOutcomes(detectors)
      PROVE  /\ r \in ReportRecord /\ r.writer # "fixture"
             /\ r.writer = "command" => r.findings \subseteq Active(detectors)
  <2>1. Active(detectors) \subseteq Family
    BY DEF Active
  <2>2. PICK writer \in {"none", "raised", "hosted", "command"}, found \in SUBSET Family :
          /\ r = ReportBy(writer, found)
          /\ writer = "command" => found \subseteq Active(detectors)
    <3>1. CASE r \in {ReportBy("none", {}), ReportBy(Failure, {})}
      BY <3>1 DEF Failure, ReportBy
    <3>2. CASE r \in {ReportBy("hosted", found) : found \in SUBSET Family}
      BY <3>2
    <3>3. CASE r \in {ReportBy("command", found) : found \in SUBSET Active(detectors)}
      BY <2>1, <3>3
    <3> QED BY <1>1, <3>1, <3>2, <3>3 DEF LiveOutcomes
  <2> QED BY <2>2 DEF ReportBy, ReportRecord, Writer
<1>2. ASSUME s.kind # "demo_fixture"
      PROVE  /\ Fallback(s) \in ReportRecord
             /\ Fallback(s).writer \in {"raised", "deterministic"}
  <2>1. s.kind \in SubmissionKind
    BY ScopeAssumption
  <2>2. \E writer \in {"raised", "deterministic"}, found \in {{}, Family} :
          Fallback(s) = ReportBy(writer, found)
    <3>1. CASE s.kind = "deployed_address"
      BY <3>1 DEF Fallback, Deterministic
    <3>2. CASE s.kind = "repository_url"
      BY <3>2 DEF Fallback, Deterministic
    <3>3. CASE s.kind = "source_bundle"
      BY <3>3 DEF Fallback, Deterministic
    <3> QED BY <1>2, <2>1, <3>1, <3>2, <3>3 DEF SubmissionKind
  <2> QED BY <2>2 DEF ReportBy, ReportRecord, Writer
<1> QED BY <1>1, <1>2

\* What one run leaves: a fixture's report lists everything until it is scoped,
\* a local scan's nothing outside the detectors that were installed.
LEMMA ExecuteOutcome ==
  ASSUME NEW h \in RequestThread, thread[h] \in ThreadRecord, Execute(h),
         forge \in SUBSET Family
  PROVE  \E report \in ReportRecord :
           /\ thread' = [thread EXCEPT ![h] =
                [thread[h] EXCEPT !.step = IF thread[h].submission.kind = "demo_fixture"
                                           THEN "scope" ELSE "restore",
                                  !.report = report]]
           /\ thread[h].submission.kind = "demo_fixture" =>
                report = ReportBy("fixture", Family)
           /\ thread[h].submission.kind # "demo_fixture" =>
                /\ report.writer # "fixture"
                /\ report.writer = "command" => report.findings \subseteq Active(forge)
<1> DEFINE s == thread[h].submission
<1>1. s \in Submissions
  BY DEF ThreadRecord
<1>2. PICK outcome \in IF s.kind = "demo_fixture" THEN {ReportBy("fixture", Family)}
                       ELSE LiveOutcomes(forge) :
        thread' = [thread EXCEPT ![h] =
          [thread[h] EXCEPT !.step = IF s.kind = "demo_fixture" THEN "scope" ELSE "restore",
                            !.report = IF outcome.writer = "none" THEN Fallback(s)
                                       ELSE outcome]]
  BY DEF Execute, Advance
<1> DEFINE report == IF outcome.writer = "none" THEN Fallback(s) ELSE outcome
<1>3. CASE s.kind = "demo_fixture"
  <2>1. report = ReportBy("fixture", Family) /\ report \in ReportRecord
    BY <1>2, <1>3 DEF ReportBy, ReportRecord, Writer
  <2> QED BY <1>2, <1>3, <2>1
<1>4. CASE s.kind # "demo_fixture"
  <2>1. outcome \in LiveOutcomes(forge)
    BY <1>2, <1>4
  <2>2. /\ report \in ReportRecord /\ report.writer # "fixture"
        /\ report.writer = "command" => report.findings \subseteq Active(forge)
    BY <1>1, <1>4, <2>1, OutcomesAreReports
  <2> HIDE DEF report
  <2> QED BY <1>2, <1>4, <2>2 DEF report
<1> QED BY <1>3, <1>4

\* What the worker does with one submission.
LEMMA Works ==
  ASSUME SubmissionCore, forge \in SUBSET Family, NEW h \in RequestThread,
         RememberRuntime(h) \/ InstallOverrides(h) \/ Execute(h) \/ ApplyScope(h) \/ Restore(h)
  PROVE  SubmissionCore'
<1> DEFINE t == thread[h]
           Working == {"install", "execute", "scope", "restore", "store"}
<1>0. t.step \in {"runtime", "install", "execute", "scope", "restore"}
  BY DEF RememberRuntime, InstallOverrides, Execute, ApplyScope, Restore
<1>1. t # Free /\ t \in ThreadRecord /\ ThreadIsKept(t)
  BY <1>0 DEF SubmissionCore, RecordsTyped, ThreadsAreKept, Free
<1>2. /\ ~t.publishing /\ audits[t.audit] = NoAudit
      /\ UNCHANGED <<chain, history, audits>>
  BY <1>0, <1>1 DEF ThreadIsKept, RememberRuntime, InstallOverrides, Execute,
     ApplyScope, Restore
<1>3. ASSUME NEW next \in ThreadRecord, thread' = [thread EXCEPT ![h] = next],
             next.audit = t.audit, next.publishing = t.publishing, next.step \in Working
      PROVE  SubmissionCore'
  <2>1. ThreadIsKept(next)
    BY <1>2, <1>3 DEF ThreadIsKept
  <2> QED BY <1>1, <1>2, <1>3, <2>1, ThreadGoesOn
<1>4. CASE RememberRuntime(h)
  <2> DEFINE next == [t EXCEPT !.step = "install", !.original = forge]
  <2>1. /\ next \in ThreadRecord /\ next.audit = t.audit
        /\ next.publishing = t.publishing /\ next.step \in Working
    BY <1>1 DEF ThreadRecord, BusyStep
  <2>2. thread' = [thread EXCEPT ![h] = next]
    BY <1>4 DEF RememberRuntime, Advance
  <2> HIDE DEF next
  <2> QED BY <1>3, <2>1, <2>2
<1>5. CASE InstallOverrides(h)
  <2> DEFINE next == [t EXCEPT !.step = "execute"]
  <2>1. /\ next \in ThreadRecord /\ next.audit = t.audit
        /\ next.publishing = t.publishing /\ next.step \in Working
    BY <1>1 DEF ThreadRecord, BusyStep
  <2>2. thread' = [thread EXCEPT ![h] = next]
    BY <1>5 DEF InstallOverrides, Advance
  <2> HIDE DEF next
  <2> QED BY <1>3, <2>1, <2>2
<1>6. CASE Execute(h)
  <2>1. PICK next :
          /\ thread' = [thread EXCEPT ![h] = next]
          /\ \E report \in ReportRecord :
               next = [t EXCEPT !.step = IF t.submission.kind = "demo_fixture"
                                         THEN "scope" ELSE "restore",
                                !.report = report]
    BY <1>1, <1>6, ExecuteOutcome
  <2>2. /\ next \in ThreadRecord /\ next.audit = t.audit
        /\ next.publishing = t.publishing /\ next.step \in Working
    BY <1>1, <2>1 DEF ThreadRecord, BusyStep
  <2> QED BY <1>3, <2>1, <2>2
<1>7. CASE ApplyScope(h)
  <2> DEFINE next == [t EXCEPT !.step = "restore",
                               !.report.findings = @ \cap Active(forge)]
  <2>1. /\ next \in ThreadRecord /\ next.audit = t.audit
        /\ next.publishing = t.publishing /\ next.step \in Working
    BY <1>1 DEF ThreadRecord, BusyStep, ReportRecord
  <2>2. thread' = [thread EXCEPT ![h] = next]
    BY <1>7 DEF ApplyScope, Advance
  <2> HIDE DEF next
  <2> QED BY <1>3, <2>1, <2>2
<1>8. CASE Restore(h) /\ t.report.writer # "raised"
  <2> DEFINE next == [t EXCEPT !.step = "store"]
  <2>1. /\ next \in ThreadRecord /\ next.audit = t.audit
        /\ next.publishing = t.publishing /\ next.step \in Working
    BY <1>1 DEF ThreadRecord, BusyStep
  <2>2. thread' = [thread EXCEPT ![h] = next]
    BY <1>8 DEF Restore, Advance
  <2> HIDE DEF next
  <2> QED BY <1>3, <2>1, <2>2
<1>9. CASE Restore(h) /\ t.report.writer = "raised"
  BY <1>1, <1>2, <1>9, ThreadGoesOn DEF Restore, EndRequest, Advance
<1> QED BY <1>4, <1>5, <1>6, <1>7, <1>8, <1>9

LEMMA NothingRead == NoSnapshot \in SnapshotRecord
<1>1. 0 \in 0 .. MaxBlock
  BY ChainAssumption
<1> QED BY <1>1 DEF NoSnapshot, SnapshotRecord, Version

\* A request to create an audit takes an audit that nobody else is creating.
LEMMA Creates ==
  ASSUME SubmissionCore, NEW h \in RequestThread, CreateAudit(h)
  PROVE  SubmissionCore'
<1>1. PICK a \in AuditId, s \in Submissions :
        /\ audits[a] = NoAudit
        /\ \A g \in RequestThread : thread[g] = Free \/ thread[g].audit # a
        /\ thread' = [thread EXCEPT ![h] =
             [step |-> IF s.kind = "deployed_address" /\ setup.client
                       THEN "block" ELSE "runtime",
              audit |-> a, submission |-> s, publishing |-> FALSE,
              snapshot |-> NoSnapshot, original |-> AllFamilies,
              report |-> ReportBy("none", {})]]
  BY DEF CreateAudit, Advance
<1>2. thread[h] = Free /\ UNCHANGED <<chain, history, audits>>
  BY DEF CreateAudit
<1>3. PICK next \in ThreadRecord :
        /\ thread' = [thread EXCEPT ![h] = next]
        /\ next.audit = a /\ ~next.publishing /\ next.step \in {"block", "runtime"}
  <2>1. NoSnapshot \in SnapshotRecord /\ ReportBy("none", {}) \in ReportRecord
    BY NothingRead DEF ReportBy, ReportRecord, Writer
  <2> DEFINE step == IF s.kind = "deployed_address" /\ setup.client THEN "block" ELSE "runtime"
             next == [step |-> step, audit |-> a, submission |-> s, publishing |-> FALSE,
                      snapshot |-> NoSnapshot, original |-> AllFamilies,
                      report |-> ReportBy("none", {})]
  <2>2. step \in BusyStep /\ step \in {"block", "runtime"} /\ AllFamilies \in SUBSET Family
    BY DEF BusyStep, AllFamilies
  <2> HIDE DEF step
  <2>3. /\ next \in ThreadRecord /\ next.audit = a /\ ~next.publishing
        /\ next.step \in {"block", "runtime"}
    BY <2>1, <2>2 DEF ThreadRecord
  <2>4. thread' = [thread EXCEPT ![h] = next]
    BY <1>1 DEF step
  <2> QED BY <2>3, <2>4
<1>4. RecordsTyped' /\ HistoryIsKept'
  BY <1>2, <1>3 DEF SubmissionCore, RecordsTyped, HistoryIsKept
<1>5. thread'[h] = next /\ \A g \in RequestThread \ {h} : thread'[g] = thread[g]
  BY <1>3 DEF SubmissionCore, RecordsTyped
<1>6. ASSUME NEW g \in RequestThread
      PROVE  (thread[g] # Free => ThreadIsKept(thread[g]))'
  <2>1. CASE g = h
    BY <1>1, <1>2, <1>3, <1>5, <2>1 DEF ThreadIsKept
  <2>2. CASE g # h
    BY <1>2, <1>5, <2>2 DEF SubmissionCore, ThreadsAreKept, ThreadIsKept, ReadsStand,
       Compared, Since
  <2> QED BY <2>1, <2>2
<1>7. ASSUME NEW f \in RequestThread, NEW g \in RequestThread, f # g,
             thread'[f] # Free, thread'[g] # Free, ~thread'[g].publishing
      PROVE  thread'[f].audit # thread'[g].audit
  BY <1>1, <1>3, <1>5, <1>7 DEF SubmissionCore, ThreadsAreKept
<1> QED BY <1>4, <1>6, <1>7 DEF SubmissionCore, ThreadsAreKept

\* The draft that a request stores is its own.
LEMMA Stores ==
  ASSUME SubmissionCore, NEW h \in RequestThread, StoreAudit(h)
  PROVE  SubmissionCore'
<1> DEFINE t == thread[h]
<1>1. t # Free /\ t \in ThreadRecord /\ ThreadIsKept(t) /\ t.step = "store"
  BY DEF SubmissionCore, RecordsTyped, ThreadsAreKept, Free, StoreAudit
<1>2. ~t.publishing /\ audits[t.audit] = NoAudit
  BY <1>1 DEF ThreadIsKept
<1>3. thread' = [thread EXCEPT ![h] = Free] /\ UNCHANGED <<chain, history>>
  BY DEF StoreAudit, EndRequest, Advance
<1>4. PICK record \in AuditRecord \cup {NoAudit} :
        audits' = [audits EXCEPT ![t.audit] = record]
  <2> DEFINE draft == [status |-> "draft", submission |-> t.submission,
                       snapshot |-> t.snapshot, report |-> t.report]
  <2>1. draft \in AuditRecord
    BY <1>1 DEF ThreadRecord, AuditRecord
  <2>2. \/ audits' = [audits EXCEPT ![t.audit] = draft]
        \/ audits' = audits
    BY DEF StoreAudit
  <2>3. audits = [audits EXCEPT ![t.audit] = NoAudit]
    BY <1>2 DEF SubmissionCore, RecordsTyped
  <2> HIDE DEF draft
  <2> QED BY <2>1, <2>2, <2>3
<1>5. RecordsTyped' /\ HistoryIsKept'
  BY <1>3, <1>4 DEF SubmissionCore, RecordsTyped, HistoryIsKept
<1>6. thread'[h] = Free /\ \A g \in RequestThread \ {h} : thread'[g] = thread[g]
  BY <1>3 DEF SubmissionCore, RecordsTyped
<1>7. ASSUME NEW g \in RequestThread
      PROVE  (thread[g] # Free => ThreadIsKept(thread[g]))'
  <2>1. CASE g # h /\ thread[g] # Free
    <3>1. thread[g].audit # t.audit /\ ThreadIsKept(thread[g]) /\ thread[g] \in ThreadRecord
      BY <1>1, <1>2, <2>1 DEF SubmissionCore, RecordsTyped, ThreadsAreKept
    <3>2. audits'[thread[g].audit] = audits[thread[g].audit]
      BY <1>4, <3>1 DEF SubmissionCore, RecordsTyped, ThreadRecord
    <3> QED BY <1>3, <1>6, <2>1, <3>1, <3>2 DEF ThreadIsKept, ReadsStand, Compared, Since
  <2> QED BY <1>6, <2>1
<1>8. ASSUME NEW f \in RequestThread, NEW g \in RequestThread, f # g,
             thread'[f] # Free, thread'[g] # Free, ~thread'[g].publishing
      PROVE  thread'[f].audit # thread'[g].audit
  BY <1>6, <1>8 DEF SubmissionCore, ThreadsAreKept
<1> QED BY <1>5, <1>7, <1>8 DEF SubmissionCore, ThreadsAreKept

\* A request to publish takes a stored draft.
LEMMA BeginsPublish ==
  ASSUME SubmissionCore, NEW h \in RequestThread, BeginPublish(h)
  PROVE  SubmissionCore'
<1>1. PICK a \in AuditId :
        /\ audits[a].status = "draft"
        /\ thread' = [thread EXCEPT ![h] =
             [step |-> IF Compared(a) THEN "block" ELSE "compare",
              audit |-> a, submission |-> audits[a].submission,
              publishing |-> TRUE, snapshot |-> NoSnapshot,
              original |-> AllFamilies, report |-> audits[a].report]]
  BY DEF BeginPublish, Advance
<1>2. thread[h] = Free /\ UNCHANGED <<chain, history, audits>>
  BY DEF BeginPublish
<1>3. audits[a] # NoAudit /\ audits[a] \in AuditRecord
  BY <1>1 DEF SubmissionCore, RecordsTyped, NoAudit
<1>4. PICK next \in ThreadRecord :
        /\ thread' = [thread EXCEPT ![h] = next]
        /\ next.audit = a /\ next.publishing
        /\ next.submission = audits[a].submission
        /\ next.step = IF Compared(a) THEN "block" ELSE "compare"
  <2> DEFINE step == IF Compared(a) THEN "block" ELSE "compare"
             next == [step |-> step, audit |-> a, submission |-> audits[a].submission,
                      publishing |-> TRUE, snapshot |-> NoSnapshot,
                      original |-> AllFamilies, report |-> audits[a].report]
  <2>1. step \in BusyStep /\ AllFamilies \in SUBSET Family
    BY DEF BusyStep, AllFamilies
  <2>2. audits[a].submission \in Submissions /\ audits[a].report \in ReportRecord
    BY <1>3 DEF AuditRecord
  <2>3. thread' = [thread EXCEPT ![h] = next]
    BY <1>1
  <2>4. next.audit = a /\ next.publishing /\ next.submission = audits[a].submission
        /\ next.step = step
    OBVIOUS
  <2> HIDE DEF step
  <2>5. next \in ThreadRecord
    BY <2>1, <2>2, NothingRead DEF ThreadRecord
  <2> QED BY <2>3, <2>4, <2>5 DEF step
<1>5. RecordsTyped' /\ HistoryIsKept'
  BY <1>2, <1>4 DEF SubmissionCore, RecordsTyped, HistoryIsKept
<1>6. thread'[h] = next /\ \A g \in RequestThread \ {h} : thread'[g] = thread[g]
  BY <1>4 DEF SubmissionCore, RecordsTyped
<1>7. ASSUME NEW g \in RequestThread
      PROVE  (thread[g] # Free => ThreadIsKept(thread[g]))'
  <2>1. CASE g = h
    BY <1>2, <1>3, <1>4, <1>6, <2>1 DEF ThreadIsKept, ReadsStand, Compared
  <2>2. CASE g # h
    BY <1>2, <1>6, <2>2 DEF SubmissionCore, ThreadsAreKept, ThreadIsKept, ReadsStand,
       Compared, Since
  <2> QED BY <2>1, <2>2
<1>8. ASSUME NEW f \in RequestThread, NEW g \in RequestThread, f # g,
             thread'[f] # Free, thread'[g] # Free, ~thread'[g].publishing
      PROVE  thread'[f].audit # thread'[g].audit
  <2>1. g # h /\ thread[g] # Free /\ thread'[g] = thread[g]
    BY <1>4, <1>6, <1>8
  <2>2. CASE f = h
    <3>1. audits[thread[g].audit] = NoAudit
      BY <1>8, <2>1 DEF SubmissionCore, ThreadsAreKept, ThreadIsKept
    <3> QED BY <1>3, <1>4, <1>6, <2>1, <2>2, <3>1
  <2>3. CASE f # h
    BY <1>6, <1>8, <2>1, <2>3 DEF SubmissionCore, ThreadsAreKept
  <2> QED BY <2>2, <2>3
<1> QED BY <1>5, <1>7, <1>8 DEF SubmissionCore, ThreadsAreKept

\* What a comparison writes is the status of the audit it publishes.
LEMMA Compares ==
  ASSUME SubmissionCore, NEW h \in RequestThread, ComparePublish(h)
  PROVE  SubmissionCore'
<1> DEFINE t == thread[h]
           a == t.audit
<1>1. t # Free /\ t \in ThreadRecord /\ ThreadIsKept(t) /\ t.step = "compare"
  BY DEF SubmissionCore, RecordsTyped, ThreadsAreKept, Free, ComparePublish
<1>2. t.publishing /\ audits[a] # NoAudit /\ audits[a] \in AuditRecord /\ a \in AuditId
  BY <1>1 DEF ThreadIsKept, ThreadRecord, SubmissionCore, RecordsTyped
<1>3. thread' = [thread EXCEPT ![h] = Free] /\ UNCHANGED <<chain, history>>
  BY DEF ComparePublish, EndRequest, Advance
<1>4. PICK record \in AuditRecord :
        /\ audits' = [audits EXCEPT ![a] = record]
        /\ record.submission = audits[a].submission
        /\ record.snapshot = audits[a].snapshot
  <2> DEFINE standing == [audits[a] EXCEPT !.status = "published"]
  <2>1. /\ standing \in AuditRecord /\ standing.submission = audits[a].submission
        /\ standing.snapshot = audits[a].snapshot
    BY <1>2 DEF AuditRecord
  <2>2. \/ audits' = [audits EXCEPT ![a] = standing]
        \/ audits' = audits
    BY DEF ComparePublish
  <2>3. audits = [audits EXCEPT ![a] = audits[a]]
    BY <1>2 DEF SubmissionCore, RecordsTyped
  <2> HIDE DEF standing
  <2> QED BY <1>2, <2>1, <2>2, <2>3
<1>5. RecordsTyped' /\ HistoryIsKept'
  BY <1>3, <1>4 DEF SubmissionCore, RecordsTyped, HistoryIsKept
<1>6. thread'[h] = Free /\ \A g \in RequestThread \ {h} : thread'[g] = thread[g]
  BY <1>3 DEF SubmissionCore, RecordsTyped
<1>7. record # NoAudit
  BY <1>4 DEF AuditRecord, NoAudit
<1>8. ASSUME NEW g \in RequestThread
      PROVE  (thread[g] # Free => ThreadIsKept(thread[g]))'
  <2>1. CASE g # h /\ thread[g] # Free
    <3>1. ThreadIsKept(thread[g]) /\ thread[g] \in ThreadRecord
      BY <2>1 DEF SubmissionCore, RecordsTyped, ThreadsAreKept
    <3>2. ~thread[g].publishing => thread[g].audit # a
      BY <1>1, <2>1 DEF SubmissionCore, ThreadsAreKept
    <3>3. CASE thread[g].audit # a
      <4>1. audits'[thread[g].audit] = audits[thread[g].audit]
        BY <1>4, <3>1, <3>3 DEF SubmissionCore, RecordsTyped, ThreadRecord
      <4> QED BY <1>3, <1>6, <2>1, <3>1, <4>1 DEF ThreadIsKept, ReadsStand, Compared, Since
    <3>4. CASE thread[g].audit = a
      <4>1. /\ audits'[thread[g].audit] # NoAudit
            /\ audits'[thread[g].audit].submission = audits[thread[g].audit].submission
            /\ audits'[thread[g].audit].snapshot = audits[thread[g].audit].snapshot
        BY <1>2, <1>4, <1>7, <3>4 DEF SubmissionCore, RecordsTyped
      <4> QED BY <1>3, <1>6, <2>1, <3>1, <3>2, <3>4, <4>1
                DEF ThreadIsKept, ReadsStand, Compared, Since
    <3> QED BY <3>3, <3>4
  <2> QED BY <1>6, <2>1
<1>9. ASSUME NEW f \in RequestThread, NEW g \in RequestThread, f # g,
             thread'[f] # Free, thread'[g] # Free, ~thread'[g].publishing
      PROVE  thread'[f].audit # thread'[g].audit
  BY <1>6, <1>9 DEF SubmissionCore, ThreadsAreKept
<1> QED BY <1>5, <1>8, <1>9 DEF SubmissionCore, ThreadsAreKept

\* A block changes nothing of what was there before it.
LEMMA BlocksAreAdded ==
  ASSUME SubmissionCore, NewBlock
  PROVE  SubmissionCore'
<1> DEFINE now == [code |-> chain.code, slot |-> chain.slot]
<1>1. /\ chain.block \in 1 .. MaxBlock /\ chain.block + 1 \in 1 .. MaxBlock
      /\ now \in Identities
  <2>1. chain.block \in 1 .. MaxBlock /\ now \in Identities
    BY DEF SubmissionCore, HistoryIsKept
  <2>2. chain.block < MaxBlock
    BY DEF NewBlock
  <2> QED BY <2>1, <2>2, ChainAssumption
<1>2. chain'.block = chain.block + 1 /\ HeadIdentity \in Identities
  <2>1. ASSUME NEW c \in Contract, NEW v \in Version,
               chain' = [chain EXCEPT !.block = @ + 1, !.code[c] = v]
        PROVE  chain'.block = chain.block + 1 /\ HeadIdentity \in Identities
    BY <1>1, <2>1 DEF Identities, HeadIdentity
  <2>2. ASSUME NEW i \in Implementation \cup {Nowhere},
               chain' = [chain EXCEPT !.block = @ + 1, !.slot = i]
        PROVE  chain'.block = chain.block + 1 /\ HeadIdentity \in Identities
    BY <1>1, <2>2 DEF Identities, HeadIdentity
  <2> QED BY <2>1, <2>2 DEF NewBlock
<1>3. history' = [history EXCEPT ![chain.block + 1] = HeadIdentity]
  BY DEF NewBlock
<1>4. HistoryIsKept'
  BY <1>1, <1>2, <1>3 DEF SubmissionCore, HistoryIsKept, HeadIdentity
<1>5. UNCHANGED <<thread, audits>>
  BY DEF NewBlock
<1>6. ASSUME NEW began \in 1 .. chain.block
      PROVE  began \in 1 .. chain'.block /\ Since(began) \subseteq Since(began)'
  <2>1. began \in 1 .. chain'.block
    BY <1>1, <1>2
  <2>2. ASSUME NEW b \in began .. chain.block
        PROVE  b \in began .. chain'.block /\ history'[b] = history[b]
    BY <1>1, <1>2, <1>3 DEF SubmissionCore, HistoryIsKept
  <2> QED BY <2>1, <2>2 DEF Since
<1>7. ASSUME NEW h \in RequestThread
      PROVE  (thread[h] # Free => ThreadIsKept(thread[h]))'
  <2> DEFINE t == thread[h]
  <2>1. CASE t # Free /\ t.publishing /\ Compared(t.audit) /\ t.step # "block"
    <3>1. ThreadIsKept(t) /\ ReadsStand(t) /\ t.snapshot.block \in 1 .. chain.block
      BY <2>1 DEF SubmissionCore, ThreadsAreKept, ThreadIsKept, ReadsStand
    <3>2. PICK began : began = t.snapshot.block
      OBVIOUS
    <3>3. began \in 1 .. chain'.block /\ Since(began) \subseteq Since(began)'
      BY <1>6, <3>1, <3>2
    <3>4. ReadsStand(t)'
      BY <1>5, <3>1, <3>2, <3>3 DEF ReadsStand, Since
    <3> QED BY <1>5, <2>1, <3>1, <3>4 DEF ThreadIsKept, Compared
  <2>2. CASE t # Free /\ ~(t.publishing /\ Compared(t.audit) /\ t.step # "block")
    BY <1>5, <2>2 DEF SubmissionCore, ThreadsAreKept, ThreadIsKept, ReadsStand, Compared
  <2> QED BY <1>5, <2>1, <2>2
<1>8. RecordsTyped'
  BY <1>5 DEF SubmissionCore, RecordsTyped
<1> QED BY <1>4, <1>5, <1>7, <1>8 DEF SubmissionCore, ThreadsAreKept

\* A start of the process only ends the requests.
LEMMA Restarts ==
  ASSUME SubmissionCore, Restart
  PROVE  SubmissionCore' /\ forge' = AllFamilies
<1>1. \A h \in RequestThread : thread'[h] = Free
  BY DEF Restart
<1> QED BY <1>1 DEF Restart, SubmissionCore, RecordsTyped, HistoryIsKept, ThreadsAreKept

-----------------------------------------------------------------------------
(***************************************************************************)
(* Publication, with any number of threads.                                *)
(***************************************************************************)
LEMMA CoreHoldsFirst == SubmissionInit => SubmissionCore /\ setup \in Setups /\ forge = AllFamilies
<1> SUFFICES ASSUME SubmissionInit PROVE SubmissionCore
  BY DEF SubmissionInit
<1>1. /\ chain.block = 1 /\ 1 \in 1 .. MaxBlock
      /\ [code |-> chain.code, slot |-> chain.slot] \in Identities
  BY ChainAssumption DEF SubmissionInit, Identities, Version
<1>2. HistoryIsKept
  BY <1>1 DEF SubmissionInit, HistoryIsKept
<1>3. RecordsTyped /\ ThreadsAreKept
  BY DEF SubmissionInit, RecordsTyped, ThreadsAreKept
<1> QED BY <1>2, <1>3 DEF SubmissionCore

\* The backend is always one of detectors.
LEMMA BackendIsTyped ==
  ASSUME SubmissionCore, forge \in SUBSET Family, [SubmissionNext]_submissionVars,
         \A h \in RequestThread : thread[h] # Free => thread[h].original \in SUBSET Family
  PROVE  forge' \in SUBSET Family
<1>1. ASSUME NEW h \in RequestThread, InstallOverrides(h)
      PROVE  forge' \in SUBSET Family
  <2>1. thread[h] \in ThreadRecord
    BY <1>1 DEF SubmissionCore, RecordsTyped, InstallOverrides, Free
  <2>2. Overrides(h) \subseteq Family
    BY <2>1, ScopeAssumption DEF ThreadRecord, Overrides
  <2> QED BY <1>1, <2>2 DEF InstallOverrides
<1>2. ASSUME NEW h \in RequestThread, Restore(h)
      PROVE  forge' \in SUBSET Family
  BY <1>2 DEF Restore, Restored, Free
<1>3. CASE forge' = forge
  BY <1>3
<1>4. CASE Restart
  BY <1>4 DEF Restart, AllFamilies
<1> QED
  BY <1>1, <1>2, <1>3, <1>4
  DEF SubmissionNext, SubmissionStep, submissionVars, NewBlock, CreateAudit, ReadBlock,
      ReadCode, ReadImplementation, ReadImplementationCode, ReadBeacon, NodeFails,
      RememberRuntime, Execute, ApplyScope, StoreAudit, BeginPublish, ComparePublish

LEMMA CoreIsKept ==
  ASSUME SubmissionCore, forge \in SUBSET Family, [SubmissionNext]_submissionVars
  PROVE  SubmissionCore' /\ forge' \in SUBSET Family
<1>1. SubmissionCore'
  <2>1. ASSUME NEW h \in RequestThread, SubmissionStep(h)
        PROVE  SubmissionCore'
    BY <2>1, Reads, Works, Creates, Stores, BeginsPublish, Compares DEF SubmissionStep
  <2>2. CASE UNCHANGED submissionVars
    BY <2>2 DEF submissionVars, SubmissionCore, RecordsTyped, HistoryIsKept,
       ThreadsAreKept, ThreadIsKept, ReadsStand, Compared, Since
  <2> QED BY <2>1, <2>2, BlocksAreAdded, Restarts DEF SubmissionNext
<1>2. \A h \in RequestThread : thread[h] # Free => thread[h].original \in SUBSET Family
  BY DEF SubmissionCore, RecordsTyped, ThreadRecord
<1> QED BY <1>1, <1>2, BackendIsTyped

\* The only step that publishes is a comparison that found the audited target.
LEMMA PublishingCompares ==
  ASSUME SubmissionCore, [SubmissionNext]_submissionVars, NEW a \in AuditId,
         audits[a].status = "draft", audits'[a].status = "published"
  PROVE  \E h \in RequestThread :
           /\ ComparePublish(h) /\ thread[h].audit = a
           /\ ~Compared(a) \/ SameIdentity(audits[a].snapshot, thread[h].snapshot)
<1>1. audits' # audits
  OBVIOUS
<1>2. \A h \in RequestThread : ~StoreAudit(h)
  <2>1. ASSUME NEW h \in RequestThread, StoreAudit(h)
        PROVE  FALSE
    <3>1. audits[thread[h].audit] = NoAudit
      BY <2>1 DEF SubmissionCore, ThreadsAreKept, ThreadIsKept, StoreAudit, Free
    <3>2. a # thread[h].audit
      BY <3>1 DEF NoAudit
    <3> QED BY <2>1, <3>2 DEF SubmissionCore, RecordsTyped, StoreAudit
  <2> QED BY <2>1
<1>3. PICK h \in RequestThread : ComparePublish(h)
  BY <1>1, <1>2
  DEF SubmissionNext, SubmissionStep, submissionVars, NewBlock, CreateAudit, ReadBlock,
      ReadCode, ReadImplementation, ReadImplementationCode, ReadBeacon, NodeFails,
      RememberRuntime, InstallOverrides, Execute, ApplyScope, Restore, BeginPublish, Restart
<1>4. /\ thread[h].audit = a
      /\ ~Compared(a) \/ SameIdentity(audits[a].snapshot, thread[h].snapshot)
  BY <1>1, <1>3 DEF SubmissionCore, RecordsTyped, ComparePublish
<1> QED BY <1>3, <1>4

\* Whatever the requests do, and whatever the target becomes between the reads
\* of one of them, a claim on a deployed address whose audit read the target is
\* published only if the head had, since the request to publish began, the code
\* that was audited, the implementation that was audited and its code, each of
\* them at some block (service.py _assert_snapshot_publishable).
THEOREM PublicationStandsAtPublish ==
  SubmissionSpec => PublishedStandsAtPublish
<1> DEFINE Standing ==
      \A a \in AuditId :
         (audits[a].status = "draft" /\ audits'[a].status = "published" /\ Compared(a)) =>
           \E h \in {g \in RequestThread : thread[g].step = "compare"} :
             /\ thread[h].audit = a
             /\ StandsSince(thread[h].snapshot.block, audits[a].snapshot)
<1>1. SubmissionInit => SubmissionCore /\ forge \in SUBSET Family
  BY CoreHoldsFirst DEF AllFamilies
<1>2. SubmissionCore /\ forge \in SUBSET Family /\ [SubmissionNext]_submissionVars
        => SubmissionCore' /\ (forge \in SUBSET Family)'
  BY CoreIsKept
<1>3. SubmissionCore /\ [SubmissionNext]_submissionVars => [Standing]_submissionVars
  <2> SUFFICES ASSUME SubmissionCore, [SubmissionNext]_submissionVars,
                      NEW a \in AuditId, audits[a].status = "draft",
                      audits'[a].status = "published", Compared(a)
               PROVE  \E h \in {g \in RequestThread : thread[g].step = "compare"} :
                        /\ thread[h].audit = a
                        /\ StandsSince(thread[h].snapshot.block, audits[a].snapshot)
    OBVIOUS
  <2>1. PICK h \in RequestThread :
          /\ ComparePublish(h) /\ thread[h].audit = a
          /\ ~Compared(a) \/ SameIdentity(audits[a].snapshot, thread[h].snapshot)
    BY PublishingCompares
  <2>2. /\ thread[h].step = "compare" /\ thread[h] # Free
        /\ ThreadIsKept(thread[h])
    BY <2>1 DEF ComparePublish, Free, SubmissionCore, ThreadsAreKept
  <2>3. ReadsStand(thread[h])
    BY <2>1, <2>2 DEF ThreadIsKept
  <2>4. StandsSince(thread[h].snapshot.block, audits[a].snapshot)
    BY <2>1, <2>2, <2>3 DEF SameIdentity, StandsSince, ReadsStand
  <2> QED BY <2>1, <2>2, <2>4
<1> QED BY <1>1, <1>2, <1>3, PTL DEF SubmissionSpec, PublishedStandsAtPublish

-----------------------------------------------------------------------------
(***************************************************************************)
(* The scope of the reports, with one request thread at a time.            *)
(***************************************************************************)
OneRequest == \A g, h \in RequestThread : g = h

\* One thread moves; the audits that are stored keep their scope.
LEMMA ScopeMoves ==
  ASSUME OneRequest, ScopeCore, SubmissionCore', forge' \in SUBSET Family, setup' = setup,
         NEW h \in RequestThread, NEW next, thread' = [thread EXCEPT ![h] = next],
         \/ next = Free /\ forge' = AllFamilies
         \/ next # Free /\ BackendIsKept(next)',
         ReportsKeepTheirScope'
  PROVE  ScopeCore'
<1>1. thread'[h] = next /\ \A g \in RequestThread : g = h
  BY DEF OneRequest, ScopeCore, SubmissionCore, RecordsTyped
<1>2. WorkerIsRestored'
  BY <1>1 DEF WorkerIsRestored
<1>3. ASSUME NEW g \in RequestThread
      PROVE  (thread[g] # Free => BackendIsKept(thread[g]))'
  BY <1>1 DEF BackendIsKept
<1> QED BY <1>2, <1>3 DEF ScopeCore

\* The steps of a thread that write no audit.
LEMMA ScopeIsKeptByWork ==
  ASSUME OneRequest, ScopeCore, SubmissionCore', forge' \in SUBSET Family,
         NEW h \in RequestThread,
         \/ RememberRuntime(h) \/ InstallOverrides(h) \/ Execute(h)
         \/ ApplyScope(h) \/ Restore(h)
  PROVE  ScopeCore'
<1> DEFINE t == thread[h]
           scope == ScopeOf[t.submission.service]
<1>0. t.step \in {"runtime", "install", "execute", "scope", "restore"}
  BY DEF RememberRuntime, InstallOverrides, Execute, ApplyScope, Restore
<1>1. t # Free /\ t \in ThreadRecord /\ BackendIsKept(t)
  BY <1>0 DEF ScopeCore, SubmissionCore, RecordsTyped, Free
<1>2. scope \subseteq Family
  BY <1>1, ScopeAssumption DEF ThreadRecord
<1>3. setup' = setup /\ ReportsKeepTheirScope'
  BY DEF ScopeCore, ReportsKeepTheirScope, RememberRuntime, InstallOverrides, Execute,
     ApplyScope, Restore
<1>4. ASSUME NEW next, thread' = [thread EXCEPT ![h] = next],
             next # Free, BackendIsKept(next)'
      PROVE  ScopeCore'
  BY <1>3, <1>4, ScopeMoves
<1>5. CASE RememberRuntime(h)
  <2> DEFINE next == [t EXCEPT !.step = "install", !.original = forge]
  <2>1. forge' = AllFamilies /\ forge = AllFamilies
    BY <1>1, <1>5 DEF BackendIsKept, RememberRuntime
  <2>2. next.step = "install" /\ next.original = AllFamilies
    BY <1>1, <2>1 DEF ThreadRecord
  <2>3. thread' = [thread EXCEPT ![h] = next]
    BY <1>5 DEF RememberRuntime, Advance
  <2>4. PICK n : n = next
    OBVIOUS
  <2> HIDE DEF next
  <2>5. n # Free
    BY <2>2, <2>4 DEF Free
  <2>6. BackendIsKept(n)'
    BY <2>1, <2>2, <2>3, <2>4 DEF BackendIsKept, ReportKeepsScope
  <2>7. thread' = [thread EXCEPT ![h] = n]
    BY <2>3, <2>4
  <2> QED BY <1>4, <2>5, <2>6, <2>7
<1>6. CASE InstallOverrides(h)
  <2> DEFINE next == [t EXCEPT !.step = "execute"]
  <2>1. /\ forge = AllFamilies /\ t.original = AllFamilies
        /\ forge' = IF scope = {} THEN forge ELSE scope
    BY <1>1, <1>6 DEF BackendIsKept, InstallOverrides, Overrides
  <2>2. /\ next.step = "execute" /\ next.original = AllFamilies
        /\ next.submission = t.submission /\ forge' = scope
    BY <1>1, <2>1 DEF ThreadRecord, AllFamilies
  <2>3. thread' = [thread EXCEPT ![h] = next]
    BY <1>6 DEF InstallOverrides, Advance
  <2>4. PICK n : n = next
    OBVIOUS
  <2> HIDE DEF next
  <2>5. n # Free
    BY <2>2, <2>4 DEF Free
  <2>6. BackendIsKept(n)'
    BY <2>2, <2>3, <2>4 DEF BackendIsKept, ReportKeepsScope
  <2>7. thread' = [thread EXCEPT ![h] = n]
    BY <2>3, <2>4
  <2> QED BY <1>4, <2>5, <2>6, <2>7
<1>7. CASE Execute(h)
  <2>1. forge = scope /\ t.original = AllFamilies /\ forge' = forge
    BY <1>1, <1>7 DEF BackendIsKept, Execute
  <2>2. PICK report \in ReportRecord :
          /\ thread' = [thread EXCEPT ![h] =
               [t EXCEPT !.step = IF t.submission.kind = "demo_fixture"
                                  THEN "scope" ELSE "restore",
                         !.report = report]]
          /\ t.submission.kind = "demo_fixture" => report = ReportBy("fixture", Family)
          /\ t.submission.kind # "demo_fixture" =>
               /\ report.writer # "fixture"
               /\ report.writer = "command" => report.findings \subseteq Active(forge)
    BY <1>1, <1>2, <1>7, <2>1, ExecuteOutcome
  <2> DEFINE step == IF t.submission.kind = "demo_fixture" THEN "scope" ELSE "restore"
             next == [t EXCEPT !.step = step, !.report = report]
  <2>3. /\ next.step = step /\ next.original = AllFamilies
        /\ next.submission = t.submission /\ next.report = report
    BY <1>1, <2>1 DEF ThreadRecord
  <2>4. ReportKeepsScope(t.submission, report) \/ step = "scope"
    BY <2>1, <2>2 DEF ReportKeepsScope
  <2>5. thread' = [thread EXCEPT ![h] = next]
    BY <2>2
  <2>6. PICK n : n = next
    OBVIOUS
  <2> HIDE DEF next
  <2>7. n # Free
    BY <2>3, <2>6 DEF Free
  <2>8. BackendIsKept(n)'
    BY <2>1, <2>2, <2>3, <2>4, <2>5, <2>6 DEF BackendIsKept, ReportKeepsScope
  <2>9. thread' = [thread EXCEPT ![h] = n]
    BY <2>5, <2>6
  <2> QED BY <1>4, <2>7, <2>8, <2>9
<1>8. CASE ApplyScope(h)
  <2> DEFINE report == [t.report EXCEPT !.findings = @ \cap Active(forge)]
             next == [t EXCEPT !.step = "restore", !.report = report]
  <2>1. /\ forge = scope /\ t.original = AllFamilies /\ forge' = forge
        /\ t.report = ReportBy("fixture", Family)
    BY <1>1, <1>8 DEF BackendIsKept, ApplyScope
  <2>2. Active(scope) \subseteq Family
    BY DEF Active
  <2>3. report.writer = "fixture" /\ report.findings = Active(scope)
    BY <2>1, <2>2 DEF ReportBy
  <2>4. /\ next.step = "restore" /\ next.original = AllFamilies
        /\ next.submission = t.submission /\ next.report = report
    BY <1>1, <2>1 DEF ThreadRecord
  <2>5. thread' = [thread EXCEPT ![h] = next]
    BY <1>1, <1>8 DEF ApplyScope, Advance, ThreadRecord
  <2>6. PICK n : n = next
    OBVIOUS
  <2> HIDE DEF next, report
  <2>7. n # Free
    BY <2>4, <2>6 DEF Free
  <2>8. BackendIsKept(n)'
    BY <2>1, <2>3, <2>4, <2>5, <2>6 DEF BackendIsKept, ReportKeepsScope
  <2>9. thread' = [thread EXCEPT ![h] = n]
    BY <2>5, <2>6
  <2> QED BY <1>4, <2>7, <2>8, <2>9
<1>9. CASE Restore(h)
  <2>1. /\ forge = scope /\ t.original = AllFamilies
        /\ ReportKeepsScope(t.submission, t.report)
        /\ forge' = IF scope = {} THEN forge ELSE t.original
    BY <1>1, <1>9 DEF BackendIsKept, Restore, Overrides, Restored
  <2>2. forge' = AllFamilies
    BY <2>1 DEF AllFamilies
  <2> DEFINE next == [t EXCEPT !.step = "store"]
  <2>3. CASE t.report.writer = "raised"
    <3>1. thread' = [thread EXCEPT ![h] = Free]
      BY <1>9, <2>3 DEF Restore, EndRequest, Advance
    <3> QED BY <1>3, <2>2, <3>1, ScopeMoves
  <2>4. CASE t.report.writer # "raised"
    <3>1. /\ next.step = "store" /\ next.submission = t.submission
          /\ next.report = t.report
      BY <1>1 DEF ThreadRecord
    <3>2. thread' = [thread EXCEPT ![h] = next]
      BY <1>9, <2>4 DEF Restore, Advance
    <3>3. PICK n : n = next
      OBVIOUS
    <3> HIDE DEF next
    <3>4. n # Free
      BY <3>1, <3>3 DEF Free
    <3>5. BackendIsKept(n)'
      BY <2>1, <2>2, <3>1, <3>2, <3>3 DEF BackendIsKept, ReportKeepsScope
    <3>6. thread' = [thread EXCEPT ![h] = n]
      BY <3>2, <3>3
    <3> QED BY <1>4, <3>4, <3>5, <3>6
  <2> QED BY <2>3, <2>4
<1> QED BY <1>5, <1>6, <1>7, <1>8, <1>9

\* The steps of a thread that have nothing to do with the backend.
LEMMA ScopeIsKeptBesides ==
  ASSUME OneRequest, ScopeCore, SubmissionCore', forge' \in SUBSET Family,
         NEW h \in RequestThread,
         \/ CreateAudit(h) \/ ReadBlock(h) \/ ReadCode(h) \/ ReadImplementation(h)
         \/ ReadImplementationCode(h) \/ ReadBeacon(h) \/ NodeFails(h) \/ BeginPublish(h)
  PROVE  ScopeCore'
<1>1. /\ setup' = setup /\ forge' = forge /\ audits' = audits
      /\ ReportsKeepTheirScope'
  BY DEF ScopeCore, ReportsKeepTheirScope, CreateAudit, ReadBlock, ReadCode,
     ReadImplementation, ReadImplementationCode, ReadBeacon, NodeFails, BeginPublish
<1>2. forge = AllFamilies
  <2>1. CASE thread[h] = Free
    BY <2>1 DEF ScopeCore, OneRequest, WorkerIsRestored
  <2>2. CASE thread[h].step \in {"block", "code", "slot", "implementation", "beacon"}
    BY <2>2 DEF ScopeCore, BackendIsKept, Free
  <2> QED BY <2>1, <2>2 DEF CreateAudit, ReadBlock, ReadCode, ReadImplementation,
          ReadImplementationCode, ReadBeacon, NodeFails, BeginPublish
<1>3. PICK next : thread' = [thread EXCEPT ![h] = next]
                  /\ next.step \in {"idle", "block", "code", "slot", "implementation",
                                    "beacon", "runtime", "compare"}
                  /\ (next.step = "idle" => next = Free)
  <2>1. CASE CreateAudit(h) \/ BeginPublish(h) \/ NodeFails(h)
    BY <2>1 DEF CreateAudit, BeginPublish, NodeFails, EndRequest, Advance, Free
  <2>2. CASE \/ ReadBlock(h) \/ ReadCode(h) \/ ReadImplementation(h)
             \/ ReadImplementationCode(h) \/ ReadBeacon(h)
    <3>1. thread[h] \in ThreadRecord
      BY <2>2 DEF ScopeCore, SubmissionCore, RecordsTyped, ReadBlock, ReadCode,
         ReadImplementation, ReadImplementationCode, ReadBeacon, Free
    <3>2. \E step \in {"code", "slot", "implementation", "beacon", "runtime", "compare"} :
            \E snapshot :
              thread' = [thread EXCEPT ![h] =
                [thread[h] EXCEPT !.step = step, !.snapshot = snapshot]]
      <4>1. CASE ReadBlock(h)
        BY <3>1, <4>1 DEF ReadBlock, Advance, ThreadRecord
      <4>2. CASE ReadCode(h)
        <5> DEFINE snapshot == [thread[h].snapshot EXCEPT !.hashed = TRUE,
                                                          !.code = chain.code[Target]]
        <5>1. thread' = [thread EXCEPT ![h] =
                [thread[h] EXCEPT !.step = "slot", !.snapshot = snapshot]]
          BY <3>1, <4>2 DEF ReadCode, Advance, ThreadRecord
        <5> HIDE DEF snapshot
        <5> QED BY <5>1
      <4>3. CASE ReadImplementation(h)
        BY <3>1, <4>3 DEF ReadImplementation, Advance, ThreadRecord
      <4>4. CASE ReadImplementationCode(h)
        BY <3>1, <4>4 DEF ReadImplementationCode, AfterSnapshot, Advance, ThreadRecord
      <4>5. CASE ReadBeacon(h)
        <5>1. thread' = [thread EXCEPT ![h] =
                [thread[h] EXCEPT !.step = AfterSnapshot(h), !.snapshot = thread[h].snapshot]]
          BY <3>1, <4>5 DEF ReadBeacon, Advance, ThreadRecord
        <5> QED BY <5>1 DEF AfterSnapshot
      <4> QED BY <2>2, <4>1, <4>2, <4>3, <4>4, <4>5
    <3>3. PICK step \in {"code", "slot", "implementation", "beacon", "runtime", "compare"} :
            \E snapshot :
              thread' = [thread EXCEPT ![h] =
                [thread[h] EXCEPT !.step = step, !.snapshot = snapshot]]
      BY <3>2
    <3>4. PICK snapshot : thread' = [thread EXCEPT ![h] =
              [thread[h] EXCEPT !.step = step, !.snapshot = snapshot]]
      BY <3>3
    <3> DEFINE next == [thread[h] EXCEPT !.step = step, !.snapshot = snapshot]
    <3>5. next.step = step
      BY <3>1 DEF ThreadRecord
    <3>6. thread' = [thread EXCEPT ![h] = next]
      BY <3>4
    <3> HIDE DEF next
    <3> QED BY <3>5, <3>6
  <2> QED BY <2>1, <2>2
<1>4. next # Free => BackendIsKept(next)'
  BY <1>1, <1>2, <1>3 DEF BackendIsKept
<1> QED BY <1>1, <1>2, <1>3, <1>4, ScopeMoves

\* A report that is stored, or published, kept its scope before.
LEMMA ScopeIsKeptByStores ==
  ASSUME OneRequest, ScopeCore, SubmissionCore', forge' \in SUBSET Family,
         NEW h \in RequestThread, StoreAudit(h) \/ ComparePublish(h)
  PROVE  ScopeCore'
<1> DEFINE t == thread[h]
<1>1. /\ t # Free /\ t \in ThreadRecord /\ BackendIsKept(t) /\ ThreadIsKept(t)
      /\ t.step \in {"store", "compare"}
  BY DEF ScopeCore, SubmissionCore, RecordsTyped, ThreadsAreKept, StoreAudit,
     ComparePublish, Free
<1>2. /\ forge = AllFamilies /\ forge' = forge /\ setup' = setup
      /\ thread' = [thread EXCEPT ![h] = Free]
  BY <1>1 DEF BackendIsKept, StoreAudit, ComparePublish, EndRequest, Advance
<1>3. PICK record :
        /\ audits' = [audits EXCEPT ![t.audit] = record]
        /\ record.status # "none" =>
             ReportKeepsScope(record.submission, record.report)
  <2>1. t.audit \in AuditId /\ audits = [audits EXCEPT ![t.audit] = audits[t.audit]]
    BY <1>1 DEF ScopeCore, SubmissionCore, RecordsTyped, ThreadRecord
  <2>2. audits[t.audit].status # "none" =>
          ReportKeepsScope(audits[t.audit].submission, audits[t.audit].report)
    BY <2>1 DEF ScopeCore, ReportsKeepTheirScope, ReportKeepsScope
  <2>3. CASE StoreAudit(h)
    <3> DEFINE draft == [status |-> "draft", submission |-> t.submission,
                         snapshot |-> t.snapshot, report |-> t.report]
    <3>1. ReportKeepsScope(draft.submission, draft.report)
      BY <1>1, <2>3 DEF BackendIsKept, StoreAudit
    <3>2. audits' = [audits EXCEPT ![t.audit] = draft] \/ audits' = audits
      BY <2>3 DEF StoreAudit
    <3> HIDE DEF draft
    <3> QED BY <2>1, <2>2, <3>1, <3>2
  <2>4. CASE ComparePublish(h)
    <3> DEFINE standing == [audits[t.audit] EXCEPT !.status = "published"]
    <3>1. audits[t.audit] \in AuditRecord
      BY <1>1, <2>1, <2>4 DEF ThreadIsKept, ComparePublish, ScopeCore, SubmissionCore,
         RecordsTyped
    <3>2. /\ standing.submission = audits[t.audit].submission
          /\ standing.report = audits[t.audit].report
          /\ audits[t.audit].status # "none"
      BY <3>1 DEF AuditRecord
    <3>3. audits' = [audits EXCEPT ![t.audit] = standing] \/ audits' = audits
      BY <2>4 DEF ComparePublish
    <3> HIDE DEF standing
    <3> QED BY <2>1, <2>2, <3>2, <3>3
  <2> QED BY <2>3, <2>4
<1>4. ReportsKeepTheirScope'
  <2>1. ASSUME NEW a \in AuditId, audits'[a].status # "none"
        PROVE  ReportKeepsScope(audits'[a].submission, audits'[a].report)
    <3>1. CASE a = t.audit
      BY <1>3, <2>1, <3>1 DEF ScopeCore, SubmissionCore, RecordsTyped
    <3>2. CASE a # t.audit
      BY <1>3, <2>1, <3>2 DEF ScopeCore, SubmissionCore, RecordsTyped,
         ReportsKeepTheirScope, ReportKeepsScope
    <3> QED BY <3>1, <3>2
  <2> QED BY <2>1 DEF ReportsKeepTheirScope, ReportKeepsScope
<1> QED BY <1>2, <1>4, ScopeMoves

LEMMA ScopeCoreIsKept ==
  ASSUME OneRequest, ScopeCore, [SubmissionNext]_submissionVars
  PROVE  ScopeCore'
<1>1. SubmissionCore' /\ forge' \in SUBSET Family
  BY CoreIsKept DEF ScopeCore
<1>2. ASSUME NEW h \in RequestThread, SubmissionStep(h)
      PROVE  ScopeCore'
  BY <1>1, <1>2, ScopeIsKeptByWork, ScopeIsKeptBesides, ScopeIsKeptByStores
  DEF SubmissionStep
<1>3. CASE UNCHANGED <<setup, forge, thread, audits>>
  <2>1. (\A h \in RequestThread : thread[h] # Free => BackendIsKept(thread[h]))'
    BY <1>3 DEF ScopeCore, BackendIsKept
  <2> QED BY <1>1, <1>3, <2>1 DEF ScopeCore, WorkerIsRestored, ReportsKeepTheirScope
<1>4. CASE Restart
  <2>1. \A h \in RequestThread : thread'[h] = Free
    BY <1>4 DEF Restart
  <2>2. setup' \in Setups /\ forge' = AllFamilies /\ audits' = audits
    BY <1>4 DEF Restart
  <2> QED BY <1>1, <2>1, <2>2 DEF ScopeCore, WorkerIsRestored, ReportsKeepTheirScope
<1> QED BY <1>2, <1>3, <1>4 DEF SubmissionNext, NewBlock, submissionVars

\* As long as one request is served at a time, every report lists what the
\* detectors of its service find and nothing else, and between requests the
\* worker runs its own detectors, whatever services the requests name and
\* however the runs end (worker.py run_submission): ScopeInvariant.  With two
\* threads the run scope_leak shows a report that lost its scope.
THEOREM OneRequestKeepsScopes ==
  ASSUME OneRequest
  PROVE  SubmissionSpec => []ScopeInvariant
<1>1. SubmissionInit => ScopeCore
  <2> SUFFICES ASSUME SubmissionInit PROVE ScopeCore
    OBVIOUS
  <2>1. SubmissionCore /\ setup \in Setups /\ forge = AllFamilies
    BY CoreHoldsFirst
  <2>2. /\ WorkerIsRestored /\ ReportsKeepTheirScope
        /\ \A h \in RequestThread : thread[h] # Free => BackendIsKept(thread[h])
    BY <2>1 DEF SubmissionInit, WorkerIsRestored, ReportsKeepTheirScope, NoAudit
  <2> QED BY <2>1, <2>2 DEF ScopeCore, AllFamilies
<1>2. ScopeCore /\ [SubmissionNext]_submissionVars => ScopeCore'
  BY ScopeCoreIsKept
<1>3. ScopeCore => ScopeInvariant
  <2> SUFFICES ASSUME ScopeCore PROVE SubmissionTypeOK
    BY DEF ScopeInvariant, ScopeCore
  <2>1. \A a \in AuditId : audits[a].status \in {"none", "draft", "published"}
    BY DEF ScopeCore, SubmissionCore, RecordsTyped, NoAudit, AuditRecord
  <2>2. \A h \in RequestThread : thread[h].step \in BusyStep \cup {"idle"}
    BY DEF ScopeCore, SubmissionCore, RecordsTyped, Free, ThreadRecord
  <2> QED BY <2>1, <2>2 DEF SubmissionTypeOK, BusyStep, ScopeCore, SubmissionCore,
          HistoryIsKept, Identities
<1> QED BY <1>1, <1>2, <1>3, PTL DEF SubmissionSpec

-----------------------------------------------------------------------------
(***************************************************************************)
(* The verification of a challenge.                                        *)
(***************************************************************************)
CaseSpec == CaseInit /\ [][CaseNext]_caseVars

\* What was there before the challenge, and what the challenge pins: a request
\* that brings a manifest of its own pins the block of the claim.
CaseTyped ==
  /\ published.policy \in Policy /\ published.snapshot \in Blocks
  /\ place \in {"published", "verifying", "reading", "challenged", "resolved"}
  /\ submission \in ChallengeRequest \/ submission = NoSubmission
  /\ served \in EvidenceBundle
  /\ ran = NotRun \/ ran.block \in Blocks

ChallengeIsPinned ==
  /\ place \in {"published", "verifying", "reading"} =>
       verdict = NoVerdict /\ ran = NotRun /\ admissibility = "none"
  /\ place \in {"verifying", "reading"} => submission \in ChallengeRequest
  /\ submission \in ChallengeRequest /\ submission.type = "executable_test"
       /\ submission.manifest.given /\ published.snapshot # 0
     => submission.manifest.pinned = published.snapshot

\* What a verdict rests on.
VerdictIsGrounded ==
  /\ verdict.status \in {"pending", "rejected", "invalid_evidence",
                        "verifier_unavailable", "verified"}
  /\ verdict.advice \in {"none", "rejected", "upheld", "manual_review_required"}
  /\ ran # NotRun =>
       /\ ran.hash = commitment
       /\ ~submission.local => ran.version = commitment[1]
       /\ submission.manifest.given /\ published.snapshot # 0 =>
            ran.block = published.snapshot
  /\ verdict.status = "verified" =>
       ran.block \in Passes[ran.version] /\ verdict.advisory
  /\ verdict.advice = "upheld" =>
       verdict.status = "verified" /\ admissibility = "admissible"

AdmissionIsEvaluated ==
  admissibility = "admissible" =>
    Evaluate(published.policy, submission.type, verdict) = "admissible"

CaseCore == CaseTyped /\ ChallengeIsPinned /\ VerdictIsGrounded /\ AdmissionIsEvaluated

(***************************************************************************)
(* Policies.                                                               *)
(***************************************************************************)
LEMMA NormalizedIsPolicy ==
  ASSUME NEW raw \in RawPolicies, ~PolicyIsRejected(raw)
  PROVE  NormalizeChallengePolicy(raw) \in Policy
<1> DEFINE p == NormalizeChallengePolicy(raw)
<1>1. p.allowed \in (SUBSET EvidenceType) \ {{}}
  <2>1. EvidenceType # {}
    BY DEF EvidenceType
  <2>2. p.allowed = IF raw.allowed = {} THEN EvidenceType ELSE raw.allowed \cap EvidenceType
    BY DEF NormalizeChallengePolicy, DefaultPolicy
  <2>3. raw.allowed = {} \/ raw.allowed \cap EvidenceType # {}
    BY DEF PolicyIsRejected
  <2> HIDE DEF p
  <2> QED BY <2>1, <2>2, <2>3
<1>2. p.threshold \in Severity
  BY DEF PolicyIsRejected, NormalizeChallengePolicy, DefaultPolicy, Word, Severity, SeverityRank
<1>3. p.mode \in {"broad", "strict"}
  BY DEF PolicyIsRejected, NormalizeChallengePolicy, DefaultPolicy
<1>4. p.informational \in BOOLEAN /\ p.material \in BOOLEAN
  BY CaseAssumption DEF NormalizeChallengePolicy
<1> QED BY <1>1, <1>2, <1>3, <1>4 DEF NormalizeChallengePolicy, Policy

LEMMA RanksOfSeverities ==
  /\ Severity = {"info", "low", "medium", "high", "critical"}
  /\ \A s \in Severity : SeverityRank[s] \in 0 .. 4
BY DEF Severity, SeverityRank

\* A severity that is estimated is one, or none.
LEMMA SeverityIsEstimated ==
  ASSUME NEW v
  PROVE  EstimateChallengeSeverity(v, SeverityOf) \in Severity \cup {"none"}
<1> DEFINE matched == v.matched \cap DOMAIN SeverityOf
           rank(f) == SeverityRank[SeverityOf[f]]
<1>1. ASSUME NEW f \in DOMAIN SeverityOf
      PROVE  SeverityOf[f] \in Severity
  <2> DEFINE findings == ToSet(Report.findings)
  <2>1. PICK g \in findings : f = g.id
    BY <1>1 DEF SeverityOf
  <2>2. PICK g2 \in findings : g2 = CHOOSE g3 \in findings : g3.id = f
    BY <2>1
  <2>3. g2.severity \in Severity
    BY <2>2, CaseAssumption DEF ToSet
  <2> QED BY <1>1, <2>2, <2>3 DEF SeverityOf
<1>2. CASE matched # {}
  <2>1. \A f \in matched : rank(f) \in 0 .. 4
    BY <1>1, RanksOfSeverities
  <2>2. \E f \in matched : \A g \in matched : rank(f) >= rank(g)
    <3> HIDE DEF rank, matched
    <3>1. CASE \E f \in matched : rank(f) = 4
      BY <2>1, <3>1
    <3>2. CASE ~(\E f \in matched : rank(f) = 4) /\ \E f \in matched : rank(f) = 3
      BY <2>1, <3>2
    <3>3. CASE ~(\E f \in matched : rank(f) \in {3, 4}) /\ \E f \in matched : rank(f) = 2
      BY <2>1, <3>3
    <3>4. CASE ~(\E f \in matched : rank(f) \in {2, 3, 4}) /\ \E f \in matched : rank(f) = 1
      BY <2>1, <3>4
    <3>5. CASE ~(\E f \in matched : rank(f) \in {1, 2, 3, 4})
      BY <1>2, <2>1, <3>5
    <3> QED BY <3>1, <3>2, <3>3, <3>4, <3>5
  <2>3. PICK f \in matched : f = CHOOSE e \in matched : \A g \in matched : rank(e) >= rank(g)
    BY <2>2
  <2>4. EstimateChallengeSeverity(v, SeverityOf) = SeverityOf[f]
    BY <1>2, <2>3 DEF EstimateChallengeSeverity
  <2> QED BY <1>1, <2>4
<1>3. CASE matched = {}
  BY <1>3, RanksOfSeverities DEF EstimateChallengeSeverity
<1> QED BY <1>2, <1>3

\* What a stricter policy admits, a more open one admits.
LEMMA OpenPoliciesAdmit ==
  ASSUME NEW p \in Policy, NEW q \in Policy, AtLeastAsOpen(q, p), NEW type, NEW v,
         Evaluate(p, type, v) = "admissible"
  PROVE  Evaluate(q, type, v) = "admissible"
<1> DEFINE severity == EstimateChallengeSeverity(v, SeverityOf)
<1>1. severity \in Severity \cup {"none"}
  BY SeverityIsEstimated
<1>2. /\ type \in p.allowed
      /\ ~(p.mode = "strict" /\ v.status # "verified")
      /\ ~(p.material /\ ~MaterialIncorrectness(v))
      /\ ~(~p.informational /\ severity = "info")
      /\ ~BelowThreshold(severity, p.threshold)
  BY DEF Evaluate, EvaluateChallengePolicy
<1>3. ~BelowThreshold(severity, q.threshold)
  <2>1. p.threshold \in Severity /\ q.threshold \in Severity
    BY DEF Policy
  <2>2. SeverityRank[q.threshold] <= SeverityRank[p.threshold]
    BY DEF AtLeastAsOpen
  <2>3. SeverityRank["info"] = 0
    BY DEF SeverityRank
  <2> HIDE DEF severity
  <2> QED BY <1>1, <1>2, <2>1, <2>2, <2>3, RanksOfSeverities DEF BelowThreshold
<1>4. /\ type \in q.allowed
      /\ ~(q.mode = "strict" /\ v.status # "verified")
      /\ ~(q.material /\ ~MaterialIncorrectness(v))
      /\ ~(~q.informational /\ severity = "info")
  BY <1>2 DEF AtLeastAsOpen
<1> HIDE DEF severity
<1> QED BY <1>3, <1>4 DEF Evaluate, EvaluateChallengePolicy, severity

\* And it is scored as no less open.
LEMMA OpenPoliciesScore ==
  ASSUME NEW p \in Policy, NEW q \in Policy, AtLeastAsOpen(q, p)
  PROVE  OpennessScore(q) >= OpennessScore(p)
<1> DEFINE types(r) == IF Cardinality(r.allowed) = 2 THEN 35 ELSE 18
           informational(r) == IF r.informational THEN 10 ELSE 0
           material(r) == IF r.material THEN 0 ELSE 10
           mode(r) == IF r.mode = "broad" THEN 15 ELSE 6
<1>1. types(q) >= types(p)
  <2>1. /\ p.allowed \in (SUBSET EvidenceType) \ {{}} /\ q.allowed \in (SUBSET EvidenceType) \ {{}}
        /\ p.allowed \subseteq q.allowed
    BY DEF Policy, AtLeastAsOpen
  <2>2. CASE p.allowed = EvidenceType
    <3>1. q.allowed = p.allowed
      BY <2>1, <2>2
    <3> QED BY <3>1
  <2>3. CASE p.allowed # EvidenceType
    <3>1. PICK e \in EvidenceType : p.allowed = {e}
      <4> DEFINE fixture == "deterministic_fixture"
                 test == "executable_test"
      <4>1. p.allowed \subseteq {fixture, test} /\ p.allowed # {}
        BY <2>1 DEF EvidenceType
      <4>2. CASE fixture \notin p.allowed
        BY <4>1, <4>2 DEF EvidenceType
      <4>3. CASE test \notin p.allowed
        BY <4>1, <4>3 DEF EvidenceType
      <4> QED BY <2>1, <2>3, <4>2, <4>3 DEF EvidenceType
    <3>2. Cardinality(p.allowed) = 1
      BY <3>1, FS_Singleton
    <3> QED BY <3>2
  <2> QED BY <2>2, <2>3
<1>2. ThresholdPoints[q.threshold] \in Nat /\ ThresholdPoints[p.threshold] \in Nat
      /\ ThresholdPoints[q.threshold] >= ThresholdPoints[p.threshold]
  <2>1. p.threshold \in Severity /\ q.threshold \in Severity
    BY DEF Policy
  <2>2. SeverityRank[q.threshold] <= SeverityRank[p.threshold]
    BY DEF AtLeastAsOpen
  <2> QED BY <2>1, <2>2, RanksOfSeverities DEF SeverityRank, ThresholdPoints
<1>3. informational(q) >= informational(p) /\ material(q) >= material(p)
  BY DEF AtLeastAsOpen
<1>4. mode(q) >= mode(p)
  BY DEF AtLeastAsOpen, Policy
<1>5. /\ types(p) \in Nat /\ types(q) \in Nat
      /\ informational(p) \in Nat /\ informational(q) \in Nat
      /\ material(p) \in Nat /\ material(q) \in Nat /\ mode(p) \in Nat /\ mode(q) \in Nat
  OBVIOUS
<1>6. /\ OpennessScore(p) = types(p) + ThresholdPoints[p.threshold] + informational(p)
                              + material(p) + mode(p)
      /\ OpennessScore(q) = types(q) + ThresholdPoints[q.threshold] + informational(q)
                              + material(q) + mode(q)
  BY DEF OpennessScore
<1> HIDE DEF types, informational, material, mode
<1> QED BY <1>1, <1>2, <1>3, <1>4, <1>5, <1>6

(***************************************************************************)
(* The verdicts.                                                           *)
(***************************************************************************)

\* Whatever the claim, an advice to uphold is a verified verdict.
LEMMA Judgments ==
  ASSUME NEW claim
  PROVE  LET v == Judge(claim) IN
         /\ v.status \in {"verified", "verifier_unavailable"}
         /\ v.advice \in {"rejected", "upheld", "manual_review_required"}
         /\ v.advisory
         /\ v.advice = "upheld" => v.status = "verified"
         /\ {"status", "advice", "advisory"} \subseteq DOMAIN v
<1> DEFINE c == Compare(claim, Report)
           decision == DecidePolicy(c)
<1>1. /\ decision.advice \in {"rejected", "upheld", "manual_review_required"}
      /\ decision.advice = "upheld" => c.outcome \in MaterialOutcome
  BY DEF DecidePolicy, MaterialOutcome
<1>2. Judge(claim) \in
        {Verdict("verified", "rejected", c.outcome, c.matched, claim.type, decision.advice),
         Verdict("verified", "upheld", c.outcome, c.matched, claim.type, decision.advice),
         ReviewNeeded(c.outcome, c.matched, claim.type, decision.advice)}
  BY DEF Judge
<1>3. c.outcome \in MaterialOutcome =>
        Judge(claim).status = "verified"
  BY DEF Judge, Verdict
<1> HIDE DEF c, decision
<1>4. LET v == Judge(claim) IN
        /\ v.status \in {"verified", "verifier_unavailable"}
        /\ v.advice = decision.advice /\ v.advisory
        /\ {"status", "advice", "advisory"} \subseteq DOMAIN v
  BY <1>2 DEF Verdict, ReviewNeeded
<1> QED BY <1>1, <1>3, <1>4

\* What a run may have ended with.
LEMMA VerdictsOfRuns ==
  ASSUME NEW outcome \in {"invalid_evidence", "runner_error", "failed", "passed"},
         NEW run, run.outcome = outcome, NEW v \in ExecutableVerdicts(run)
  PROVE  /\ v.status \in {"invalid_evidence", "verifier_unavailable", "verified"}
         /\ v.advice \in {"rejected", "upheld", "manual_review_required"}
         /\ v.advisory
         /\ v.status = "verified" => outcome = "passed"
         /\ v.advice = "upheld" => v.status = "verified"
         /\ {"status", "advice", "advisory"} \subseteq DOMAIN v
<1>1. CASE outcome = "invalid_evidence"
  <2>1. v = InvalidEvidence("")
    BY <1>1 DEF ExecutableVerdicts
  <2> QED BY <1>1, <2>1 DEF InvalidEvidence, Verdict
<1>2. CASE outcome = "runner_error"
  <2>1. v = ReviewNeeded("not_assessed", {}, "", "manual_review_required")
    BY <1>2 DEF ExecutableVerdicts
  <2> QED BY <1>2, <2>1 DEF ReviewNeeded, Verdict
<1>3. CASE outcome = "failed"
  BY <1>3 DEF ExecutableVerdicts, InvalidEvidence, Verdict
<1>4. CASE outcome = "passed"
  <2>1. PICK a \in Claims(Text) :
          v = IF a.use = "claim" THEN Judge(a.claim)
              ELSE ReviewNeeded("not_assessed", {}, a.claim.type, "manual_review_required")
    BY <1>4 DEF ExecutableVerdicts
  <2>2. CASE a.use = "claim"
    BY <1>4, <2>1, <2>2, Judgments
  <2>3. CASE a.use # "claim"
    BY <1>4, <2>1, <2>3 DEF ReviewNeeded, Verdict
  <2> QED BY <2>2, <2>3
<1> QED BY <1>1, <1>2, <1>3, <1>4

\* A run that has a block is a run of what was committed, at the pinned block.
LEMMA RunsOfCommitment ==
  ASSUME CaseTyped, submission \in ChallengeRequest, NEW run \in RunOutcomes
  PROVE  LET m == ResolveManifest(served, submission.manifest) IN
         /\ run.outcome \in {"invalid_evidence", "runner_error", "failed", "passed"}
         /\ run.block # 0 \/ run.outcome = "passed" =>
              /\ run.block \in Blocks /\ run.block # 0
              /\ CanonicalHash(served, m) = commitment
              /\ m.pinned # 0 => run.block = m.pinned
         /\ run.outcome = "passed" => run.block \in Passes[Text]
<1> DEFINE m == ResolveManifest(served, submission.manifest)
           backend == Backend(published.backend)
           RunAt(b, answer) == IF b # 0 /\ answer = "exit" THEN Exits(b)
                               ELSE {Outcome("runner_error", 0)}
<1>1. m.pinned \in Blocks /\ published.snapshot \in Blocks
  BY DEF CaseTyped, ChallengeRequest, EvidenceBundle, Manifest, ResolveManifest
<1>2. CASE run \in {Outcome("invalid_evidence", 0), Outcome("runner_error", 0)}
  BY <1>2 DEF Outcome
<1>3. CASE /\ Stands(m)
           /\ run \in UNION {RunAt(b, answer) : b \in ForkBlocks(m), answer \in backend.answers}
  <2>1. PICK b \in ForkBlocks(m), answer \in backend.answers : run \in RunAt(b, answer)
    BY <1>3
  <2>2. b \in Blocks /\ (m.pinned # 0 => b = m.pinned)
    BY <1>1, <2>1 DEF ForkBlocks
  <2>3. CanonicalHash(served, m) = commitment
    BY <1>3 DEF Stands
  <2>4. CASE b # 0 /\ answer = "exit"
    <3>1. run.block = b /\ run.outcome \in {"failed", "passed"}
          /\ (run.outcome = "passed" => b \in Passes[Text])
      BY <2>1, <2>4 DEF Exits, Outcome
    <3> QED BY <2>2, <2>3, <2>4, <3>1
  <2>5. CASE ~(b # 0 /\ answer = "exit")
    BY <1>2, <2>1, <2>5
  <2> QED BY <2>4, <2>5
<1>4. \/ run \in {Outcome("invalid_evidence", 0), Outcome("runner_error", 0)}
      \/ /\ Stands(m)
         /\ run \in UNION {RunAt(b, answer) : b \in ForkBlocks(m), answer \in backend.answers}
  BY DEF RunOutcomes
<1> QED BY <1>2, <1>3, <1>4

\* A policy admits a challenge or says why not.
LEMMA AdmissionAnswers ==
  ASSUME NEW p, NEW type, NEW v
  PROVE  /\ Evaluate(p, type, v) \in
              {"admissible", "inadmissible_evidence_type", "inadmissible_policy_scope",
               "inadmissible_severity_below_threshold"}
         /\ Evaluate(p, type, v) # "none"
BY DEF Evaluate, EvaluateChallengePolicy

(***************************************************************************)
(* The steps.                                                              *)
(***************************************************************************)
LEMMA CaseHoldsFirst ==
  ASSUME CaseInit
  PROVE  CaseCore
<1>1. published.policy \in Policy /\ published.snapshot \in Blocks
  <2>1. PICK raw \in RawPolicies, block \in Blocks, rpc \in BOOLEAN, k \in Backends :
          /\ ~PolicyIsRejected(raw)
          /\ published \in {[policy |-> NormalizeChallengePolicy(raw), rpc |-> rpc, backend |-> k,
                         inputKind |-> "deployed_address", snapshot |-> block],
                        [policy |-> NormalizeChallengePolicy(raw), rpc |-> rpc, backend |-> k,
                         inputKind |-> "source_bundle", snapshot |-> 0]}
    BY DEF CaseInit
  <2>2. published.policy = NormalizeChallengePolicy(raw) /\ published.snapshot \in {0, block}
    BY <2>1
  <2> QED BY <2>1, <2>2, NormalizedIsPolicy, CaseAssumption
<1>2. submission \notin ChallengeRequest
  BY DEF CaseInit, NoSubmission, ChallengeRequest, EvidenceType
<1> QED BY <1>1, <1>2, CaseAssumption
        DEF CaseInit, CaseCore, CaseTyped, ChallengeIsPinned, VerdictIsGrounded,
            AdmissionIsEvaluated, NoVerdict

\* The evidence changes, and nothing that was concluded does.
LEMMA EvidenceChanges ==
  ASSUME CaseCore, ServeOther
  PROVE  CaseCore'
<1>1. served' \in EvidenceBundle
  <2>1. served \in EvidenceBundle /\ Content \subseteq EvidenceBundle
    BY CaseAssumption DEF CaseCore, CaseTyped
  <2>2. [served EXCEPT !.reachable = FALSE] \in EvidenceBundle
    BY <2>1 DEF EvidenceBundle
  <2> QED BY <2>1, <2>2 DEF ServeOther
<1>2. UNCHANGED <<published, submission, commitment, place, verdict, ran,
                 admissibility, resolution>>
  BY DEF ServeOther
<1>3. CaseTyped'
  BY <1>1, <1>2 DEF CaseCore, CaseTyped
<1>4. ChallengeIsPinned' /\ VerdictIsGrounded'
  BY <1>2 DEF CaseCore, ChallengeIsPinned, VerdictIsGrounded
<1>5. AdmissionIsEvaluated'
  BY <1>2 DEF CaseCore, AdmissionIsEvaluated, Evaluate, SeverityOf
<1> QED BY <1>3, <1>4, <1>5 DEF CaseCore

\* A challenge pins the block of the claim, or none.
LEMMA ChallengeBegins ==
  ASSUME CaseCore, NEW s \in Challenges, BeginChallenge(s)
  PROVE  CaseCore'
<1>1. s \in ChallengeRequest /\ s.manifest \in Manifest /\ published.snapshot \in Blocks
  BY CaseAssumption DEF CaseCore, CaseTyped, ChallengeRequest
<1>2. Materialized(s) \in Manifest
  BY <1>1 DEF Materialized, Manifest
<1>3. PICK next \in ChallengeRequest :
        /\ submission' = next /\ next.type = s.type /\ next.manifest = Materialized(s)
  <2>1. [s EXCEPT !.manifest = Materialized(s)] \in ChallengeRequest
    BY <1>1, <1>2 DEF ChallengeRequest
  <2> QED BY <1>1, <2>1 DEF BeginChallenge, ChallengeRequest
<1>4. /\ place = "published" /\ place' = "verifying"
      /\ UNCHANGED <<published, served, verdict, ran, admissibility>>
  BY DEF BeginChallenge
<1>5. next.type = "executable_test" /\ next.manifest.given /\ published.snapshot # 0
        => next.manifest.pinned = published.snapshot
  <2>1. SUFFICES ASSUME next.type = "executable_test", next.manifest.given,
                        published.snapshot # 0
                 PROVE  next.manifest.pinned = published.snapshot
    OBVIOUS
  <2>2. ~OtherBlock(s)
    BY <1>3, <2>1 DEF BeginChallenge
  <2> QED BY <1>1, <1>3, <2>1, <2>2 DEF OtherBlock, Materialized, Manifest
<1>6. verdict = NoVerdict /\ ran = NotRun
  BY <1>4 DEF CaseCore, ChallengeIsPinned
<1>7. CaseTyped' /\ ChallengeIsPinned'
  BY <1>3, <1>4, <1>5 DEF CaseCore, CaseTyped, ChallengeIsPinned
<1>8. VerdictIsGrounded'
  BY <1>4, <1>6 DEF VerdictIsGrounded, NoVerdict
<1>9. AdmissionIsEvaluated'
  BY <1>4 DEF CaseCore, ChallengeIsPinned, AdmissionIsEvaluated
<1> QED BY <1>7, <1>8, <1>9 DEF CaseCore

\* What a verification may conclude: a verdict that has its words, and a run,
\* if there was one, of what was committed, at the block of the claim.
LEMMA Conclusions ==
  ASSUME CaseCore, place \in {"verifying", "reading"}, NEW v, NEW run, NEW version,
         Conclude(v, run, version), UNCHANGED <<published, served, submission, commitment>>,
         {"status", "advice", "advisory"} \subseteq DOMAIN v,
         v.status \in {"rejected", "invalid_evidence", "verifier_unavailable", "verified"},
         v.advice \in {"none", "rejected", "upheld", "manual_review_required"},
         v.advice = "upheld" => v.status = "verified",
         v.status = "verified" =>
           v.advisory /\ run.block # 0 /\ run.block \in Passes[version],
         run.block # 0 =>
           /\ run.block \in Blocks
           /\ ~submission.local => version = commitment[1]
           /\ CanonicalHash(served, ResolveManifest(served, submission.manifest)) = commitment
           /\ submission.manifest.given /\ published.snapshot # 0 =>
                run.block = published.snapshot
  PROVE  CaseCore'
<1> DEFINE answer == Evaluate(published.policy, submission.type, v)
<1>1. /\ admissibility' = answer /\ place' = "challenged"
      /\ verdict' = IF answer = "admissible" THEN v ELSE [v EXCEPT !.advice = "rejected"]
      /\ ran' = IF run.block = 0 THEN NotRun
                ELSE [version |-> version, block |-> run.block,
                      hash |-> CanonicalHash(served, ResolveManifest(served, submission.manifest))]
  BY DEF Conclude
<1>2. /\ verdict'.status = v.status /\ verdict'.advisory = v.advisory
      /\ verdict'.advice \in {v.advice, "rejected"}
      /\ verdict'.advice = "upheld" => v.advice = "upheld" /\ answer = "admissible"
  BY <1>1
<1>3. /\ run.block = 0 => ran' = NotRun
      /\ run.block # 0 => /\ ran'.block = run.block /\ ran'.hash = commitment
                          /\ ran'.version = version
  BY <1>1
<1>4. CaseTyped'
  BY <1>1, <1>3 DEF CaseCore, CaseTyped
<1>5. ChallengeIsPinned'
  BY <1>1 DEF CaseCore, ChallengeIsPinned
<1>6. VerdictIsGrounded'
  <2> HIDE DEF answer
  <2> QED BY <1>1, <1>2, <1>3 DEF VerdictIsGrounded
<1>7. AdmissionIsEvaluated'
  <2>1. admissibility' = "admissible" => verdict' = v
    BY <1>1
  <2> QED BY <1>1, <2>1 DEF AdmissionIsEvaluated, Evaluate, SeverityOf
<1> QED BY <1>4, <1>5, <1>6, <1>7 DEF CaseCore

\* A verification concludes from what was committed.
LEMMA Verifies ==
  ASSUME CaseCore, VerifyChallenge
  PROVE  CaseCore'
<1>1. /\ place \in {"verifying", "reading"} /\ submission \in ChallengeRequest
      /\ UNCHANGED <<published, served, submission, commitment>>
  BY DEF VerifyChallenge, CaseCore, ChallengeIsPinned
<1>2. CASE submission.type \notin published.policy.allowed
  <2> DEFINE v == [NoVerdict EXCEPT !.status = "rejected"]
             run == Outcome("", 0)
  <2>1. Conclude(v, run, 0)
    BY <1>2 DEF VerifyChallenge
  <2>2. /\ v.status = "rejected" /\ v.advice = "none" /\ run.block = 0
        /\ {"status", "advice", "advisory"} \subseteq DOMAIN v
    BY DEF NoVerdict, Outcome
  <2> HIDE DEF v, run
  <2> QED BY <1>1, <2>1, <2>2, Conclusions
<1>3. CASE /\ submission.type \in published.policy.allowed
           /\ submission.type = "deterministic_fixture"
  <2> DEFINE run == Outcome("", 0)
  <2>1. Conclude(ProofUriVerdict, run, 0)
    BY <1>3 DEF VerifyChallenge
  <2>2. /\ ProofUriVerdict.status = "verifier_unavailable"
        /\ ProofUriVerdict.advice = "manual_review_required" /\ run.block = 0
        /\ {"status", "advice", "advisory"} \subseteq DOMAIN ProofUriVerdict
    BY DEF ProofUriVerdict, ReviewNeeded, Verdict, Outcome
  <2> HIDE DEF run
  <2> QED BY <1>1, <2>1, <2>2, Conclusions
<1>4. CASE submission.type # "deterministic_fixture"
           /\ submission.type \in published.policy.allowed
  <2> DEFINE m == ResolveManifest(served, submission.manifest)
  <2>1. PICK run \in RunOutcomes : \E v \in ExecutableVerdicts(run) :
          Conclude(v, run, Text)
    BY <1>4 DEF VerifyChallenge
  <2>2. PICK v \in ExecutableVerdicts(run) : Conclude(v, run, Text)
    BY <2>1
  <2>3. /\ run.outcome \in {"invalid_evidence", "runner_error", "failed", "passed"}
        /\ run.block # 0 \/ run.outcome = "passed" =>
             /\ run.block \in Blocks /\ run.block # 0
             /\ CanonicalHash(served, m) = commitment
             /\ m.pinned # 0 => run.block = m.pinned
        /\ run.outcome = "passed" => run.block \in Passes[Text]
    BY <1>1, RunsOfCommitment DEF CaseCore
  <2>4. /\ v.status \in {"invalid_evidence", "verifier_unavailable", "verified"}
        /\ v.advice \in {"rejected", "upheld", "manual_review_required"}
        /\ v.advisory
        /\ v.status = "verified" => run.outcome = "passed"
        /\ v.advice = "upheld" => v.status = "verified"
        /\ {"status", "advice", "advisory"} \subseteq DOMAIN v
    BY <2>2, <2>3, VerdictsOfRuns
  <2>5. CanonicalHash(served, m) = commitment /\ ~submission.local => Text = commitment[1]
    BY DEF CanonicalHash, Text
  <2>6. submission.type = "executable_test"
    BY <1>1, <1>4 DEF ChallengeRequest, EvidenceType
  <2>7. submission.manifest.given /\ published.snapshot # 0
          => m.pinned = published.snapshot
    BY <1>1, <2>6 DEF CaseCore, ChallengeIsPinned, ResolveManifest
  <2> HIDE DEF m
  <2>8. /\ run.block # 0 =>
             /\ run.block \in Blocks
             /\ CanonicalHash(served, m) = commitment
             /\ ~submission.local => Text = commitment[1]
             /\ submission.manifest.given /\ published.snapshot # 0 =>
                  run.block = published.snapshot
        /\ v.status = "verified" =>
             v.advisory /\ run.block # 0 /\ run.block \in Passes[Text]
    BY <2>3, <2>4, <2>5, <2>7
  <2> QED BY <1>1, <2>2, <2>4, <2>8, Conclusions DEF m
<1> QED BY <1>2, <1>3, <1>4

\* The text of a local file is read: nothing is concluded yet.
LEMMA EvidenceIsRead ==
  ASSUME CaseCore, ReadEvidence
  PROVE  CaseCore'
<1>1. /\ place = "verifying" /\ place' = "reading"
      /\ UNCHANGED <<published, served, submission, commitment, verdict, ran, admissibility>>
  BY DEF ReadEvidence
<1>2. CaseTyped' /\ ChallengeIsPinned'
  BY <1>1 DEF CaseCore, CaseTyped, ChallengeIsPinned
<1>3. VerdictIsGrounded'
  BY <1>1 DEF CaseCore, VerdictIsGrounded
<1>4. AdmissionIsEvaluated'
  BY <1>1 DEF CaseCore, AdmissionIsEvaluated, Evaluate, SeverityOf
<1> QED BY <1>2, <1>3, <1>4 DEF CaseCore

\* An answer that never comes, and the arbiter's decision, leave the rest.
LEMMA Leaves ==
  ASSUME CaseCore, VerifyRaises \/ \E upheld \in BOOLEAN : ResolveAudit(upheld)
  PROVE  CaseCore'
<1>1. /\ UNCHANGED <<published, served, submission, commitment, verdict, ran, admissibility>>
      /\ place' \in {"challenged", "resolved"}
  BY DEF VerifyRaises, ResolveAudit
<1>2. CaseTyped' /\ ChallengeIsPinned'
  BY <1>1 DEF CaseCore, CaseTyped, ChallengeIsPinned
<1>3. VerdictIsGrounded'
  BY <1>1 DEF CaseCore, VerdictIsGrounded
<1>4. AdmissionIsEvaluated'
  BY <1>1 DEF CaseCore, AdmissionIsEvaluated, Evaluate, SeverityOf
<1> QED BY <1>2, <1>3, <1>4 DEF CaseCore

LEMMA CaseInvariance == CaseSpec => []CaseCore
<1>1. CaseInit => CaseCore
  BY CaseHoldsFirst
<1>2. CaseCore /\ [CaseNext]_caseVars => CaseCore'
  <2> SUFFICES ASSUME CaseCore, [CaseNext]_caseVars PROVE CaseCore'
    OBVIOUS
  <2>1. CASE UNCHANGED caseVars
    BY <2>1 DEF caseVars, CaseCore, CaseTyped, ChallengeIsPinned, VerdictIsGrounded,
       AdmissionIsEvaluated, Evaluate, SeverityOf
  <2> QED BY <2>1, EvidenceChanges, ChallengeBegins, EvidenceIsRead, Verifies, Leaves
         DEF CaseNext
<1> QED BY <1>1, <1>2, PTL DEF CaseSpec

\* Whatever the evidence's URI serves when it is fetched again, what was run is
\* what the chain was given, at the claim's block if the request came with a
\* manifest (of a local file, whose text is read before its hash, only the hash
\* is known to be that); an advice to uphold rests on a test that passes there and on a
\* policy that admits it (service.py challenge_audit, executable_evidence_verifier.py).
THEOREM VerdictsRestOnTheCommitment ==
  CaseSpec => []VerdictsKeepTheCommitment
<1>1. CaseCore => VerdictsKeepTheCommitment
  <2> SUFFICES ASSUME CaseCore PROVE CaseTypeOK
    BY DEF CaseCore, VerdictIsGrounded, VerdictsKeepTheCommitment
  <2>1. submission.type \in EvidenceType \cup {"none"}
    <3>1. CASE submission \in ChallengeRequest
      BY <3>1 DEF ChallengeRequest
    <3>2. CASE submission = NoSubmission
      BY <3>2 DEF NoSubmission
    <3> QED BY <3>1, <3>2 DEF CaseCore, CaseTyped
  <2>2. ran.block \in Blocks
    BY CaseAssumption DEF CaseCore, CaseTyped, NotRun
  <2> QED BY <2>1, <2>2 DEF CaseCore, CaseTyped, VerdictIsGrounded, CaseTypeOK
<1> QED BY <1>1, CaseInvariance, PTL

\* A challenge that a publisher's policy admitted would have been admitted by
\* every policy that asks no more of it, and such a policy is never scored as
\* less open (service.py _evaluate_challenge_policy).
THEOREM OpenPoliciesAdmitMore ==
  CaseSpec => []PermissivePoliciesAdmitMore
<1>1. CaseCore => PermissivePoliciesAdmitMore
  <2> SUFFICES ASSUME CaseCore, NEW q \in Policy, AtLeastAsOpen(q, published.policy)
               PROVE  /\ OpennessScore(q) >= OpennessScore(published.policy)
                      /\ admissibility = "admissible" =>
                           Evaluate(q, submission.type, verdict) = "admissible"
    BY DEF PermissivePoliciesAdmitMore
  <2>1. published.policy \in Policy
    BY DEF CaseCore, CaseTyped
  <2> QED BY <2>1, OpenPoliciesScore, OpenPoliciesAdmit DEF CaseCore, AdmissionIsEvaluated
<1> QED BY <1>1, CaseInvariance, PTL
-----------------------------------------------------------------------------
(***************************************************************************)
(* The reputation index.  The scores are quotients rounded half to even,   *)
(* so the proof starts with rounding: a fraction that is not smaller does  *)
(* not round to less, and a point of accuracy weighs more than a half that *)
(* a float may have put on either side.                                    *)
(***************************************************************************)
ReputationSpec == ReputationInit /\ [][ReputationNext]_records

\* Products of integers are ordered as their factors.
LEMMA ProductGrows ==
  ASSUME NEW x \in Int, NEW y \in Int, x <= y, NEW d \in Nat
  PROVE  x * d \in Int /\ y * d \in Int /\ x * d <= y * d
OBVIOUS

\* Products by a positive integer are ordered only as their factors are.
LEMMA ProductOrders ==
  ASSUME NEW x \in Int, NEW y \in Int, NEW d \in Nat \ {0}, x * d <= y * d
  PROVE  x <= y
OBVIOUS

\* The quotient is the nearest integer, and of two that are as near the even one.
LEMMA RoundsToNearest ==
  ASSUME NEW n \in Nat, NEW d \in Nat \ {0}
  PROVE  /\ RoundHalfEven(n, d) \in Nat
         /\ (2 * RoundHalfEven(n, d) - 1) * d <= 2 * n
         /\ 2 * n <= (2 * RoundHalfEven(n, d) + 1) * d
         /\ (2 * RoundHalfEven(n, d) - 1) * d = 2 * n => RoundHalfEven(n, d) % 2 = 0
         /\ 2 * n = (2 * RoundHalfEven(n, d) + 1) * d => RoundHalfEven(n, d) % 2 = 0
<1> DEFINE q == n \div d
           r == n % d
<1>1. q \in Nat /\ r \in 0 .. d - 1
  OBVIOUS
<1>2. n = d * q + r
  OBVIOUS
<1>3. RoundHalfEven(n, d) = IF 2 * r < d \/ (2 * r = d /\ q % 2 = 0) THEN q ELSE q + 1
  BY DEF RoundHalfEven
<1> HIDE DEF q, r
<1>4. PICK m \in Int : m = q * d
  BY <1>1
<1>5. /\ (2 * q - 1) * d = 2 * m - d
      /\ (2 * q + 1) * d = 2 * m + d
      /\ (2 * (q + 1) - 1) * d = 2 * m + d
      /\ (2 * (q + 1) + 1) * d = 2 * m + 3 * d
      /\ d * q = m
  BY <1>1, <1>4
<1>6. CASE 2 * r < d \/ (2 * r = d /\ q % 2 = 0)
  <2>1. RoundHalfEven(n, d) = q
    BY <1>3, <1>6
  <2> QED BY <1>1, <1>2, <1>5, <1>6, <2>1
<1>7. CASE 2 * r > d \/ (2 * r = d /\ q % 2 # 0)
  <2>1. RoundHalfEven(n, d) = q + 1
    BY <1>1, <1>3, <1>7
  <2>2. 2 * r = d => (q + 1) % 2 = 0
    BY <1>1, <1>7
  <2> QED BY <1>1, <1>2, <1>5, <1>7, <2>1, <2>2
<1> QED BY <1>1, <1>6, <1>7

\* A fraction that is not smaller does not round to less.
LEMMA RoundingIsMonotone ==
  ASSUME NEW n \in Nat, NEW d \in Nat \ {0}, NEW m \in Nat, NEW e \in Nat \ {0},
         n * e <= m * d
  PROVE  RoundHalfEven(n, d) <= RoundHalfEven(m, e)
<1>1. PICK R \in Nat : R = RoundHalfEven(n, d)
  BY RoundsToNearest
<1>2. PICK T \in Nat : T = RoundHalfEven(m, e)
  BY RoundsToNearest
<1>3. /\ (2 * R - 1) * d <= 2 * n
      /\ (2 * R - 1) * d = 2 * n => R % 2 = 0
  BY <1>1, RoundsToNearest
<1>4. /\ 2 * m <= (2 * T + 1) * e
      /\ 2 * m = (2 * T + 1) * e => T % 2 = 0
  BY <1>2, RoundsToNearest
<1> SUFFICES ASSUME T < R PROVE FALSE
  BY <1>1, <1>2
<1>5. PICK k \in Nat \ {0} : k = d * e
  OBVIOUS
<1>6. ((2 * R - 1) * d) * e <= (2 * n) * e
  <2>1. (2 * R - 1) * d \in Int /\ 2 * n \in Int
    OBVIOUS
  <2> QED BY <1>3, <2>1, ProductGrows
<1>7. (2 * m) * d <= ((2 * T + 1) * e) * d
  <2>1. (2 * T + 1) * e \in Int /\ 2 * m \in Int
    OBVIOUS
  <2> QED BY <1>4, <2>1, ProductGrows
<1>8. /\ ((2 * R - 1) * d) * e = (2 * R - 1) * k
      /\ ((2 * T + 1) * e) * d = (2 * T + 1) * k
      /\ (2 * n) * e = 2 * (n * e) /\ (2 * m) * d = 2 * (m * d)
      /\ n * e \in Int /\ m * d \in Int
      /\ (2 * R - 1) * k \in Int /\ (2 * T + 1) * k \in Int
  BY <1>5
<1>9. (2 * R - 1) * k <= (2 * T + 1) * k
  BY <1>6, <1>7, <1>8
<1>10. 2 * R - 1 <= 2 * T + 1
  <2>1. 2 * R - 1 \in Int /\ 2 * T + 1 \in Int
    OBVIOUS
  <2> QED BY <1>5, <1>9, <2>1, ProductOrders
<1>11. R = T + 1
  BY <1>10
<1>12. (2 * R - 1) * k = (2 * T + 1) * k
  BY <1>11
<1>13. 2 * n <= (2 * R - 1) * d
  <2>1. (2 * n) * e <= ((2 * R - 1) * d) * e
    BY <1>6, <1>7, <1>8, <1>12
  <2>2. (2 * R - 1) * d \in Int /\ 2 * n \in Int
    OBVIOUS
  <2> QED BY <2>1, <2>2, ProductOrders
<1>14. (2 * T + 1) * e <= 2 * m
  <2>1. ((2 * T + 1) * e) * d <= (2 * m) * d
    BY <1>6, <1>7, <1>8, <1>12
  <2>2. (2 * T + 1) * e \in Int /\ 2 * m \in Int
    OBVIOUS
  <2> QED BY <2>1, <2>2, ProductOrders
<1>15. R % 2 = 0 /\ T % 2 = 0
  <2>1. (2 * R - 1) * d \in Int /\ (2 * T + 1) * e \in Int
    OBVIOUS
  <2> QED BY <1>3, <1>4, <1>13, <1>14, <2>1
<1> QED BY <1>11, <1>15

-----------------------------------------------------------------------------
\* The records of an auditor are finitely many, and every openness is a natural.
LEMMA RecordFacts ==
  ASSUME NEW recs \in Seq(Record), NEW a
  PROVE  /\ IsFiniteSet(PublishedOf(recs, a)) /\ PublishedOf(recs, a) \subseteq DOMAIN recs
         /\ IsFiniteSet(Judged(recs, a)) /\ Judged(recs, a) \subseteq DOMAIN recs
         /\ \A i \in DOMAIN recs : recs[i] \in Record /\ OpennessScore(recs[i].policy) \in Nat
<1>1. /\ Len(recs) \in Nat /\ DOMAIN recs = 1 .. Len(recs)
      /\ \A i \in DOMAIN recs : recs[i] \in Record
  <2>1. recs \in [1 .. Len(recs) -> Record] /\ Len(recs) \in Nat
    OBVIOUS
  <2> QED BY <2>1
<1>2. IsFiniteSet(DOMAIN recs)
  BY <1>1, FS_Interval
<1>3. PublishedOf(recs, a) \subseteq DOMAIN recs /\ Judged(recs, a) \subseteq DOMAIN recs
  BY DEF PublishedOf, Judged, Of
<1>4. IsFiniteSet(PublishedOf(recs, a)) /\ IsFiniteSet(Judged(recs, a))
  BY <1>2, <1>3, FS_Subset
<1>5. ASSUME NEW policy \in Policy
      PROVE  OpennessScore(policy) \in Nat
  <2>1. ThresholdPoints[policy.threshold] \in Nat
    BY DEF Policy, Severity, SeverityRank, ThresholdPoints
  <2>2. PICK t \in Nat : t = ThresholdPoints[policy.threshold]
    BY <2>1
  <2>3. \A v \in {35, 18}, w \in {10, 0}, x \in {0, 10}, y \in {15, 6} :
          v + t + w + x + y \in Nat
    OBVIOUS
  <2>4. PICK v \in {35, 18} : v = IF Cardinality(policy.allowed) = 2 THEN 35 ELSE 18
    OBVIOUS
  <2>5. PICK w \in {10, 0} : w = IF policy.informational THEN 10 ELSE 0
    OBVIOUS
  <2>6. PICK x \in {0, 10} : x = IF policy.material THEN 0 ELSE 10
    OBVIOUS
  <2>7. PICK y \in {15, 6} : y = IF policy.mode = "broad" THEN 15 ELSE 6
    OBVIOUS
  <2>8. OpennessScore(policy) = v + t + w + x + y
    BY <2>2, <2>4, <2>5, <2>6, <2>7 DEF OpennessScore
  <2> QED BY <2>3, <2>8
<1>6. \A i \in DOMAIN recs : recs[i].policy \in Policy
  BY <1>1 DEF Record
<1> QED BY <1>1, <1>3, <1>4, <1>5, <1>6

\* Openness is a natural number.
LEMMA OpennessIsNat ==
  ASSUME NEW recs \in Seq(Record), NEW a
  PROVE  Openness(recs, a) \in Nat
<1> DEFINE claims == PublishedOf(recs, a)
           points == [i \in claims |-> OpennessScore(recs[i].policy)]
<1>1. CASE claims = {}
  BY <1>1 DEF Openness
<1>2. CASE claims # {}
  <2>1. IsFiniteSet(claims) /\ \A i \in claims : points[i] \in Nat
    BY RecordFacts
  <2>2. Openness(recs, a) =
          RoundHalfEven(SumFunctionOnSet(points, claims), Cardinality(claims))
    BY <1>2 DEF Openness
  <2> HIDE DEF claims, points
  <2>3. Cardinality(claims) \in Nat \ {0} /\ SumFunctionOnSet(points, claims) \in Nat
    BY <1>2, <2>1, SumNat, FS_CardinalityType, FS_EmptySet
  <2> QED BY <2>2, <2>3, RoundsToNearest
<1> QED BY <1>1, <1>2

\* Of the challenges that count, the share that was rejected.
Upright(recs, a) == {i \in Judged(recs, a) : recs[i].resolution = "rejected"}

\* Accuracy is a natural number, and a rounded share of finite sets.
LEMMA AccuracyFacts ==
  ASSUME NEW recs \in Seq(Record), NEW a
  PROVE  /\ Accuracy(recs, a) \in Nat
         /\ Judged(recs, a) = {} => Accuracy(recs, a) = 50
         /\ Judged(recs, a) # {} =>
              Accuracy(recs, a) = RoundHalfEven(100 * Cardinality(Upright(recs, a)),
                                                Cardinality(Judged(recs, a)))
         /\ IsFiniteSet(Judged(recs, a)) /\ IsFiniteSet(Upright(recs, a))
         /\ Cardinality(Judged(recs, a)) \in Nat /\ Cardinality(Upright(recs, a)) \in Nat
         /\ Cardinality(Upright(recs, a)) <= Cardinality(Judged(recs, a))
         /\ Judged(recs, a) # {} => Cardinality(Judged(recs, a)) # 0
<1> DEFINE J == Judged(recs, a)
           U == Upright(recs, a)
<1>1. IsFiniteSet(J) /\ U \subseteq J
  BY RecordFacts DEF Upright
<1>2. /\ J = {} => Accuracy(recs, a) = 50
      /\ J # {} => Accuracy(recs, a) = RoundHalfEven(100 * Cardinality(U), Cardinality(J))
  BY DEF Accuracy, Upright
<1> HIDE DEF J, U
<1>3. /\ IsFiniteSet(U) /\ Cardinality(J) \in Nat /\ Cardinality(U) \in Nat
      /\ Cardinality(U) <= Cardinality(J)
  BY <1>1, FS_Subset, FS_CardinalityType
<1>4. J # {} => Cardinality(J) # 0
  BY <1>1, FS_EmptySet
<1>5. Accuracy(recs, a) \in Nat
  <2>1. CASE J = {}
    BY <1>2, <2>1
  <2>2. CASE J # {}
    <3>1. Cardinality(J) \in Nat \ {0} /\ 100 * Cardinality(U) \in Nat
      BY <1>3, <1>4, <2>2
    <3> QED BY <1>2, <2>2, <3>1, RoundsToNearest
  <2> QED BY <2>1, <2>2
<1> QED BY <1>1, <1>2, <1>3, <1>4, <1>5 DEF J, U

\* Openness depends on which claims are published, and under which policies.
LEMMA OpennessStays ==
  ASSUME NEW recs \in Seq(Record), NEW next \in Seq(Record), NEW a,
         DOMAIN next = DOMAIN recs,
         \A i \in DOMAIN recs : next[i].agent = recs[i].agent,
         \A i \in Of(recs, a) : /\ next[i].status = "draft" <=> recs[i].status = "draft"
                                /\ next[i].policy = recs[i].policy
  PROVE  /\ PublishedOf(next, a) = PublishedOf(recs, a)
         /\ Openness(next, a) = Openness(recs, a)
<1>1. PublishedOf(next, a) = PublishedOf(recs, a)
  BY DEF PublishedOf, Of
<1>2. \A i \in PublishedOf(recs, a) : next[i].policy = recs[i].policy
  BY DEF PublishedOf
<1>3. [i \in PublishedOf(next, a) |-> OpennessScore(next[i].policy)]
        = [i \in PublishedOf(recs, a) |-> OpennessScore(recs[i].policy)]
  BY <1>1, <1>2
<1> QED BY <1>1, <1>3 DEF Openness

\* Accuracy depends on which challenges count, and which of them were rejected.
LEMMA AccuracyStays ==
  ASSUME NEW recs, NEW next, NEW a,
         Judged(next, a) = Judged(recs, a), Upright(next, a) = Upright(recs, a)
  PROVE  Accuracy(next, a) = Accuracy(recs, a)
BY DEF Accuracy, Upright

\* A point of accuracy is worth more than a half that fell on the wrong side.
LEMMA ScoresFollowAccuracy ==
  ASSUME NEW recs \in Seq(Record), NEW next \in Seq(Record), NEW a,
         PublishedOf(recs, a) # {}, PublishedOf(next, a) = PublishedOf(recs, a),
         Openness(next, a) = Openness(recs, a),
         Accuracy(recs, a) <= Accuracy(next, a)
  PROVE  \/ Scores(next, a) = Scores(recs, a)
         \/ \A s \in Scores(recs, a), u \in Scores(next, a) : u >= s
<1>1. PICK o \in Nat : o = Openness(recs, a)
  BY OpennessIsNat
<1>2. PICK x \in Nat : x = Accuracy(recs, a)
  BY AccuracyFacts
<1>3. PICK y \in Nat : y = Accuracy(next, a)
  BY AccuracyFacts
<1> DEFINE Near(n) == IF n % 100 = 50 THEN {n \div 100, n \div 100 + 1}
                      ELSE {RoundHalfEven(n, 100)}
<1>4. Scores(recs, a) = Near(35 * o + 65 * x) /\ Scores(next, a) = Near(35 * o + 65 * y)
  BY <1>1, <1>2, <1>3 DEF Scores
<1>5. CASE x = y
  BY <1>4, <1>5
<1>6. CASE x < y
  <2>1. ASSUME NEW n \in Nat, NEW s \in Near(n)
        PROVE  s \in Int /\ 100 * s <= n + 50 /\ n - 50 <= 100 * s
    BY <2>1 DEF RoundHalfEven
  <2>2. ASSUME NEW s \in Scores(recs, a), NEW u \in Scores(next, a)
        PROVE  u >= s
    <3>1. s \in Int /\ 100 * s <= (35 * o + 65 * x) + 50
      <4>1. 35 * o + 65 * x \in Nat
        OBVIOUS
      <4> HIDE DEF Near
      <4> QED BY <1>4, <2>1, <4>1
    <3>2. u \in Int /\ (35 * o + 65 * y) - 50 <= 100 * u
      <4>1. 35 * o + 65 * y \in Nat
        OBVIOUS
      <4> HIDE DEF Near
      <4> QED BY <1>4, <2>1, <2>2, <4>1
    <3>3. 65 * y >= 65 * x + 65
      BY <1>6
    <3> QED BY <3>1, <3>2, <3>3
  <2> QED BY <2>2
<1>7. x < y \/ x = y
  BY <1>2, <1>3
<1> QED BY <1>5, <1>6, <1>7

\* A rejected challenge that counts does not cost accuracy, an upheld one
\* gains none.
LEMMA VerdictMovesAccuracy ==
  ASSUME NEW recs \in Seq(Record), NEW next \in Seq(Record), NEW a, NEW i,
         i \notin Judged(recs, a), Judged(next, a) = Judged(recs, a) \cup {i}
  PROVE  /\ Upright(next, a) = Upright(recs, a) \cup {i} =>
              Accuracy(recs, a) <= Accuracy(next, a)
         /\ Upright(next, a) = Upright(recs, a) => Accuracy(next, a) <= Accuracy(recs, a)
<1>1. PICK m \in Nat : m = Cardinality(Judged(recs, a))
  BY AccuracyFacts
<1>2. PICK k \in Nat : k = Cardinality(Upright(recs, a))
  BY AccuracyFacts
<1>3. k <= m
  BY <1>1, <1>2, AccuracyFacts
<1>4. Cardinality(Judged(next, a)) = m + 1 /\ Judged(next, a) # {}
  BY <1>1, AccuracyFacts, FS_AddElement
<1>5. Accuracy(next, a) = RoundHalfEven(100 * Cardinality(Upright(next, a)), m + 1)
  BY <1>4, AccuracyFacts
<1>6. Judged(recs, a) # {} => m # 0 /\ Accuracy(recs, a) = RoundHalfEven(100 * k, m)
  BY <1>1, <1>2, AccuracyFacts
<1>7. Judged(recs, a) = {} => m = 0 /\ k = 0 /\ Accuracy(recs, a) = 50
  BY <1>1, <1>2, <1>3, AccuracyFacts, FS_EmptySet
<1>8. RoundHalfEven(100, 1) = 100 /\ RoundHalfEven(0, 1) = 0
  BY DEF RoundHalfEven
<1>9. ASSUME Upright(next, a) = Upright(recs, a) \cup {i}
      PROVE  Accuracy(recs, a) <= Accuracy(next, a)
  <2>1. i \notin Upright(recs, a)
    BY DEF Upright
  <2>2. Cardinality(Upright(next, a)) = k + 1
    BY <1>2, <1>9, <2>1, AccuracyFacts, FS_AddElement
  <2>3. CASE Judged(recs, a) = {}
    BY <1>5, <1>7, <1>8, <2>2, <2>3
  <2>4. CASE Judged(recs, a) # {}
    <3>1. (100 * k) * (m + 1) <= (100 * (k + 1)) * m
      <4>1. PICK c \in Nat : c = k * m
        OBVIOUS
      <4>2. /\ (100 * k) * (m + 1) = 100 * c + 100 * k
            /\ (100 * (k + 1)) * m = 100 * c + 100 * m
        BY <4>1
      <4> QED BY <1>3, <4>2
    <3>2. 100 * k \in Nat /\ 100 * (k + 1) \in Nat /\ m \in Nat \ {0} /\ m + 1 \in Nat \ {0}
      BY <1>6, <2>4
    <3>3. RoundHalfEven(100 * k, m) <= RoundHalfEven(100 * (k + 1), m + 1)
      BY <3>1, <3>2, RoundingIsMonotone
    <3> QED BY <1>5, <1>6, <2>2, <2>4, <3>3
  <2> QED BY <2>3, <2>4
<1>10. ASSUME Upright(next, a) = Upright(recs, a)
       PROVE  Accuracy(next, a) <= Accuracy(recs, a)
  <2>1. Accuracy(next, a) = RoundHalfEven(100 * k, m + 1)
    BY <1>2, <1>5, <1>10
  <2>2. CASE Judged(recs, a) = {}
    BY <1>7, <1>8, <2>1, <2>2
  <2>3. CASE Judged(recs, a) # {}
    <3>1. (100 * k) * m <= (100 * k) * (m + 1)
      <4>1. PICK c \in Nat : c = k * m
        OBVIOUS
      <4>2. (100 * k) * (m + 1) = 100 * c + 100 * k /\ (100 * k) * m = 100 * c
        BY <4>1
      <4> QED BY <4>2
    <3>2. 100 * k \in Nat /\ m \in Nat \ {0} /\ m + 1 \in Nat \ {0}
      BY <1>6, <2>3
    <3> QED BY <1>6, <2>1, <2>3, <3>1, <3>2, RoundingIsMonotone
  <2> QED BY <2>2, <2>3
<1> QED BY <1>9, <1>10

-----------------------------------------------------------------------------
\* What a step of record i does to the sequence.
LEMMA StepFacts ==
  ASSUME records \in Seq(Record), NEW i \in DOMAIN records, NEW r \in Record,
         r.agent = records[i].agent, records' = [records EXCEPT ![i] = r]
  PROVE  /\ records' \in Seq(Record) /\ DOMAIN records' = DOMAIN records
         /\ records'[i] = r /\ records[i] \in Record
         /\ \A j \in DOMAIN records \ {i} : records'[j] = records[j]
         /\ \A j \in DOMAIN records : records'[j].agent = records[j].agent
         /\ \A a : Of(records', a) = Of(records, a)
<1>1. /\ records \in [1 .. Len(records) -> Record] /\ Len(records) \in Nat
      /\ DOMAIN records = 1 .. Len(records)
  OBVIOUS
<1>2. /\ DOMAIN records' = DOMAIN records /\ records'[i] = r /\ records[i] \in Record
      /\ \A j \in DOMAIN records \ {i} : records'[j] = records[j]
  BY <1>1
<1>3. records' \in Seq(Record)
  <2>1. records' \in [1 .. Len(records) -> Record]
    BY <1>1
  <2> QED BY <1>1, <2>1
<1>4. \A j \in DOMAIN records : records'[j].agent = records[j].agent
  BY <1>2
<1> QED BY <1>2, <1>3, <1>4 DEF Of

\* A step that settles nothing leaves every accuracy, and one that publishes
\* nothing every openness.
LEMMA QuietStep ==
  ASSUME records \in Seq(Record), NEW i \in DOMAIN records, NEW r \in Record,
         r.agent = records[i].agent, records' = [records EXCEPT ![i] = r], NEW a
  PROVE  /\ ~(/\ records[i].agent = a /\ r.admissibility # "inadmissible"
              /\ r.status = "resolved")
           /\ records[i].status # "resolved"
           => /\ Judged(records', a) = Judged(records, a)
              /\ Accuracy(records', a) = Accuracy(records, a)
         /\ \/ records[i].agent # a
            \/ /\ r.status = "draft" <=> records[i].status = "draft"
               /\ r.policy = records[i].policy
           => /\ PublishedOf(records', a) = PublishedOf(records, a)
              /\ Openness(records', a) = Openness(records, a)
<1>1. /\ records' \in Seq(Record) /\ DOMAIN records' = DOMAIN records
      /\ records'[i] = r /\ records[i] \in Record
      /\ \A j \in DOMAIN records \ {i} : records'[j] = records[j]
      /\ \A j \in DOMAIN records : records'[j].agent = records[j].agent
      /\ Of(records', a) = Of(records, a)
  BY StepFacts
<1>2. ASSUME ~(/\ records[i].agent = a /\ r.admissibility # "inadmissible"
               /\ r.status = "resolved"),
             records[i].status # "resolved"
      PROVE  /\ Judged(records', a) = Judged(records, a)
             /\ Accuracy(records', a) = Accuracy(records, a)
  <2>1. i \notin Judged(records, a) /\ i \notin Judged(records', a)
    BY <1>1, <1>2 DEF Judged, Of
  <2>2. \A j \in DOMAIN records \ {i} : j \in Judged(records', a) <=> j \in Judged(records, a)
    BY <1>1 DEF Judged
  <2>3. Judged(records, a) \subseteq DOMAIN records /\ Judged(records', a) \subseteq DOMAIN records
    BY <1>1 DEF Judged, Of
  <2>4. Judged(records', a) = Judged(records, a)
    <3>1. \A j \in DOMAIN records : j \in Judged(records', a) <=> j \in Judged(records, a)
      BY <2>1, <2>2
    <3> QED BY <2>3, <3>1
  <2>5. Upright(records', a) = Upright(records, a)
    BY <1>1, <2>1, <2>3, <2>4 DEF Upright
  <2> QED BY <2>4, <2>5, AccuracyStays
<1>3. ASSUME \/ records[i].agent # a
             \/ /\ r.status = "draft" <=> records[i].status = "draft"
                /\ r.policy = records[i].policy
      PROVE  /\ PublishedOf(records', a) = PublishedOf(records, a)
             /\ Openness(records', a) = Openness(records, a)
  <2>1. \A j \in Of(records, a) :
          /\ records'[j].status = "draft" <=> records[j].status = "draft"
          /\ records'[j].policy = records[j].policy
    BY <1>1, <1>3 DEF Of
  <2> QED BY <1>1, <2>1, OpennessStays
<1> QED BY <1>2, <1>3

\* A record that moves one step on moves reputations as it should.
LEMMA StepMoves ==
  ASSUME records \in Seq(Record), NEW i \in DOMAIN records, NEW r \in Record,
         r.agent = records[i].agent, records' = [records EXCEPT ![i] = r], NEW a,
         records[i].status # "resolved",
         \/ records[i].status = "draft" /\ r.status = "published"
         \/ /\ records[i].status \in {"published", "challenged"}
            /\ r.status = "challenged" /\ r.policy = records[i].policy
         \/ /\ records[i].status = "challenged"
            /\ r.status = "resolved" /\ r.policy = records[i].policy
            /\ r.admissibility = records[i].admissibility
            /\ r.resolution \in {"upheld", "rejected"}
  PROVE  Moves(i, a)
<1> DEFINE counts == /\ records[i].status = "challenged" /\ r.status = "resolved"
                     /\ records[i].agent = a
                     /\ records[i].admissibility # "inadmissible"
<1>1. /\ records' \in Seq(Record) /\ DOMAIN records' = DOMAIN records
      /\ records'[i] = r
      /\ \A j \in DOMAIN records \ {i} : records'[j] = records[j]
      /\ Of(records', a) = Of(records, a)
  BY StepFacts
<1>2. PICK x \in Nat : x = Accuracy(records, a)
  BY AccuracyFacts
<1>3. PICK y \in Nat : y = Accuracy(records', a)
  BY <1>1, AccuracyFacts
<1>4. ~(records[i].status = "draft" /\ records[i].agent = a) =>
        /\ PublishedOf(records', a) = PublishedOf(records, a)
        /\ Openness(records', a) = Openness(records, a)
  <2>1. ~(records[i].status = "draft" /\ records[i].agent = a) =>
          \/ records[i].agent # a
          \/ /\ r.status = "draft" <=> records[i].status = "draft"
             /\ r.policy = records[i].policy
    OBVIOUS
  <2> QED BY <2>1, QuietStep
<1>5. ~counts => /\ Judged(records', a) = Judged(records, a)
                 /\ Accuracy(records', a) = Accuracy(records, a)
  <2>1. ~counts => ~(/\ records[i].agent = a /\ r.admissibility # "inadmissible"
                     /\ r.status = "resolved")
    OBVIOUS
  <2> HIDE DEF counts
  <2> QED BY <2>1, QuietStep
<1>6. counts => /\ i \notin Judged(records, a)
                /\ Judged(records', a) = Judged(records, a) \cup {i}
                /\ PublishedOf(records, a) # {}
                /\ r.resolution \in {"upheld", "rejected"}
                /\ r.resolution = "rejected" =>
                     Upright(records', a) = Upright(records, a) \cup {i}
                /\ r.resolution = "upheld" => Upright(records', a) = Upright(records, a)
  <2> SUFFICES ASSUME counts
               PROVE  /\ i \notin Judged(records, a)
                      /\ Judged(records', a) = Judged(records, a) \cup {i}
                      /\ PublishedOf(records, a) # {}
                      /\ r.resolution \in {"upheld", "rejected"}
                      /\ r.resolution = "rejected" =>
                           Upright(records', a) = Upright(records, a) \cup {i}
                      /\ r.resolution = "upheld" =>
                           Upright(records', a) = Upright(records, a)
    OBVIOUS
  <2>1. i \in Of(records, a) /\ i \notin Judged(records, a) /\ i \in PublishedOf(records, a)
    BY DEF Of, Judged, PublishedOf
  <2>2. /\ r.admissibility = records[i].admissibility
        /\ r.resolution \in {"upheld", "rejected"}
    OBVIOUS
  <2>3. i \in Judged(records', a)
    BY <1>1, <2>1, <2>2 DEF Judged
  <2>4. \A j \in DOMAIN records \ {i} : j \in Judged(records', a) <=> j \in Judged(records, a)
    BY <1>1 DEF Judged
  <2>5. Judged(records, a) \subseteq DOMAIN records /\ Judged(records', a) \subseteq DOMAIN records
    BY <1>1 DEF Judged, Of
  <2>6. Judged(records', a) = Judged(records, a) \cup {i}
    <3>1. \A j \in DOMAIN records :
            j \in Judged(records', a) <=> j \in Judged(records, a) \cup {i}
      BY <2>3, <2>4
    <3> QED BY <2>5, <3>1
  <2>7. \A j \in Judged(records, a) : records'[j] = records[j]
    BY <1>1, <2>1, <2>5
  <2>8. /\ r.resolution = "rejected" => Upright(records', a) = Upright(records, a) \cup {i}
        /\ r.resolution = "upheld" => Upright(records', a) = Upright(records, a)
    BY <1>1, <2>6, <2>7 DEF Upright
  <2> QED BY <2>1, <2>2, <2>6, <2>8
<1>7. counts => /\ r.resolution = "rejected" => x <= y
                /\ r.resolution = "upheld" => y <= x
  <2> HIDE DEF counts
  <2> QED BY <1>1, <1>2, <1>3, <1>6, VerdictMovesAccuracy
<1>8. y > x => counts /\ r.resolution = "rejected"
  <2> HIDE DEF counts
  <2> QED BY <1>2, <1>3, <1>5, <1>6, <1>7
<1>9. y < x => counts /\ r.resolution = "upheld"
  <2> HIDE DEF counts
  <2> QED BY <1>2, <1>3, <1>5, <1>6, <1>7
<1>10. Openness(records', a) # Openness(records, a) =>
         records[i].status = "draft" /\ records[i].agent = a
  BY <1>4
<1>11. counts /\ r.resolution = "rejected" =>
         \/ Scores(records', a) = Scores(records, a)
         \/ \A s \in Scores(records, a), u \in Scores(records', a) : u >= s
  <2>1. counts => records[i].status # "draft"
    OBVIOUS
  <2> HIDE DEF counts
  <2> QED BY <1>1, <1>2, <1>3, <1>4, <1>6, <1>7, <2>1, ScoresFollowAccuracy
<1>12. ~counts /\ records[i].status # "draft" => Scores(records', a) = Scores(records, a)
  <2> SUFFICES ASSUME ~counts, records[i].status # "draft"
               PROVE  Scores(records', a) = Scores(records, a)
    OBVIOUS
  <2> HIDE DEF counts
  <2>1. /\ PublishedOf(records', a) = PublishedOf(records, a)
        /\ Openness(records', a) = Openness(records, a)
    BY <1>4
  <2>2. /\ Judged(records', a) = Judged(records, a)
        /\ Accuracy(records', a) = Accuracy(records, a)
    BY <1>5
  <2> DEFINE Rating(openness, accuracy, neutral) ==
               IF neutral THEN {50}
               ELSE IF (35 * openness + 65 * accuracy) % 100 = 50
                    THEN {(35 * openness + 65 * accuracy) \div 100,
                          (35 * openness + 65 * accuracy) \div 100 + 1}
               ELSE {RoundHalfEven(35 * openness + 65 * accuracy, 100)}
  <2>3. /\ Scores(records, a) =
             Rating(Openness(records, a), Accuracy(records, a),
                   PublishedOf(records, a) = {} /\ Judged(records, a) = {})
        /\ Scores(records', a) =
             Rating(Openness(records', a), Accuracy(records', a),
                   PublishedOf(records', a) = {} /\ Judged(records', a) = {})
    BY DEF Scores
  <2> HIDE DEF Rating
  <2> QED BY <2>1, <2>2, <2>3
<1> QED BY <1>1, <1>2, <1>3, <1>8, <1>9, <1>10, <1>11, <1>12 DEF Moves

\* A draft changes no record there is.
LEMMA DraftFacts ==
  ASSUME ReputationTypeOK, NEW a \in Auditor, Draft(a)
  PROVE  /\ ReputationTypeOK'
         /\ \A i \in DOMAIN records : records'[i] = records[i]
<1> DEFINE r == [agent |-> a, status |-> "draft", policy |-> DefaultPolicy,
                 admissibility |-> "none", resolution |-> "none"]
<1>1. r \in Record
  BY DEF Record, Policy, DefaultPolicy, EvidenceType, Severity, SeverityRank, Admissibility
<1>2. records' = Append(records, r) /\ records \in Seq(Record)
  BY DEF Draft, ReputationTypeOK
<1> HIDE DEF r
<1>3. records' \in Seq(Record)
  BY <1>1, <1>2
<1>4. \A i \in DOMAIN records : records'[i] = records[i]
  <2>1. /\ DOMAIN records = 1 .. Len(records)
        /\ \A i \in 1 .. Len(records) : Append(records, r)[i] = records[i]
    BY <1>1, <1>2
  <2> QED BY <1>2, <2>1
<1> QED BY <1>3, <1>4 DEF ReputationTypeOK

\* Every other step replaces one record, as StepMoves asks.
LEMMA StepReplaces ==
  ASSUME ReputationTypeOK, NEW i \in DOMAIN records,
         \/ \E policy \in PublishedUnder : PublishUnder(i, policy)
         \/ OpenOn(i)
         \/ \E answer \in {"admissible", "inadmissible"} : Evaluated(i, answer)
         \/ \E ruling \in {"upheld", "rejected"} : ResolveAs(i, ruling)
  PROVE  ReputationTypeOK' /\ \A a : Moves(i, a)
<1> DEFINE Replaced(r) == records' = [records EXCEPT ![i] = r]
           Fits(r) ==
             /\ r \in Record /\ r.agent = records[i].agent
             /\ records[i].status # "resolved"
             /\ \/ records[i].status = "draft" /\ r.status = "published"
                \/ /\ records[i].status \in {"published", "challenged"}
                   /\ r.status = "challenged" /\ r.policy = records[i].policy
                \/ /\ records[i].status = "challenged"
                   /\ r.status = "resolved" /\ r.policy = records[i].policy
                   /\ r.admissibility = records[i].admissibility
                   /\ r.resolution \in {"upheld", "rejected"}
<1>1. records \in Seq(Record) /\ records[i] \in Record
  <2>1. records \in [1 .. Len(records) -> Record] /\ Len(records) \in Nat
    BY DEF ReputationTypeOK
  <2> QED BY <2>1 DEF ReputationTypeOK
<1>2. ASSUME NEW r, Replaced(r), Fits(r)
      PROVE  ReputationTypeOK' /\ \A a : Moves(i, a)
  <2>1. records' \in Seq(Record)
    BY <1>1, <1>2, StepFacts
  <2>2. ASSUME NEW a PROVE Moves(i, a)
    BY <1>1, <1>2, StepMoves
  <2> QED BY <2>1, <2>2 DEF ReputationTypeOK
<1>3. CASE \E policy \in PublishedUnder : PublishUnder(i, policy)
  <2>1. PICK policy \in PublishedUnder : PublishUnder(i, policy)
    BY <1>3
  <2> DEFINE r == [records[i] EXCEPT !.status = "published", !.policy = policy]
  <2>2. Replaced(r)
    BY <2>1 DEF PublishUnder
  <2>3. Fits(r)
    BY <1>1, <2>1, ReputationAssumption DEF PublishUnder, Record
  <2> HIDE DEF r, Replaced, Fits
  <2> QED BY <1>2, <2>2, <2>3
<1>4. CASE OpenOn(i)
  <2> DEFINE r == [records[i] EXCEPT !.status = "challenged"]
  <2>1. Replaced(r)
    BY <1>4 DEF OpenOn
  <2>2. Fits(r)
    BY <1>1, <1>4 DEF OpenOn, Record
  <2> HIDE DEF r, Replaced, Fits
  <2> QED BY <1>2, <2>1, <2>2
<1>5. CASE \E answer \in {"admissible", "inadmissible"} : Evaluated(i, answer)
  <2>1. PICK answer \in {"admissible", "inadmissible"} : Evaluated(i, answer)
    BY <1>5
  <2> DEFINE r == [records[i] EXCEPT !.admissibility = answer]
  <2>2. Replaced(r)
    BY <2>1 DEF Evaluated
  <2>3. Fits(r)
    BY <1>1, <2>1 DEF Evaluated, Record, Admissibility
  <2> HIDE DEF r, Replaced, Fits
  <2> QED BY <1>2, <2>2, <2>3
<1>6. CASE \E ruling \in {"upheld", "rejected"} : ResolveAs(i, ruling)
  <2>1. PICK ruling \in {"upheld", "rejected"} : ResolveAs(i, ruling)
    BY <1>6
  <2> DEFINE r == [records[i] EXCEPT !.status = "resolved", !.resolution = ruling]
  <2>2. Replaced(r)
    BY <2>1 DEF ResolveAs
  <2>3. Fits(r)
    BY <1>1, <2>1 DEF ResolveAs, Record
  <2> HIDE DEF r, Replaced, Fits
  <2> QED BY <1>2, <2>2, <2>3
<1> QED BY <1>3, <1>4, <1>5, <1>6

\* A step of another record leaves this one.
LEMMA OthersStand ==
  ASSUME ReputationTypeOK, NEW j \in DOMAIN records, NEW i \in DOMAIN records, i # j,
         \/ \E policy \in PublishedUnder : PublishUnder(j, policy)
         \/ OpenOn(j)
         \/ \E answer \in {"admissible", "inadmissible"} : Evaluated(j, answer)
         \/ \E ruling \in {"upheld", "rejected"} : ResolveAs(j, ruling)
  PROVE  records'[i] = records[i]
BY DEF PublishUnder, OpenOn, Evaluated, ResolveAs

\* A reputation moves only with the auditor's own records: openness when a claim
\* is published, accuracy when an admissible challenge is resolved, and a
\* rejected one never lowers the score, however its halves were rounded
\* (_build_reputation_index of service.py).
THEOREM ReputationFollowsTheRecord == ReputationSpec => ReputationFollowsVerdicts
<1> DEFINE Step == \A a \in Auditor, i \in DOMAIN records :
                     records[i] # records'[i] => Moves(i, a)
<1>1. ReputationInit => ReputationTypeOK
  BY DEF ReputationInit, ReputationTypeOK
<1>2. ReputationTypeOK /\ [ReputationNext]_records => ReputationTypeOK' /\ [Step]_records
  <2> SUFFICES ASSUME ReputationTypeOK, ReputationNext \/ UNCHANGED records
               PROVE  ReputationTypeOK' /\ (Step \/ UNCHANGED records)
    OBVIOUS
  <2>1. CASE \E a \in Auditor : Draft(a)
    BY <2>1, DraftFacts
  <2>2. CASE \E j \in DOMAIN records :
               \/ \E policy \in PublishedUnder : PublishUnder(j, policy)
               \/ OpenOn(j)
               \/ \E answer \in {"admissible", "inadmissible"} : Evaluated(j, answer)
               \/ \E ruling \in {"upheld", "rejected"} : ResolveAs(j, ruling)
    <3>1. PICK j \in DOMAIN records :
               \/ \E policy \in PublishedUnder : PublishUnder(j, policy)
               \/ OpenOn(j)
               \/ \E answer \in {"admissible", "inadmissible"} : Evaluated(j, answer)
               \/ \E ruling \in {"upheld", "rejected"} : ResolveAs(j, ruling)
      BY <2>2
    <3>2. ReputationTypeOK' /\ \A a : Moves(j, a)
      BY <3>1, StepReplaces
    <3>3. \A i \in DOMAIN records : i # j => records'[i] = records[i]
      BY <3>1, OthersStand
    <3> QED BY <3>2, <3>3
  <2>3. CASE UNCHANGED records
    BY <2>3 DEF ReputationTypeOK
  <2> QED BY <2>1, <2>2, <2>3 DEF ReputationNext
<1>3. ReputationSpec => []ReputationTypeOK /\ [][Step]_records
  BY <1>1, <1>2, PTL DEF ReputationSpec
<1> QED BY <1>3 DEF ReputationFollowsVerdicts
=============================================================================
