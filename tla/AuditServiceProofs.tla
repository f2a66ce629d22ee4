------------------------- MODULE AuditServiceProofs -------------------------
(***************************************************************************)
(* Proofs about AuditService: no record and no mirror runs ahead of the    *)
(* chain, for any number of audits, threads and on-chain ids, whatever is  *)
(* lost, late or interrupted.                                              *)
(*                                                                         *)
(* The handlers take no lock, so what a thread holds may be old.  It is    *)
(* kept all the same because the chain only grows in what records repeat:  *)
(* an id keeps its author, a challenge that was opened stays in the log,   *)
(* and a verdict is final (ChainGrows).  What a record says of those       *)
(* things stays true however long a thread waits.                          *)
(***************************************************************************)
EXTENDS AuditService, FiniteSetTheorems, TLAPS

Verdict(upheld) == IF upheld THEN "Upheld" ELSE "Rejected"

\* What a record of audit a may say, given the chain.
RecordKept(a, record) ==
  /\ record.entry = NoEntry <=> record.status \in {"none", "draft"}
  /\ record.entry = NoEntry => record.claimState = "None" /\ record.challenge = "none"
  /\ record.entry # NoEntry => author[record.entry] = a
  /\ record.status = "resolved" =>
       stage[record.entry] = Verdict(record.challenge = "upheld")
  /\ record.challenge # "none" => record.entry \in opened
  /\ record.claimState \in {"Upheld", "Rejected"} =>
       stage[record.entry] = record.claimState

\* What a thread knows at a step, with its audit, its copy of the record and
\* the verdict it carries.
StepKept(a, step, record, upheld) ==
  /\ RecordKept(a, record)
  /\ step \in {"publish", "submit"} => record.status = "draft"
  /\ step \in {"requestValidation", "recordClaim", "readClaim", "challenge", "open",
               "verify", "autoResolve", "resolve", "respond", "recordResolution"} =>
       record.entry # NoEntry
  /\ step \in {"open", "verify", "autoResolve", "resolve"} =>
       record.challenge # "none"
  /\ step \in {"respond", "recordResolution"} =>
       stage[record.entry] = Verdict(upheld)

ThreadKept(t) == StepKept(t.audit, t.step, t.record, t.upheld)

\* What a transaction to a mirror rests on, however late it is mined.
TransactionKept(tx) ==
  /\ tx.call \in {"requestValidation", "recordClaim"} =>
       tx.entry \in Entries /\ author[tx.entry] # NoAudit
  /\ tx.call \in {"respond", "recordResolution"} =>
       tx.entry \in Entries /\ stage[tx.entry] = Verdict(tx.upheld)

\* An id has an author from the moment it is given out.
AuthorsAreKnown == \A id \in Entries : stage[id] = "None" <=> author[id] = NoAudit

ChainTyped ==
  /\ stage \in [Entries -> Stage]
  /\ author \in [Entries -> Audit \cup {NoAudit}]
  /\ opened \subseteq Entries
  /\ registry \in [Entries -> [validation : Mirror, reputation : Mirror]]

ChainCore == ChainTyped /\ AuthorsAreKnown /\ MirrorsFollowVerdicts

LateKept == late \subseteq Transaction /\ \A tx \in late : TransactionKept(tx)

ServiceCore ==
  /\ ServiceTypeOK /\ ChainCore
  /\ \A a \in Audit : RecordKept(a, store[a])
  /\ \A h \in Handler : handlers[h] # Idle => ThreadKept(handlers[h])
  /\ LateKept

\* What no step of the chain takes back.
ChainGrows ==
  /\ \A id \in Entries : author[id] # NoAudit => author'[id] = author[id]
  /\ opened \subseteq opened'
  /\ \A id \in Entries : stage[id] \in {"Upheld", "Rejected"} => stage'[id] = stage[id]

-----------------------------------------------------------------------------
(***************************************************************************)
(* Steps of the chain.                                                     *)
(***************************************************************************)

\* A move of an entry from one stage to another.
LEMMA MoveFacts ==
  ASSUME ChainTyped, NEW id \in Entries, NEW from, NEW to \in Stage,
         Move(id, from, to)
  PROVE  /\ stage' \in [Entries -> Stage] /\ stage[id] = from /\ stage'[id] = to
         /\ \A k \in Entries : k # id => stage'[k] = stage[k]
BY DEF ChainTyped, Move

\* The mirrors stay right while verdicts and authors do.
LEMMA MirrorsStay ==
  ASSUME ChainCore, ChainGrows, UNCHANGED registry
  PROVE  MirrorsFollowVerdicts'
<1> SUFFICES ASSUME NEW id \in Entries,
                    NEW shown \in {registry[id].validation, registry[id].reputation}
             PROVE  /\ shown = "confirmed" => stage'[id] = "Rejected"
                    /\ shown = "refuted" => stage'[id] = "Upheld"
                    /\ shown # "none" => author'[id] # NoAudit
  BY DEF MirrorsFollowVerdicts
<1>1. /\ shown = "confirmed" => stage[id] = "Rejected"
      /\ shown = "refuted" => stage[id] = "Upheld"
      /\ shown # "none" => author[id] # NoAudit
  BY DEF ChainCore, MirrorsFollowVerdicts
<1> QED BY <1>1 DEF ChainGrows

\* An entry is given out to an audit.
LEMMA GivingOutGrows ==
  ASSUME ChainCore, NEW id \in Entries, NEW a \in Audit, Publish(id),
         author' = [author EXCEPT ![id] = a], UNCHANGED <<opened, registry>>
  PROVE  ChainCore' /\ ChainGrows /\ author'[id] = a
<1>1. /\ stage' \in [Entries -> Stage] /\ stage[id] = "None" /\ stage'[id] = "Published"
      /\ \A k \in Entries : k # id => stage'[k] = stage[k]
  BY MoveFacts DEF ChainCore, Publish, Stage
<1>2. /\ author' \in [Entries -> Audit \cup {NoAudit}] /\ author'[id] = a
      /\ a # NoAudit /\ \A k \in Entries : k # id => author'[k] = author[k]
  BY ServiceAssumption DEF ChainCore, ChainTyped
<1>3. author[id] = NoAudit
  BY <1>1 DEF ChainCore, AuthorsAreKnown
<1>4. ChainGrows
  BY <1>1, <1>2, <1>3 DEF ChainGrows
<1>5. ChainTyped'
  BY <1>1, <1>2 DEF ChainCore, ChainTyped
<1>6. AuthorsAreKnown'
  BY <1>1, <1>2 DEF ChainCore, AuthorsAreKnown
<1> QED BY <1>2, <1>4, <1>5, <1>6, MirrorsStay DEF ChainCore

\* An entry that has been given out moves on, and not from a verdict.
LEMMA MovingGrows ==
  ASSUME ChainCore, NEW id \in Entries, NEW from \in {"Published", "Challenged"},
         NEW to \in Stage \ {"None"}, Move(id, from, to),
         opened' = opened \/ opened' = opened \cup {id}, UNCHANGED <<author, registry>>
  PROVE  ChainCore' /\ ChainGrows /\ stage'[id] = to
<1>1. /\ stage' \in [Entries -> Stage] /\ stage[id] = from /\ stage'[id] = to
      /\ \A k \in Entries : k # id => stage'[k] = stage[k]
  BY MoveFacts DEF ChainCore
<1>2. opened \subseteq opened' /\ opened' \subseteq Entries
  BY DEF ChainCore, ChainTyped
<1>3. ChainGrows
  BY <1>1, <1>2 DEF ChainGrows
<1>4. ChainTyped'
  BY <1>1, <1>2 DEF ChainCore, ChainTyped
<1>5. AuthorsAreKnown'
  BY <1>1 DEF ChainCore, AuthorsAreKnown
<1> QED BY <1>1, <1>3, <1>4, <1>5, MirrorsStay DEF ChainCore

\* A mirror takes what a transaction that is kept tells it.
LEMMA MirroringGrows ==
  ASSUME ChainCore, NEW tx \in Transaction, TransactionKept(tx), NEW id \in Entries,
         MineValidation(tx, id) \/ MineReputation(tx, id)
  PROVE  ChainCore' /\ ChainGrows
<1>1. UNCHANGED <<stage, author, opened>> /\ id = tx.entry
  BY DEF MineValidation, MineReputation
<1>2. ChainGrows /\ AuthorsAreKnown'
  BY <1>1 DEF ChainGrows, ChainCore, AuthorsAreKnown
<1>3. registry \in [Entries -> [validation : Mirror, reputation : Mirror]]
  BY DEF ChainCore, ChainTyped
<1>4. PICK shown \in Mirror \ {"none"} :
        /\ \/ registry' = [registry EXCEPT ![id].validation = shown]
           \/ registry' = [registry EXCEPT ![id].reputation = shown]
        /\ tx.call \in {"requestValidation", "recordClaim"} => shown = "recorded"
        /\ tx.call \notin {"requestValidation", "recordClaim"} =>
             /\ tx.call \in {"respond", "recordResolution"}
             /\ shown = (IF tx.upheld THEN "refuted" ELSE "confirmed")
  BY DEF MineValidation, MineReputation, Mirror
<1>5. registry' \in [Entries -> [validation : Mirror, reputation : Mirror]]
  BY <1>3, <1>4
<1>6. /\ \A k \in Entries : k # id => registry'[k] = registry[k]
      /\ registry'[id].validation \in {registry[id].validation, shown}
      /\ registry'[id].reputation \in {registry[id].reputation, shown}
  BY <1>3, <1>4
<1>7. /\ shown = "confirmed" => stage[id] = "Rejected"
      /\ shown = "refuted" => stage[id] = "Upheld"
      /\ author[id] # NoAudit
  <2>1. CASE tx.call \in {"requestValidation", "recordClaim"}
    BY <1>1, <1>4, <2>1 DEF TransactionKept
  <2>2. CASE tx.call \notin {"requestValidation", "recordClaim"}
    <3>1. stage[id] = Verdict(tx.upheld)
          /\ shown = (IF tx.upheld THEN "refuted" ELSE "confirmed")
      BY <1>1, <1>4, <2>2 DEF TransactionKept
    <3>2. stage[id] # "None"
      BY <3>1 DEF Verdict
    <3> QED BY <3>1, <3>2 DEF Verdict, ChainCore, AuthorsAreKnown
  <2> QED BY <2>1, <2>2
<1>8. MirrorsFollowVerdicts'
  <2> SUFFICES ASSUME NEW k \in Entries,
                      NEW s \in {registry'[k].validation, registry'[k].reputation}
               PROVE  /\ s = "confirmed" => stage[k] = "Rejected"
                      /\ s = "refuted" => stage[k] = "Upheld"
                      /\ s # "none" => author[k] # NoAudit
    BY <1>1 DEF MirrorsFollowVerdicts
  <2>1. CASE s = shown /\ k = id
    BY <1>7, <2>1
  <2>2. CASE s \in {registry[k].validation, registry[k].reputation}
    BY <2>2 DEF ChainCore, MirrorsFollowVerdicts
  <2> QED BY <1>6, <2>1, <2>2
<1>9. ChainTyped'
  BY <1>1, <1>5 DEF ChainCore, ChainTyped
<1> QED BY <1>2, <1>8, <1>9 DEF ChainCore

LEMMA MineGrows ==
  ASSUME ChainCore, NEW tx \in Transaction, TransactionKept(tx), NEW id \in Entries,
         Mine(tx, id)
  PROVE  ChainCore' /\ ChainGrows
<1>1. tx.audit \in Audit /\ tx.upheld \in BOOLEAN
  BY DEF Transaction
<1>2. CASE MinePublish(tx, id) \/ MineSubmit(tx, id)
  BY <1>1, <1>2, GivingOutGrows DEF MinePublish, MineSubmit
<1>3. CASE MineChallenge(tx, id)
  BY <1>3, MovingGrows DEF MineChallenge, Challenge, Stage
<1>4. CASE MineResolve(tx, id)
  BY <1>1, <1>4, MovingGrows DEF MineResolve, Resolve, Stage
<1>5. CASE MineValidation(tx, id) \/ MineReputation(tx, id)
  BY <1>5, MirroringGrows
<1> QED BY <1>2, <1>3, <1>4, <1>5 DEF Mine

LEMMA StillGrows ==
  ASSUME ChainCore, UNCHANGED chainVars
  PROVE  ChainCore' /\ ChainGrows
BY DEF chainVars, ChainCore, ChainTyped, AuthorsAreKnown, MirrorsFollowVerdicts,
   ChainGrows

\* What was said of the chain stays true as it grows.
LEMMA RecordStays ==
  ASSUME ChainTyped, ChainGrows, NEW a \in Audit, NEW record \in AuditRecord,
         RecordKept(a, record)
  PROVE  RecordKept(a, record)'
<1>1. record.entry = NoEntry \/ record.entry \in Entries
  BY DEF AuditRecord
<1>2. record.challenge # "none" => record.entry \in opened'
  BY DEF RecordKept, ChainGrows
<1>3. CASE record.entry = NoEntry
  BY <1>2, <1>3 DEF RecordKept
<1>4. CASE record.entry \in Entries
  <2>1. record.entry # NoEntry
    BY <1>4, ServiceAssumption
  <2>2. author'[record.entry] = a
    BY <1>4, <2>1, ServiceAssumption DEF RecordKept, ChainGrows
  <2>3. record.status = "resolved" =>
          stage'[record.entry] = Verdict(record.challenge = "upheld")
    BY <1>4 DEF RecordKept, ChainGrows, Verdict
  <2>4. record.claimState \in {"Upheld", "Rejected"} =>
          stage'[record.entry] = record.claimState
    BY <1>4 DEF RecordKept, ChainGrows
  <2> QED BY <1>2, <2>1, <2>2, <2>3, <2>4 DEF RecordKept
<1> QED BY <1>1, <1>3, <1>4

LEMMA StepStays ==
  ASSUME ChainTyped, ChainGrows, NEW a \in Audit, NEW step, NEW record \in AuditRecord,
         NEW upheld, StepKept(a, step, record, upheld)
  PROVE  StepKept(a, step, record, upheld)'
<1>1. record.entry \in Entries \cup {NoEntry}
  BY DEF AuditRecord
<1>2. RecordKept(a, record)'
  BY RecordStays DEF StepKept
<1>3. step \in {"respond", "recordResolution"} =>
        stage'[record.entry] = Verdict(upheld)
  BY <1>1 DEF StepKept, ChainGrows, Verdict
<1> QED BY <1>2, <1>3 DEF StepKept

LEMMA LateStays ==
  ASSUME ChainTyped, ChainGrows, LateKept,
         late' \subseteq late
  PROVE  LateKept'
BY DEF LateKept, TransactionKept, ChainGrows, Verdict

-----------------------------------------------------------------------------
(***************************************************************************)
(* Transactions of a thread.                                               *)
(***************************************************************************)

\* What a mined transaction leaves on the chain.
LEMMA MinedFacts ==
  ASSUME ChainCore, NEW tx \in Transaction, NEW id \in Entries, Mine(tx, id)
  PROVE  /\ tx.call \in {"publish", "submit"} => author'[id] = tx.audit
         /\ tx.call = "challenge" => id \in opened'
         /\ tx.call = "resolve" => stage'[id] = Verdict(tx.upheld)
<1>1. CASE tx.call \in {"publish", "submit"}
  BY <1>1 DEF Mine, MinePublish, MineSubmit, MineChallenge, MineResolve, MineValidation,
     MineReputation, ChainCore, ChainTyped
<1>2. CASE tx.call = "challenge"
  BY <1>2 DEF Mine, MinePublish, MineSubmit, MineChallenge, MineResolve, MineValidation,
     MineReputation
<1>3. CASE tx.call = "resolve"
  <2>1. MineResolve(tx, id)
    BY <1>3 DEF Mine, MinePublish, MineSubmit, MineChallenge, MineValidation, MineReputation
  <2> QED BY <1>3, <2>1 DEF MineResolve, Resolve, Move, ChainCore, ChainTyped, Verdict
<1> QED BY <1>1, <1>2, <1>3

\* A thread that calls a mirror knows what the mirror will be told.
LEMMA RequestIsKept ==
  ASSUME ServiceCore, NEW h \in Handler, NEW t \in Thread, t = handlers[h], ThreadKept(t),
         NEW call \in Calls,
         call \in {"requestValidation", "recordClaim", "respond", "recordResolution"} =>
           t.step = call
  PROVE  /\ Request(h, call) \in Transaction
         /\ TransactionKept(Request(h, call))
         /\ \A tx : tx = Request(h, call) =>
              tx.call = call /\ tx.audit = t.audit /\ tx.upheld = t.upheld
<1>1. /\ t.audit \in Audit /\ t.record \in AuditRecord /\ t.upheld \in BOOLEAN
      /\ t.record.entry \in Entries \cup {NoEntry}
  BY DEF Thread, AuditRecord
<1>2. Request(h, call) = [call |-> call, audit |-> t.audit, entry |-> t.record.entry,
                          upheld |-> t.upheld]
  BY DEF Request
<1>3. StepKept(t.audit, t.step, t.record, t.upheld)
  BY DEF ThreadKept
<1>4. call \in {"requestValidation", "recordClaim"} =>
        t.record.entry \in Entries /\ author[t.record.entry] # NoAudit
  BY <1>1, <1>3, ServiceAssumption DEF StepKept, RecordKept
<1>5. call \in {"respond", "recordResolution"} =>
        t.record.entry \in Entries /\ stage[t.record.entry] = Verdict(t.upheld)
  BY <1>1, <1>3 DEF StepKept
<1> QED BY <1>1, <1>2, <1>4, <1>5 DEF Transaction, TransactionKept

LEMMA CallsGrow ==
  ASSUME ServiceCore, NEW h \in Handler, NEW t \in Thread, t = handlers[h], ThreadKept(t),
         NEW call \in Calls,
         call \in {"requestValidation", "recordClaim", "respond", "recordResolution"} =>
           t.step = call,
         \/ Refused(h, call) \/ Raised(h, call)
         \/ \E id \in Entries : Confirmed(h, call, id)
  PROVE  ChainCore' /\ ChainGrows /\ LateKept'
<1>1. ChainCore /\ ChainTyped /\ LateKept
  BY DEF ServiceCore, ChainCore
<1>2. PICK tx \in Transaction : tx = Request(h, call) /\ TransactionKept(tx)
  BY RequestIsKept
<1>3. CASE (\E id \in Entries : Mine(tx, id)) /\ UNCHANGED late
  BY <1>1, <1>2, <1>3, MineGrows, LateStays
<1>4. CASE UNCHANGED <<chainVars, late>>
  BY <1>1, <1>4, StillGrows, LateStays
<1>5. CASE late' = late \cup {tx} /\ UNCHANGED chainVars
  <2>1. ChainCore' /\ ChainGrows
    BY <1>1, <1>5, StillGrows
  <2>2. \A x \in late' : x \in Transaction /\ TransactionKept(x)
    BY <1>1, <1>2, <1>5 DEF LateKept
  <2> QED BY <2>1, <2>2, <1>5 DEF LateKept, TransactionKept, chainVars
<1> QED BY <1>2, <1>3, <1>4, <1>5 DEF Refused, Raised, Confirmed

-----------------------------------------------------------------------------
(***************************************************************************)
(* Steps of the threads.                                                   *)
(***************************************************************************)

\* The store after a step: as it was, or with a record that is kept.
StoreKept ==
  \/ UNCHANGED store
  \/ \E a \in Audit, r \in AuditRecord :
       store' = [store EXCEPT ![a] = r] /\ RecordKept(a, r)'

\* A thread that moves to a step it is ready for, or stops, keeps the rest.
LEMMA ThreadMoves ==
  ASSUME ServiceCore, ChainCore', ChainGrows, LateKept', UNCHANGED faults, StoreKept,
         NEW h \in Handler, NEW t \in Thread \cup {Idle},
         handlers' = [handlers EXCEPT ![h] = t], t # Idle => ThreadKept(t)'
  PROVE  ServiceCore'
<1>1. ServiceTypeOK /\ ChainTyped
  BY DEF ServiceCore, ChainCore
<1>2. store' \in [Audit -> AuditRecord]
  BY <1>1 DEF StoreKept, ServiceTypeOK
<1>3. handlers' \in [Handler -> Thread \cup {Idle}]
  BY <1>1 DEF ServiceTypeOK
<1>4. ServiceTypeOK'
  BY <1>1, <1>2, <1>3 DEF ServiceTypeOK, ChainCore, ChainTyped, LateKept
<1>5. (\A a \in Audit : RecordKept(a, store[a]))'
  <2> SUFFICES ASSUME NEW a \in Audit, NEW r \in AuditRecord, r = store'[a]
               PROVE  RecordKept(a, r)'
    BY <1>2 DEF RecordKept
  <2>1. CASE r = store[a]
    BY <1>1, <2>1, RecordStays DEF ServiceCore
  <2>2. CASE r # store[a]
    <3>1. PICK b \in Audit, q \in AuditRecord :
            store' = [store EXCEPT ![b] = q] /\ RecordKept(b, q)'
      BY <2>2 DEF StoreKept
    <3>2. b = a /\ q = r
      BY <1>1, <2>2, <3>1 DEF ServiceTypeOK
    <3> QED BY <3>1, <3>2
  <2> QED BY <2>1, <2>2
<1>6. (\A g \in Handler : handlers[g] # Idle => ThreadKept(handlers[g]))'
  <2> SUFFICES ASSUME NEW g \in Handler, NEW u \in Thread, u = handlers'[g], u # Idle
               PROVE  ThreadKept(u)'
    BY <1>3 DEF ThreadKept, StepKept, RecordKept
  <2>1. CASE g = h
    BY <1>1, <2>1 DEF ServiceTypeOK
  <2>2. CASE g # h
    <3>1. u = handlers[g] /\ ThreadKept(u)
      BY <1>1, <2>2 DEF ServiceTypeOK, ServiceCore
    <3>2. u.audit \in Audit /\ u.record \in AuditRecord
      BY DEF Thread
    <3>3. StepKept(u.audit, u.step, u.record, u.upheld)'
      BY <1>1, <3>1, <3>2, StepStays DEF ThreadKept
    <3> QED BY <3>3 DEF ThreadKept
  <2> QED BY <2>1, <2>2
<1> QED BY <1>4, <1>5, <1>6 DEF ServiceCore

LEMMA HeldFacts ==
  ASSUME ServiceCore, NEW h \in Handler, handlers[h].step # "idle"
  PROVE  \E t \in Thread :
           /\ t = handlers[h] /\ ThreadKept(t) /\ StepKept(t.audit, t.step, t.record, t.upheld)
           /\ t.op \in Operation /\ t.audit \in Audit /\ t.step \in Step
           /\ t.record \in AuditRecord /\ t.upheld \in BOOLEAN
           /\ t.record.entry \in Entries \cup {NoEntry}
<1>1. handlers[h] # Idle
  BY DEF Idle
<1>2. handlers[h] \in Thread /\ ThreadKept(handlers[h])
  BY <1>1 DEF ServiceCore, ServiceTypeOK
<1> QED BY <1>2 DEF Thread, AuditRecord, ThreadKept

LEMMA FinishKeeps ==
  ASSUME ServiceCore, ChainCore', ChainGrows, LateKept', UNCHANGED faults, StoreKept,
         NEW h \in Handler, Finish(h)
  PROVE  ServiceCore'
BY ThreadMoves DEF Finish

\* A thread that goes on with its operation.
LEMMA StepKeeps ==
  ASSUME ServiceCore, ChainCore', ChainGrows, LateKept', UNCHANGED faults, StoreKept,
         NEW h \in Handler, NEW t \in Thread, t = handlers[h],
         NEW step \in Step, NEW record \in AuditRecord, Continue(h, step, record),
         StepKept(t.audit, step, record, t.upheld)'
  PROVE  ServiceCore'
<1> DEFINE next == [t EXCEPT !.step = step, !.record = record]
<1>1. /\ next \in Thread /\ next.step = step /\ next.record = record
      /\ next.audit = t.audit /\ next.upheld = t.upheld
  BY DEF Thread
<1>2. handlers' = [handlers EXCEPT ![h] = next]
  BY DEF ServiceCore, ServiceTypeOK, Continue
<1> HIDE DEF next
<1>3. ThreadKept(next)'
  BY <1>1 DEF ThreadKept
<1> QED BY <1>1, <1>2, <1>3, ThreadMoves

\* What the checks at the head of an operation establish.
LEMMA AdmitFacts ==
  ASSUME NEW op \in Operation, NEW a \in Audit, NEW record \in AuditRecord,
         NEW upheld \in BOOLEAN, RecordKept(a, record),
         NEW step, step = Admit(op, a, record, upheld)
  PROVE  step \in Step /\ StepKept(a, step, record, upheld)
<1>1. \/ step \in {"publish", "submit"} /\ record.status = "draft"
      \/ step = "challenge" /\ record.status = "published"
      \/ step = "resolve" /\ record.status = "challenged" /\ record.challenge # "none"
      \/ step = "idle"
  BY DEF Admit
<1> QED BY <1>1 DEF StepKept, RecordKept, Step

LEMMA NothingMoves ==
  ASSUME ServiceCore, UNCHANGED <<chainVars, late>>
  PROVE  ChainCore' /\ ChainGrows /\ LateKept' /\ ChainTyped
BY StillGrows, LateStays DEF ServiceCore, ChainCore

LEMMA LoadedKeeps ==
  ASSUME ServiceCore, UNCHANGED <<chainVars, late, store, faults>>,
         NEW h \in Handler, NEW op \in Operation, NEW a \in Audit,
         NEW record \in AuditRecord, NEW upheld \in BOOLEAN, RecordKept(a, record),
         Loaded(h, op, a, record, upheld)
  PROVE  ServiceCore'
<1>1. ChainCore' /\ ChainGrows /\ LateKept' /\ ChainTyped /\ StoreKept
  BY NothingMoves DEF StoreKept
<1>2. PICK step :
        /\ step = IF ~record.normal \/ record.entry \in Claims THEN "refresh"
                  ELSE Admit(op, a, record, upheld)
        /\ handlers' = [handlers EXCEPT ![h] =
             IF step = "idle" THEN Idle
             ELSE [op |-> op, step |-> step, audit |-> a, record |-> record,
                   upheld |-> upheld]]
  BY DEF Loaded
<1>3. step \in Step /\ StepKept(a, step, record, upheld)
  <2>1. CASE step = "refresh"
    BY <2>1 DEF StepKept, Step
  <2>2. CASE step = Admit(op, a, record, upheld)
    BY <2>2, AdmitFacts
  <2> QED BY <1>2, <2>1, <2>2
<1>4. StepKept(a, step, record, upheld)'
  BY <1>1, <1>3, StepStays
<1> DEFINE next == [op |-> op, step |-> step, audit |-> a, record |-> record,
                    upheld |-> upheld]
<1>5. next \in Thread /\ ThreadKept(next)'
  BY <1>3, <1>4 DEF Thread, ThreadKept
<1>6. handlers' = [handlers EXCEPT ![h] = IF step = "idle" THEN Idle ELSE next]
  BY <1>2
<1> HIDE DEF next
<1> QED BY <1>1, <1>5, <1>6, ThreadMoves

LEMMA CheckedKeeps ==
  ASSUME ServiceCore, ChainCore', ChainGrows, LateKept', UNCHANGED faults, StoreKept,
         NEW h \in Handler, NEW t \in Thread, t = handlers[h],
         NEW record \in AuditRecord, RecordKept(t.audit, record), Checked(h, record)
  PROVE  ServiceCore'
<1>1. t.op \in Operation /\ t.audit \in Audit /\ t.upheld \in BOOLEAN
  BY DEF Thread
<1>2. PICK step : /\ step = Admit(t.op, t.audit, record, t.upheld)
                  /\ IF step = "idle" THEN Finish(h) ELSE Continue(h, step, record)
  BY DEF Checked
<1>3. step \in Step /\ StepKept(t.audit, step, record, t.upheld)
  BY <1>1, <1>2, AdmitFacts
<1>4. StepKept(t.audit, step, record, t.upheld)'
  BY <1>1, <1>3, StepStays DEF ServiceCore, ChainCore
<1> QED BY <1>2, <1>3, <1>4, FinishKeeps, StepKeeps

LEMMA CreateAuditKeeps ==
  ASSUME ServiceCore, UNCHANGED faults, NEW h \in Handler, NEW a \in Audit, CreateAudit(h, a)
  PROVE  ServiceCore'
<1>1. ChainCore' /\ ChainGrows /\ LateKept' /\ ChainTyped
  BY NothingMoves DEF CreateAudit
<1>2. StoreKept
  <2> DEFINE r == [store[a] EXCEPT !.status = "draft"]
  <2>1. store \in [Audit -> AuditRecord] /\ store[a].status = "none" /\ RecordKept(a, store[a])
    BY DEF ServiceCore, ServiceTypeOK, CreateAudit
  <2>2. r \in AuditRecord /\ r.status = "draft" /\ r.entry = store[a].entry
        /\ r.challenge = store[a].challenge /\ r.claimState = store[a].claimState
    BY <2>1 DEF AuditRecord
  <2>3. store' = [store EXCEPT ![a] = r]
    BY <2>1 DEF CreateAudit
  <2> HIDE DEF r
  <2>4. PICK q \in AuditRecord : q = r /\ RecordKept(a, q)
    BY <2>1, <2>2 DEF RecordKept
  <2>5. RecordKept(a, q)'
    BY <1>1, <2>4, RecordStays
  <2> QED BY <2>3, <2>4, <2>5 DEF StoreKept
<1> DEFINE t == [op |-> "get", step |-> "load", audit |-> a, record |-> NoRecord,
                 upheld |-> FALSE]
<1>3. t \in Thread
  BY DEF Thread, Operation, Step, AuditRecord, NoRecord, Stage
<1>4. ThreadKept(t)'
  BY ServiceAssumption DEF ThreadKept, StepKept, RecordKept, NoRecord
<1>5. handlers' = [handlers EXCEPT ![h] = t]
  BY DEF CreateAudit
<1> HIDE DEF t
<1> QED BY <1>1, <1>2, <1>3, <1>4, <1>5, ThreadMoves

LEMMA LoadKeeps ==
  ASSUME ServiceCore, UNCHANGED faults, NEW h \in Handler, NEW op \in Operation,
         NEW a \in Audit, NEW upheld \in BOOLEAN, Load(h, op, a, upheld)
  PROVE  ServiceCore'
<1>1. PICK record \in AuditRecord : record = store[a] /\ RecordKept(a, record)
  BY DEF ServiceCore, ServiceTypeOK
<1> QED BY <1>1, LoadedKeeps DEF Load

LEMMA LoadAnswerKeeps ==
  ASSUME ServiceCore, UNCHANGED faults, NEW h \in Handler, LoadAnswer(h)
  PROVE  ServiceCore'
<1>1. PICK t \in Thread : t = handlers[h] /\ t.audit \in Audit
  BY HeldFacts DEF LoadAnswer, At
<1>2. PICK record \in AuditRecord : record = store[t.audit] /\ RecordKept(t.audit, record)
  BY <1>1 DEF ServiceCore, ServiceTypeOK
<1> QED BY <1>1, <1>2, LoadedKeeps DEF LoadAnswer, Operation

LEMMA RefreshKeeps ==
  ASSUME ServiceCore, UNCHANGED faults, NEW h \in Handler, Refresh(h)
  PROVE  ServiceCore'
<1>1. ChainCore' /\ ChainGrows /\ LateKept' /\ ChainTyped /\ StoreKept
  BY NothingMoves DEF Refresh, StoreKept
<1>2. PICK t \in Thread :
        /\ t = handlers[h] /\ StepKept(t.audit, t.step, t.record, t.upheld)
        /\ t.audit \in Audit /\ t.record \in AuditRecord /\ t.upheld \in BOOLEAN
        /\ t.record.entry \in Entries \cup {NoEntry}
  BY HeldFacts DEF Refresh, At
<1>3. RecordKept(t.audit, t.record)
  BY <1>2 DEF StepKept
<1>4. PICK state \in Stage : t.record.entry \in Claims => state = stage[t.record.entry]
  <2>1. CASE t.record.entry \in Claims
    BY <1>1, <2>1 DEF ChainTyped, Entries
  <2>2. CASE t.record.entry \notin Claims
    BY <2>2 DEF Stage
  <2> QED BY <2>1, <2>2
<1> DEFINE normalized == [t.record EXCEPT !.normal = TRUE]
           answered == [normalized EXCEPT !.claimState = state]
<1>5. /\ normalized \in AuditRecord /\ normalized.entry = t.record.entry
      /\ normalized.status = t.record.status /\ normalized.challenge = t.record.challenge
      /\ normalized.claimState = t.record.claimState
  BY <1>2 DEF AuditRecord
<1>6. /\ answered \in AuditRecord /\ answered.entry = t.record.entry
      /\ answered.status = t.record.status /\ answered.challenge = t.record.challenge
      /\ answered.claimState = state
  BY <1>5 DEF AuditRecord
<1>7. PICK result : /\ \/ result = normalized
                       \/ t.record.entry \in Claims /\ result = answered
                    /\ IF result # t.record THEN Continue(h, "writeBack", result)
                                            ELSE Checked(h, t.record)
  <2>1. PICK record, result :
          /\ record = t.record
          /\ \/ result = [record EXCEPT !.normal = TRUE]
             \/ /\ record.entry \in Claims
                /\ result = [[record EXCEPT !.normal = TRUE]
                               EXCEPT !.claimState = stage[record.entry]]
          /\ IF result # record THEN Continue(h, "writeBack", result) ELSE Checked(h, record)
    <3> DEFINE n == [handlers[h].record EXCEPT !.normal = TRUE]
               c == [n EXCEPT !.claimState = stage[handlers[h].record.entry]]
    <3>1. PICK result \in {n, c} :
            /\ result # n => handlers[h].record.entry \in Claims
            /\ IF result # handlers[h].record THEN Continue(h, "writeBack", result)
                                              ELSE Checked(h, handlers[h].record)
      BY DEF Refresh
    <3> QED BY <1>2, <3>1
  <2>2. CASE result = [record EXCEPT !.normal = TRUE]
    BY <2>1, <2>2
  <2>3. CASE /\ record.entry \in Claims
             /\ result = [[record EXCEPT !.normal = TRUE]
                            EXCEPT !.claimState = stage[record.entry]]
    <3>1. state = stage[record.entry]
      BY <1>4, <2>1, <2>3
    <3>2. result = answered
      BY <2>1, <2>3, <3>1
    <3> QED BY <2>1, <2>3, <3>2
  <2> QED BY <2>1, <2>2, <2>3
<1> HIDE DEF normalized, answered
<1>8. result \in AuditRecord /\ RecordKept(t.audit, result)
  <2>1. CASE result = normalized
    BY <1>3, <1>5, <2>1 DEF RecordKept
  <2>2. CASE t.record.entry \in Claims /\ result = answered
    <3>1. t.record.entry # NoEntry
      BY <2>2, ServiceAssumption DEF Entries
    <3> QED BY <1>3, <1>4, <1>6, <2>2, <3>1 DEF RecordKept
  <2> QED BY <1>7, <2>1, <2>2
<1>9. CASE result # t.record
  <2>1. StepKept(t.audit, "writeBack", result, t.upheld)
    BY <1>8 DEF StepKept
  <2>2. StepKept(t.audit, "writeBack", result, t.upheld)'
    BY <1>1, <1>2, <1>8, <2>1, StepStays
  <2> QED BY <1>1, <1>2, <1>7, <1>8, <1>9, <2>2, StepKeeps DEF Step, Refresh
<1>10. CASE result = t.record
  BY <1>1, <1>2, <1>3, <1>7, <1>10, CheckedKeeps DEF Refresh
<1> QED BY <1>9, <1>10

LEMMA WriteBackKeeps ==
  ASSUME ServiceCore, UNCHANGED faults, NEW h \in Handler, WriteBack(h)
  PROVE  ServiceCore'
<1>1. ChainCore' /\ ChainGrows /\ LateKept' /\ ChainTyped
  BY NothingMoves DEF WriteBack
<1>2. PICK t \in Thread :
        /\ t = handlers[h] /\ StepKept(t.audit, t.step, t.record, t.upheld)
        /\ t.audit \in Audit /\ t.record \in AuditRecord
  BY HeldFacts DEF WriteBack, At
<1>3. RecordKept(t.audit, t.record)
  BY <1>2 DEF StepKept
<1>4. RecordKept(t.audit, t.record)'
  BY <1>1, <1>2, <1>3, RecordStays
<1>5. StoreKept
  BY <1>2, <1>4 DEF StoreKept, WriteBack
<1> QED BY <1>1, <1>2, <1>3, <1>5, CheckedKeeps DEF WriteBack

\* The four calls to the mirrors: whatever comes of one, the record changes
\* only in what it says of the mirror.
LEMMA MirrorCallKeeps ==
  ASSUME ServiceCore, UNCHANGED <<faults, store>>, NEW h \in Handler,
         NEW call \in {"requestValidation", "recordClaim", "respond", "recordResolution"},
         At(h, call), NEW next \in {"recordClaim", "recordResolution", "save"},
         next = "recordClaim" => call = "requestValidation",
         next = "recordResolution" => call = "respond",
         NEW value,
         \/ /\ value \in {"failed", "requested", "responded"}
            /\ Continue(h, next, [handlers[h].record EXCEPT !.validation = value])
         \/ /\ value \in {"failed", "recorded", "resolved"}
            /\ Continue(h, next, [handlers[h].record EXCEPT !.reputation = value]),
         Confirmed(h, call, handlers[h].record.entry) \/ Refused(h, call)
  PROVE  ServiceCore'
<1>1. PICK t \in Thread :
        /\ t = handlers[h] /\ ThreadKept(t) /\ StepKept(t.audit, t.step, t.record, t.upheld)
        /\ t.audit \in Audit /\ t.record \in AuditRecord /\ t.upheld \in BOOLEAN
        /\ t.record.entry \in Entries \cup {NoEntry}
  BY HeldFacts DEF At
<1>2. t.record.entry \in Entries /\ t.step = call
  BY <1>1 DEF StepKept, At
<1>3. ChainCore' /\ ChainGrows /\ LateKept' /\ StoreKept
  <2>1. \/ Refused(h, call)
        \/ \E id \in Entries : Confirmed(h, call, id)
    BY <1>1, <1>2
  <2>2. call \in Calls
    BY DEF Calls
  <2> QED BY <1>1, <1>2, <2>1, <2>2, CallsGrow DEF StoreKept
<1>4. PICK record \in AuditRecord :
        /\ Continue(h, next, record) /\ record.entry = t.record.entry
        /\ record.status = t.record.status /\ record.challenge = t.record.challenge
        /\ record.claimState = t.record.claimState
  <2> DEFINE v == [t.record EXCEPT !.validation = value]
             r == [t.record EXCEPT !.reputation = value]
  <2>1. CASE value \in {"failed", "requested", "responded"} /\ Continue(h, next, v)
    <3>1. /\ v \in AuditRecord /\ v.entry = t.record.entry
          /\ v.status = t.record.status /\ v.challenge = t.record.challenge
          /\ v.claimState = t.record.claimState
      BY <1>1, <2>1 DEF AuditRecord
    <3> HIDE DEF v
    <3> QED BY <2>1, <3>1
  <2>2. CASE value \in {"failed", "recorded", "resolved"} /\ Continue(h, next, r)
    <3>1. /\ r \in AuditRecord /\ r.entry = t.record.entry
          /\ r.status = t.record.status /\ r.challenge = t.record.challenge
          /\ r.claimState = t.record.claimState
      BY <1>1, <2>2 DEF AuditRecord
    <3> HIDE DEF r
    <3> QED BY <2>2, <3>1
  <2> QED BY <1>1, <2>1, <2>2
<1>5. StepKept(t.audit, next, record, t.upheld)
  BY <1>1, <1>2, <1>4, ServiceAssumption DEF StepKept, RecordKept
<1>6. StepKept(t.audit, next, record, t.upheld)'
  BY <1>1, <1>3, <1>5, StepStays DEF ServiceCore, ChainCore
<1> QED BY <1>1, <1>3, <1>4, <1>6, StepKeeps DEF Step

\* An error that ends the operation leaves what was mined, and no record.
LEMMA RaisedKeeps ==
  ASSUME ServiceCore, UNCHANGED <<faults, store>>, NEW h \in Handler, NEW call,
         \/ /\ call \in {"requestValidation", "recordClaim", "respond", "recordResolution"}
            /\ At(h, call)
         \/ call = "resolve" /\ At(h, "autoResolve"),
         Raised(h, call)
  PROVE  ServiceCore'
<1>1. PICK t \in Thread : t = handlers[h] /\ ThreadKept(t)
  BY HeldFacts DEF At
<1>2. call \in Calls
  BY DEF Calls
<1>3. call # "resolve" => t.step = call
  BY <1>1 DEF At
<1>4. ChainCore' /\ ChainGrows /\ LateKept' /\ StoreKept
  BY <1>1, <1>2, <1>3, CallsGrow DEF StoreKept
<1>5. Finish(h)
  BY DEF Raised
<1> QED BY <1>4, <1>5, FinishKeeps

LEMMA MirrorStepsKeep ==
  ASSUME ServiceCore, UNCHANGED faults, NEW h \in Handler,
         RequestValidation(h) \/ RecordClaim(h) \/ Respond(h) \/ RecordResolution(h)
  PROVE  ServiceCore'
<1>1. CASE RequestValidation(h)
  BY <1>1, MirrorCallKeeps, RaisedKeeps DEF RequestValidation
<1>2. CASE RecordClaim(h)
  BY <1>2, MirrorCallKeeps, RaisedKeeps DEF RecordClaim
<1>3. CASE Respond(h)
  BY <1>3, MirrorCallKeeps, RaisedKeeps DEF Respond
<1>4. CASE RecordResolution(h)
  BY <1>4, MirrorCallKeeps, RaisedKeeps DEF RecordResolution
<1> QED BY <1>1, <1>2, <1>3, <1>4

\* The stake that gives a draft its on-chain id, in either flow.
LEMMA StakeKeeps ==
  ASSUME ServiceCore, UNCHANGED <<faults, store>>, NEW h \in Handler,
         NEW call \in {"publish", "submit"}, At(h, call),
         NEW next \in {"requestValidation", "readClaim"}, NEW id \in Entries,
         Confirmed(h, call, id),
         Continue(h, next, [handlers[h].record EXCEPT !.status = "published", !.entry = id])
  PROVE  ServiceCore'
<1>1. PICK t \in Thread :
        /\ t = handlers[h] /\ ThreadKept(t) /\ StepKept(t.audit, t.step, t.record, t.upheld)
        /\ t.audit \in Audit /\ t.record \in AuditRecord /\ t.upheld \in BOOLEAN
  BY HeldFacts DEF At
<1>2. t.record.entry = NoEntry /\ t.record.challenge = "none" /\ t.record.claimState = "None"
  BY <1>1 DEF StepKept, RecordKept, At
<1>3. ChainCore' /\ ChainGrows /\ LateKept' /\ StoreKept
  BY <1>1, CallsGrow DEF Calls, StoreKept
<1>4. author'[id] = t.audit
  <2>1. PICK tx \in Transaction : tx = Request(h, call) /\ tx.call = call /\ tx.audit = t.audit
    BY <1>1, RequestIsKept DEF Calls
  <2> QED BY <2>1, MinedFacts DEF Confirmed, ServiceCore
<1> DEFINE r == [t.record EXCEPT !.status = "published", !.entry = id]
<1>5. /\ r \in AuditRecord /\ r.entry = id /\ r.status = "published"
      /\ r.challenge = "none" /\ r.claimState = "None"
  BY <1>1, <1>2 DEF AuditRecord
<1>6. PICK record \in AuditRecord : record = r
  BY <1>5
<1>7. Continue(h, next, record)
  BY <1>1, <1>6
<1> HIDE DEF r
<1>8. StepKept(t.audit, next, record, t.upheld)'
  BY <1>4, <1>5, <1>6, ServiceAssumption DEF StepKept, RecordKept
<1> QED BY <1>1, <1>3, <1>7, <1>8, StepKeeps DEF Step

\* A call that is refused before anything was recorded ends the operation.
LEMMA RefusalKeeps ==
  ASSUME ServiceCore, UNCHANGED <<faults, store>>, NEW h \in Handler,
         NEW call \in {"publish", "submit", "challenge", "resolve"}, At(h, call),
         Refused(h, call), Finish(h)
  PROVE  ServiceCore'
<1>1. PICK t \in Thread : t = handlers[h] /\ ThreadKept(t)
  BY HeldFacts DEF At
<1>2. ChainCore' /\ ChainGrows /\ LateKept' /\ StoreKept
  BY <1>1, CallsGrow DEF Calls, StoreKept
<1> QED BY <1>2, FinishKeeps

LEMMA StakeStepsKeep ==
  ASSUME ServiceCore, UNCHANGED faults, NEW h \in Handler,
         PublishTransaction(h) \/ SubmitTransaction(h)
  PROVE  ServiceCore'
<1>1. CASE PublishTransaction(h)
  BY <1>1, StakeKeeps, RefusalKeeps DEF PublishTransaction, Entries
<1>2. CASE SubmitTransaction(h)
  BY <1>2, StakeKeeps, RefusalKeeps DEF SubmitTransaction, Entries
<1> QED BY <1>1, <1>2

LEMMA ReadClaimKeeps ==
  ASSUME ServiceCore, UNCHANGED faults, NEW h \in Handler, ReadClaim(h)
  PROVE  ServiceCore'
<1>1. ChainCore' /\ ChainGrows /\ LateKept' /\ ChainTyped /\ StoreKept
  BY NothingMoves DEF ReadClaim, StoreKept
<1>2. PICK t \in Thread :
        /\ t = handlers[h] /\ StepKept(t.audit, t.step, t.record, t.upheld)
        /\ t.audit \in Audit /\ t.record \in AuditRecord /\ t.upheld \in BOOLEAN
        /\ t.record.entry \in Entries \cup {NoEntry}
  BY HeldFacts DEF ReadClaim, At
<1>3. t.record.entry # NoEntry /\ t.record.entry \in Entries
  BY <1>2 DEF StepKept, ReadClaim, At
<1>4. PICK state \in Stage : state = stage[t.record.entry]
  BY <1>1, <1>3 DEF ChainTyped
<1> DEFINE r == [t.record EXCEPT !.claimState = state]
<1>5. /\ r \in AuditRecord /\ r.entry = t.record.entry /\ r.status = t.record.status
      /\ r.challenge = t.record.challenge /\ r.claimState = state
  BY <1>2 DEF AuditRecord
<1>6. \/ Finish(h)
      \/ \E record : record = r /\ Continue(h, "save", record)
  BY <1>2, <1>4 DEF ReadClaim
<1> HIDE DEF r
<1>7. CASE Finish(h)
  BY <1>1, <1>7, FinishKeeps
<1>8. ASSUME NEW record, record = r, Continue(h, "save", record) PROVE ServiceCore'
  <2>1. StepKept(t.audit, "save", record, t.upheld)
    BY <1>2, <1>3, <1>4, <1>5, <1>8 DEF StepKept, RecordKept
  <2>2. record \in AuditRecord /\ StepKept(t.audit, "save", record, t.upheld)'
    BY <1>1, <1>2, <1>5, <1>8, <2>1, StepStays
  <2> QED BY <1>1, <1>2, <1>8, <2>2, StepKeeps DEF Step
<1> QED BY <1>6, <1>7, <1>8

\* The record of a challenge that the chain has opened, and of one that it has
\* decided.
LEMMA ChallengedFacts ==
  ASSUME NEW record \in AuditRecord
  PROVE  \A r : r = [record EXCEPT !.status = "challenged", !.challenge = "opened",
                                   !.normal = FALSE,
                                   !.claimState = IF record.entry \in Claims
                                                  THEN "Challenged" ELSE @] =>
           /\ r \in AuditRecord /\ r.entry = record.entry /\ r.status = "challenged"
           /\ r.challenge = "opened" /\ r.claimState \in {"Challenged", record.claimState}
<1> DEFINE state == IF record.entry \in Claims THEN "Challenged" ELSE record.claimState
           r == [record EXCEPT !.status = "challenged", !.challenge = "opened",
                               !.normal = FALSE, !.claimState = state]
<1>1. state \in Stage /\ state \in {"Challenged", record.claimState}
  BY DEF AuditRecord, Stage
<1>2. r = [record EXCEPT !.status = "challenged", !.challenge = "opened",
                         !.normal = FALSE,
                         !.claimState = IF record.entry \in Claims THEN "Challenged" ELSE @]
  OBVIOUS
<1> HIDE DEF state
<1>3. /\ r \in AuditRecord /\ r.entry = record.entry /\ r.status = "challenged"
      /\ r.challenge = "opened" /\ r.claimState \in {"Challenged", record.claimState}
  BY <1>1 DEF AuditRecord
<1> HIDE DEF r
<1> QED BY <1>2, <1>3

LEMMA SettledFacts ==
  ASSUME NEW record \in AuditRecord, NEW upheld \in BOOLEAN, NEW r, r = Settled(record, upheld)
  PROVE  /\ r \in AuditRecord /\ r.entry = record.entry /\ r.status = "resolved"
         /\ r.challenge = IF upheld THEN "upheld" ELSE "rejected"
         /\ r.claimState \in {record.claimState, Verdict(upheld)}
         /\ AfterVerdict(r) \in {"save", "respond"}
<1> DEFINE state == IF record.entry \notin Claims THEN record.claimState
                    ELSE IF upheld THEN "Upheld" ELSE "Rejected"
           outcome == IF upheld THEN "upheld" ELSE "rejected"
<1>1. /\ state \in Stage /\ state \in {record.claimState, Verdict(upheld)}
      /\ outcome \in {"upheld", "rejected"}
  BY DEF AuditRecord, Stage, Verdict
<1>2. r = [record EXCEPT !.status = "resolved", !.challenge = outcome, !.claimState = state]
  BY DEF Settled
<1>3. outcome = IF upheld THEN "upheld" ELSE "rejected"
  OBVIOUS
<1>4. AfterVerdict(r) \in {"save", "respond"}
  BY DEF AfterVerdict
<1> HIDE DEF state, outcome
<1> QED BY <1>1, <1>2, <1>3, <1>4 DEF AuditRecord

LEMMA ChallengeTransactionKeeps ==
  ASSUME ServiceCore, UNCHANGED faults, NEW h \in Handler, ChallengeTransaction(h)
  PROVE  ServiceCore'
<1>1. PICK t \in Thread :
        /\ t = handlers[h] /\ ThreadKept(t) /\ StepKept(t.audit, t.step, t.record, t.upheld)
        /\ t.audit \in Audit /\ t.record \in AuditRecord /\ t.upheld \in BOOLEAN
        /\ t.record.entry \in Entries \cup {NoEntry}
  BY HeldFacts DEF ChallengeTransaction, At
<1>2. t.record.entry # NoEntry /\ t.record.entry \in Entries
  BY <1>1 DEF StepKept, ChallengeTransaction, At
<1>3. PICK r \in AuditRecord :
        /\ r.entry = t.record.entry /\ r.status = "challenged"
        /\ r.challenge = "opened" /\ r.claimState \in {"Challenged", t.record.claimState}
        /\ \/ Confirmed(h, "challenge", t.record.entry) /\ Continue(h, "open", r)
           \/ Refused(h, "challenge") /\ Finish(h)
  BY <1>1, ChallengedFacts DEF ChallengeTransaction
<1>5. CASE Refused(h, "challenge") /\ Finish(h)
  BY <1>5, RefusalKeeps DEF ChallengeTransaction
<1>6. CASE Confirmed(h, "challenge", t.record.entry) /\ Continue(h, "open", r)
  <2>1. ChainCore' /\ ChainGrows /\ LateKept' /\ StoreKept
    BY <1>1, <1>2, <1>6, CallsGrow DEF Calls, StoreKept, ChallengeTransaction
  <2>2. t.record.entry \in opened'
    <3>1. PICK tx \in Transaction : tx = Request(h, "challenge") /\ tx.call = "challenge"
      BY <1>1, RequestIsKept DEF Calls
    <3> QED BY <1>2, <1>6, <3>1, MinedFacts DEF Confirmed, ServiceCore
  <2>3. RecordKept(t.audit, t.record)'
    BY <1>1, <2>1, RecordStays DEF ServiceCore, ChainCore, StepKept
  <2>4. StepKept(t.audit, "open", r, t.upheld)'
    BY <1>2, <1>3, <2>2, <2>3 DEF StepKept, RecordKept
  <2> QED BY <1>1, <1>6, <2>1, <2>4, StepKeeps DEF Step
<1> QED BY <1>3, <1>5, <1>6

LEMMA OpenChallengeKeeps ==
  ASSUME ServiceCore, UNCHANGED faults, NEW h \in Handler, OpenChallenge(h)
  PROVE  ServiceCore'
<1>1. ChainCore' /\ ChainGrows /\ LateKept' /\ ChainTyped
  BY NothingMoves DEF OpenChallenge
<1>2. PICK t \in Thread :
        /\ t = handlers[h] /\ StepKept(t.audit, t.step, t.record, t.upheld)
        /\ t.audit \in Audit /\ t.record \in AuditRecord /\ t.upheld \in BOOLEAN
  BY HeldFacts DEF OpenChallenge, At
<1>3. StepKept(t.audit, "verify", t.record, t.upheld)
  BY <1>2 DEF StepKept, OpenChallenge, At
<1>4. StepKept(t.audit, "verify", t.record, t.upheld)'
  BY <1>1, <1>2, <1>3, StepStays
<1>5. StoreKept
  BY <1>2, <1>4 DEF StoreKept, OpenChallenge, StepKept
<1>6. Continue(h, "verify", t.record)
  BY <1>2 DEF OpenChallenge
<1> QED BY <1>1, <1>2, <1>4, <1>5, <1>6, StepKeeps DEF Step

LEMMA VerifyChallengeKeeps ==
  ASSUME ServiceCore, UNCHANGED faults, NEW h \in Handler, VerifyChallenge(h)
  PROVE  ServiceCore'
<1>1. ChainCore' /\ ChainGrows /\ LateKept' /\ ChainTyped /\ StoreKept
  BY NothingMoves DEF VerifyChallenge, StoreKept
<1>2. PICK t \in Thread :
        /\ t = handlers[h] /\ StepKept(t.audit, t.step, t.record, t.upheld)
        /\ t.audit \in Audit /\ t.record \in AuditRecord /\ t.upheld \in BOOLEAN
  BY HeldFacts DEF VerifyChallenge, At
<1>3. \A policy \in {"inadmissible", "admissible"}, step \in {"save", "autoResolve"},
         upheld \in BOOLEAN : \A record :
        record = [t.record EXCEPT !.policy = policy, !.normal = TRUE] =>
          record \in AuditRecord /\ StepKept(t.audit, step, record, upheld)'
  <2> SUFFICES ASSUME NEW policy \in {"inadmissible", "admissible"},
                      NEW step \in {"save", "autoResolve"}, NEW upheld \in BOOLEAN,
                      NEW record,
                      record = [t.record EXCEPT !.policy = policy, !.normal = TRUE]
               PROVE  record \in AuditRecord /\ StepKept(t.audit, step, record, upheld)'
    OBVIOUS
  <2>1. /\ record \in AuditRecord /\ record.entry = t.record.entry
        /\ record.status = t.record.status /\ record.challenge = t.record.challenge
        /\ record.claimState = t.record.claimState
    BY <1>2 DEF AuditRecord
  <2>2. StepKept(t.audit, step, record, upheld)
    BY <1>2, <2>1 DEF StepKept, RecordKept, VerifyChallenge, At
  <2> QED BY <1>1, <1>2, <2>1, <2>2, StepStays
<1>4. CASE \E policy \in {"inadmissible", "admissible"} :
             Continue(h, "save", [t.record EXCEPT !.policy = policy, !.normal = TRUE])
  <2>1. PICK policy \in {"inadmissible", "admissible"} : \E record :
          /\ record = [t.record EXCEPT !.policy = policy, !.normal = TRUE]
          /\ Continue(h, "save", record)
    BY <1>4
  <2>2. PICK record :
          /\ record = [t.record EXCEPT !.policy = policy, !.normal = TRUE]
          /\ Continue(h, "save", record)
    BY <2>1
  <2>3. record \in AuditRecord /\ StepKept(t.audit, "save", record, t.upheld)'
    BY <1>2, <1>3, <2>2
  <2> QED BY <1>1, <1>2, <2>2, <2>3, StepKeeps DEF Step
<1>5. CASE \E upheld \in BOOLEAN :
             handlers' = [handlers EXCEPT
               ![h].step = "autoResolve", ![h].upheld = upheld,
               ![h].record = [t.record EXCEPT !.policy = "admissible", !.normal = TRUE]]
  <2>0. PICK upheld \in BOOLEAN :
          handlers' = [handlers EXCEPT
            ![h].step = "autoResolve", ![h].upheld = upheld,
            ![h].record = [t.record EXCEPT !.policy = "admissible", !.normal = TRUE]]
    BY <1>5
  <2>1. PICK record :
          /\ record = [t.record EXCEPT !.policy = "admissible", !.normal = TRUE]
          /\ handlers' = [handlers EXCEPT
               ![h].step = "autoResolve", ![h].upheld = upheld, ![h].record = record]
    BY <2>0
  <2>2. record \in AuditRecord /\ StepKept(t.audit, "autoResolve", record, upheld)'
    BY <1>3, <2>1
  <2> DEFINE next == [t EXCEPT !.step = "autoResolve", !.upheld = upheld, !.record = record]
  <2>3. /\ next \in Thread /\ next.step = "autoResolve" /\ next.record = record
        /\ next.audit = t.audit /\ next.upheld = upheld
    BY <2>2 DEF Thread, Step
  <2>4. handlers' = [handlers EXCEPT ![h] = next]
    BY <1>2, <2>1 DEF ServiceCore, ServiceTypeOK
  <2> HIDE DEF next
  <2>5. ThreadKept(next)'
    BY <2>2, <2>3 DEF ThreadKept
  <2> QED BY <1>1, <2>3, <2>4, <2>5, ThreadMoves
<1>6. CASE Finish(h)
  BY <1>1, <1>6, FinishKeeps
<1>7. \/ \E policy \in {"inadmissible", "admissible"} :
           Continue(h, "save", [t.record EXCEPT !.policy = policy, !.normal = TRUE])
      \/ \E upheld \in BOOLEAN :
           handlers' = [handlers EXCEPT
             ![h].step = "autoResolve", ![h].upheld = upheld,
             ![h].record = [t.record EXCEPT !.policy = "admissible", !.normal = TRUE]]
      \/ Finish(h)
  BY <1>2 DEF VerifyChallenge
<1> QED BY <1>4, <1>5, <1>6, <1>7

\* A verdict that is on the chain is the one that the record then shows.
LEMMA VerdictKeeps ==
  ASSUME ServiceCore, UNCHANGED <<faults, store>>, NEW h \in Handler,
         At(h, "autoResolve") \/ At(h, "resolve"),
         NEW settled, settled = Settled(handlers[h].record, handlers[h].upheld),
         Confirmed(h, "resolve", handlers[h].record.entry),
         Continue(h, AfterVerdict(settled), settled)
  PROVE  ServiceCore'
<1>1. PICK t \in Thread :
        /\ t = handlers[h] /\ ThreadKept(t) /\ StepKept(t.audit, t.step, t.record, t.upheld)
        /\ t.audit \in Audit /\ t.record \in AuditRecord /\ t.upheld \in BOOLEAN
        /\ t.record.entry \in Entries \cup {NoEntry}
  BY HeldFacts DEF At
<1>2. /\ t.record.entry # NoEntry /\ t.record.entry \in Entries
      /\ t.record.challenge # "none"
  BY <1>1 DEF StepKept, At
<1>3. ChainCore' /\ ChainGrows /\ LateKept' /\ StoreKept
  BY <1>1, <1>2, CallsGrow DEF Calls, StoreKept
<1>4. stage'[t.record.entry] = Verdict(t.upheld)
  <2>1. PICK tx \in Transaction : /\ tx = Request(h, "resolve") /\ tx.call = "resolve"
                                  /\ tx.upheld = t.upheld
    BY <1>1, RequestIsKept DEF Calls
  <2> QED BY <1>1, <1>2, <2>1, MinedFacts DEF Confirmed, ServiceCore
<1>5. RecordKept(t.audit, t.record)'
  BY <1>1, <1>3, RecordStays DEF ServiceCore, ChainCore, StepKept
<1>6. /\ settled \in AuditRecord /\ settled.entry = t.record.entry
      /\ settled.status = "resolved"
      /\ settled.challenge = IF t.upheld THEN "upheld" ELSE "rejected"
      /\ settled.claimState \in {t.record.claimState, Verdict(t.upheld)}
  BY <1>1, SettledFacts
<1>7. PICK next \in {"save", "respond"} : next = AfterVerdict(settled)
  BY DEF AfterVerdict
<1>8. RecordKept(t.audit, settled)'
  BY <1>2, <1>4, <1>5, <1>6 DEF RecordKept, Verdict
<1>9. StepKept(t.audit, next, settled, t.upheld)'
  BY <1>2, <1>4, <1>6, <1>7, <1>8 DEF StepKept
<1> QED BY <1>1, <1>3, <1>6, <1>7, <1>9, StepKeeps DEF Step

LEMMA AutoResolveKeeps ==
  ASSUME ServiceCore, UNCHANGED faults, NEW h \in Handler, AutoResolve(h)
  PROVE  ServiceCore'
<1>1. PICK t \in Thread :
        /\ t = handlers[h] /\ ThreadKept(t) /\ StepKept(t.audit, t.step, t.record, t.upheld)
        /\ t.audit \in Audit /\ t.record \in AuditRecord /\ t.upheld \in BOOLEAN
  BY HeldFacts DEF AutoResolve, At
<1>2. PICK settled : settled = Settled(handlers[h].record, handlers[h].upheld)
  OBVIOUS
<1>3. CASE /\ Confirmed(h, "resolve", handlers[h].record.entry)
           /\ Continue(h, AfterVerdict(settled), settled)
  BY <1>2, <1>3, VerdictKeeps DEF AutoResolve
<1>4. CASE Refused(h, "resolve") /\ Continue(h, "save", handlers[h].record)
  <2>1. ChainCore' /\ ChainGrows /\ LateKept' /\ StoreKept
    BY <1>1, <1>4, CallsGrow DEF Calls, StoreKept, AutoResolve
  <2>2. StepKept(t.audit, "save", t.record, t.upheld)
    BY <1>1 DEF StepKept
  <2>3. StepKept(t.audit, "save", t.record, t.upheld)'
    BY <1>1, <2>1, <2>2, StepStays DEF ServiceCore, ChainCore
  <2>4. Continue(h, "save", t.record)
    BY <1>1, <1>4
  <2> QED BY <1>1, <2>1, <2>3, <2>4, StepKeeps DEF Step
<1>5. CASE Raised(h, "resolve")
  BY <1>5, RaisedKeeps DEF AutoResolve
<1> QED BY <1>2, <1>3, <1>4, <1>5 DEF AutoResolve

LEMMA ResolveTransactionKeeps ==
  ASSUME ServiceCore, UNCHANGED faults, NEW h \in Handler, ResolveTransaction(h)
  PROVE  ServiceCore'
<1>1. PICK settled : settled = Settled(handlers[h].record, handlers[h].upheld)
  OBVIOUS
<1>2. CASE Confirmed(h, "resolve", settled.entry) /\ Continue(h, AfterVerdict(settled), settled)
  <2>1. PICK t \in Thread : t = handlers[h] /\ t.record \in AuditRecord
    BY HeldFacts DEF ResolveTransaction, At
  <2>2. settled.entry = handlers[h].record.entry
    BY <1>1, <2>1 DEF Settled, AuditRecord
  <2> QED BY <1>1, <1>2, <2>2, VerdictKeeps DEF ResolveTransaction
<1>3. CASE Refused(h, "resolve") /\ Finish(h)
  BY <1>3, RefusalKeeps DEF ResolveTransaction
<1> QED BY <1>1, <1>2, <1>3 DEF ResolveTransaction

LEMMA SaveKeeps ==
  ASSUME ServiceCore, UNCHANGED faults, NEW h \in Handler, Save(h)
  PROVE  ServiceCore'
<1>1. ChainCore' /\ ChainGrows /\ LateKept' /\ ChainTyped
  BY NothingMoves DEF Save
<1>2. PICK t \in Thread :
        /\ t = handlers[h] /\ StepKept(t.audit, t.step, t.record, t.upheld)
        /\ t.audit \in Audit /\ t.record \in AuditRecord /\ t.upheld \in BOOLEAN
  BY HeldFacts DEF Save, At
<1>3. RecordKept(t.audit, t.record)'
  BY <1>1, <1>2, RecordStays DEF StepKept
<1>4. StoreKept
  BY <1>2, <1>3 DEF StoreKept, Save
<1>5. CASE Continue(h, "load", NoRecord)
  <2>1. NoRecord \in AuditRecord /\ StepKept(t.audit, "load", NoRecord, t.upheld)'
    BY ServiceAssumption DEF StepKept, RecordKept, NoRecord, AuditRecord, Stage
  <2> QED BY <1>1, <1>2, <1>4, <1>5, <2>1, StepKeeps DEF Step
<1>6. CASE Finish(h)
  BY <1>1, <1>4, <1>6, FinishKeeps
<1> QED BY <1>5, <1>6 DEF Save

-----------------------------------------------------------------------------
(***************************************************************************)
(* What happens around the threads, and the theorem.                       *)
(***************************************************************************)

\* The chain moves while the threads stand still.
LEMMA OutsideKeeps ==
  ASSUME ServiceCore, ChainCore', ChainGrows, LateKept', UNCHANGED <<faults, store>>,
         handlers' = handlers \/ handlers' = [h \in Handler |-> Idle]
  PROVE  ServiceCore'
<1>1. ServiceTypeOK /\ ChainTyped
  BY DEF ServiceCore, ChainCore
<1>2. ServiceTypeOK'
  BY <1>1 DEF ServiceTypeOK, ChainCore, ChainTyped, LateKept
<1>3. (\A a \in Audit : RecordKept(a, store[a]))'
  <2> SUFFICES ASSUME NEW a \in Audit, NEW r \in AuditRecord, r = store[a]
               PROVE  RecordKept(a, r)'
    BY <1>1 DEF RecordKept, ServiceTypeOK
  <2> QED BY <1>1, RecordStays DEF ServiceCore
<1>4. (\A h \in Handler : handlers[h] # Idle => ThreadKept(handlers[h]))'
  <2> SUFFICES ASSUME NEW h \in Handler, NEW u \in Thread, u = handlers'[h], u # Idle
               PROVE  ThreadKept(u)'
    BY <1>2 DEF ServiceTypeOK, ThreadKept, StepKept, RecordKept
  <2>1. u = handlers[h] /\ ThreadKept(u)
    BY DEF ServiceCore
  <2>2. u.audit \in Audit /\ u.record \in AuditRecord
    BY DEF Thread
  <2>3. StepKept(u.audit, u.step, u.record, u.upheld)'
    BY <1>1, <2>1, <2>2, StepStays DEF ThreadKept
  <2> QED BY <2>3 DEF ThreadKept
<1> QED BY <1>2, <1>3, <1>4 DEF ServiceCore

LEMMA LateTransactionKeeps ==
  ASSUME ServiceCore, UNCHANGED faults, NEW tx \in late, LateTransaction(tx)
  PROVE  ServiceCore'
<1>1. ChainCore /\ ChainTyped /\ LateKept /\ tx \in Transaction /\ TransactionKept(tx)
  BY DEF ServiceCore, ChainCore, LateKept
<1>2. ChainCore' /\ ChainGrows
  <2>1. CASE \E id \in Entries : Mine(tx, id)
    BY <1>1, <2>1, MineGrows
  <2>2. CASE UNCHANGED chainVars
    BY <1>1, <2>2, StillGrows
  <2> QED BY <2>1, <2>2 DEF LateTransaction
<1>3. LateKept'
  BY <1>1, <1>2, LateStays DEF LateTransaction
<1> QED BY <1>2, <1>3, OutsideKeeps DEF LateTransaction

LEMMA OthersKeep ==
  ASSUME ServiceCore, UNCHANGED faults, NEW id \in Entries, Others(id)
  PROVE  ServiceCore'
<1>1. ChainCore /\ ChainTyped /\ LateKept
  BY DEF ServiceCore, ChainCore
<1>2. PICK from \in {"Published", "Challenged"}, to \in Stage \ {"None"} : Move(id, from, to)
  BY DEF Others, Challenge, Release, Expire, Stage
<1>3. ChainCore' /\ ChainGrows
  BY <1>1, <1>2, MovingGrows DEF Others
<1>4. LateKept'
  BY <1>1, <1>3, LateStays DEF Others
<1> QED BY <1>3, <1>4, OutsideKeeps DEF Others

LEMMA CrashKeeps ==
  ASSUME ServiceCore, UNCHANGED faults, Crash
  PROVE  ServiceCore'
BY NothingMoves, OutsideKeeps DEF Crash

LEMMA ThreadStepKeeps ==
  ASSUME ServiceCore, UNCHANGED faults, NEW h \in Handler, ThreadStep(h)
  PROVE  ServiceCore'
BY CreateAuditKeeps, LoadKeeps, LoadAnswerKeeps, RefreshKeeps, WriteBackKeeps,
   StakeStepsKeep, MirrorStepsKeep, ReadClaimKeeps, ChallengeTransactionKeeps,
   OpenChallengeKeeps, VerifyChallengeKeeps, AutoResolveKeeps, ResolveTransactionKeeps,
   SaveKeeps DEF ThreadStep

LEMMA ServiceCoreHolds == ServiceSpec => []ServiceCore
<1>1. ServiceInit => ServiceCore
  <2> SUFFICES ASSUME ServiceInit PROVE ServiceCore
    OBVIOUS
  <2>1. /\ stage = [id \in Entries |-> "None"] /\ author = [id \in Entries |-> NoAudit]
        /\ opened = {} /\ late = {} /\ faults \in FaultSets
        /\ registry = [id \in Entries |-> [validation |-> "none", reputation |-> "none"]]
        /\ store = [a \in Audit |-> NoRecord] /\ handlers = [h \in Handler |-> Idle]
    BY DEF ServiceInit, LifecycleInit
  <2>2. NoRecord \in AuditRecord
    BY DEF NoRecord, AuditRecord, Stage
  <2>3. ServiceTypeOK
    BY <2>1, <2>2 DEF ServiceTypeOK, Stage, Mirror
  <2>4. ChainCore
    BY <2>1, <2>3 DEF ChainCore, ChainTyped, ServiceTypeOK, AuthorsAreKnown,
       MirrorsFollowVerdicts
  <2>5. \A a \in Audit : RecordKept(a, store[a])
    BY <2>1, ServiceAssumption DEF RecordKept, NoRecord
  <2> QED BY <2>1, <2>3, <2>4, <2>5 DEF ServiceCore, LateKept
<1>2. ServiceCore /\ [ServiceNext]_serviceVars => ServiceCore'
  <2> SUFFICES ASSUME ServiceCore, [ServiceNext]_serviceVars PROVE ServiceCore'
    OBVIOUS
  <2>1. CASE ServiceNext
    BY <2>1, ThreadStepKeeps, LateTransactionKeeps, CrashKeeps, OthersKeep DEF ServiceNext
  <2>2. CASE UNCHANGED serviceVars
    <3>1. UNCHANGED <<chainVars, late>> /\ UNCHANGED <<faults, store>> /\ handlers' = handlers
      BY <2>2 DEF serviceVars, chainVars
    <3> QED BY <3>1, NothingMoves, OutsideKeeps
  <2> QED BY <2>1, <2>2
<1> QED BY <1>1, <1>2, PTL DEF ServiceSpec

\* NothingRunsAhead for any audits, threads and ids, whatever is lost, late or
\* interrupted: no record, stored or held by a thread, and no mirror shows a
\* publication, a challenge or a verdict that is not on the chain.
THEOREM ServiceNeverRunsAhead == ServiceSpec => []NothingRunsAhead
<1>1. ServiceCore => NothingRunsAhead
  <2> SUFFICES ASSUME ServiceCore PROVE NothingRunsAhead
    OBVIOUS
  <2>1. ServiceTypeOK /\ MirrorsFollowVerdicts
    BY DEF ServiceCore, ChainCore
  <2>2. \A pair \in Records : RecordKept(pair[1], pair[2])
    <3>1. \A h \in Handler : handlers[h] # Idle =>
            RecordKept(handlers[h].audit, handlers[h].record)
      BY DEF ServiceCore, ThreadKept, StepKept
    <3> QED BY <3>1 DEF Records, ServiceCore
  <2>3. RecordsFollowChain
    BY <2>2 DEF RecordsFollowChain, RecordKept, Verdict
  <2> QED BY <2>1, <2>3 DEF NothingRunsAhead
<1> QED BY <1>1, ServiceCoreHolds, PTL

-----------------------------------------------------------------------------
(***************************************************************************)
(* One thread: the status of a stored record never goes back.  With two    *)
(* threads it does, whence the hypothesis.                                 *)
(***************************************************************************)
OneThread == \A g, h \in Handler : g = h

\* The steps at which a thread holds what is not stored yet.
Unsaved ==
  {"requestValidation", "recordClaim", "readClaim", "open", "respond",
   "recordResolution", "save"}

Advance ==
  {<<s, s>> : s \in {"none", "draft", "published", "challenged", "resolved"}}
    \cup {<<"none", "draft">>, <<"draft", "published">>,
          <<"published", "challenged">>, <<"challenged", "resolved">>}

\* The status that a thread holds at a step, against the stored one: the same
\* until it has something to save, and then the next.
StatusFits(step, stored, held) ==
  /\ step \in Unsaved => <<stored, held>> \in Advance
  /\ step \notin Unsaved \cup {"load"} => held = stored
  /\ step \in {"publish", "submit"} => held = "draft"
  /\ step = "challenge" => held = "published"
  /\ step \in {"open", "verify", "autoResolve", "resolve"} => held = "challenged"

InStep(t) == StatusFits(t.step, store[t.audit].status, t.record.status)

StatusCore == \A h \in Handler : handlers[h] # Idle => InStep(handlers[h])

StoreAdvances == \A a \in Audit : <<store[a].status, store'[a].status>> \in Advance

LEMMA StatusStays ==
  ASSUME ServiceCore, UNCHANGED store
  PROVE  StoreAdvances
BY DEF ServiceCore, ServiceTypeOK, AuditRecord, StoreAdvances, Advance

\* The one thread moves to a step that fits.
LEMMA StatusMoves ==
  ASSUME OneThread, ServiceCore, NEW h \in Handler, NEW t \in Thread \cup {Idle},
         handlers' = [handlers EXCEPT ![h] = t],
         t # Idle => StatusFits(t.step, store'[t.audit].status, t.record.status)
  PROVE  StatusCore'
<1> SUFFICES ASSUME NEW g \in Handler, handlers'[g] # Idle PROVE InStep(handlers[g])'
  BY DEF StatusCore
<1>1. handlers'[g] = t
  BY DEF OneThread, ServiceCore, ServiceTypeOK
<1> QED BY <1>1 DEF InStep

LEMMA StatusEnds ==
  ASSUME OneThread, ServiceCore, NEW h \in Handler, Finish(h), UNCHANGED store
  PROVE  StatusCore' /\ StoreAdvances
BY StatusMoves, StatusStays DEF Finish

LEMMA StatusContinues ==
  ASSUME OneThread, ServiceCore, NEW h \in Handler, NEW t \in Thread, t = handlers[h],
         NEW step \in Step, NEW record \in AuditRecord, Continue(h, step, record),
         StatusFits(step, store'[t.audit].status, record.status)
  PROVE  StatusCore'
<1> DEFINE next == [t EXCEPT !.step = step, !.record = record]
<1>1. /\ next \in Thread /\ next.step = step /\ next.record = record
      /\ next.audit = t.audit
  BY DEF Thread
<1>2. handlers' = [handlers EXCEPT ![h] = next]
  BY DEF ServiceCore, ServiceTypeOK, Continue
<1> HIDE DEF next
<1> QED BY <1>1, <1>2, StatusMoves

\* The same for a thread that stores nothing.
LEMMA StatusGoesOn ==
  ASSUME OneThread, ServiceCore, NEW h \in Handler, NEW t \in Thread, t = handlers[h],
         NEW step \in Step, NEW record \in AuditRecord, Continue(h, step, record),
         StatusFits(step, store[t.audit].status, record.status), UNCHANGED store
  PROVE  StatusCore' /\ StoreAdvances
BY StatusContinues, StatusStays

LEMMA FitsFacts ==
  ASSUME ServiceCore, StatusCore, NEW h \in Handler, handlers[h].step # "idle"
  PROVE  \E t \in Thread :
           /\ t = handlers[h] /\ StatusFits(t.step, store[t.audit].status, t.record.status)
           /\ t.op \in Operation /\ t.audit \in Audit /\ t.record \in AuditRecord
           /\ t.upheld \in BOOLEAN
           /\ store[t.audit] \in AuditRecord
           /\ t.record.status \in {"none", "draft", "published", "challenged", "resolved"}
<1>1. PICK t \in Thread : t = handlers[h] /\ t.op \in Operation /\ t.audit \in Audit
                          /\ t.record \in AuditRecord /\ t.upheld \in BOOLEAN
  BY HeldFacts
<1>2. t # Idle
  BY <1>1 DEF Idle
<1> QED BY <1>1, <1>2 DEF StatusCore, InStep, ServiceCore, ServiceTypeOK, AuditRecord

LEMMA AdmitFits ==
  ASSUME NEW op \in Operation, NEW a, NEW record \in AuditRecord, NEW upheld \in BOOLEAN,
         NEW step, step = Admit(op, a, record, upheld)
  PROVE  /\ step \in {"publish", "submit", "challenge", "resolve", "idle"}
         /\ StatusFits(step, record.status, record.status)
<1>1. \/ step \in {"publish", "submit"} /\ record.status = "draft"
      \/ step = "challenge" /\ record.status = "published"
      \/ step = "resolve" /\ record.status = "challenged"
      \/ step = "idle"
  BY DEF Admit
<1> QED BY <1>1 DEF StatusFits, Unsaved

LEMMA StatusLoaded ==
  ASSUME OneThread, ServiceCore, UNCHANGED store, NEW h \in Handler,
         NEW op \in Operation, NEW a \in Audit, NEW upheld \in BOOLEAN,
         Loaded(h, op, a, store[a], upheld)
  PROVE  StatusCore' /\ StoreAdvances
<1>1. PICK record \in AuditRecord : record = store[a]
  BY DEF ServiceCore, ServiceTypeOK
<1>2. PICK step :
        /\ step = IF ~record.normal \/ record.entry \in Claims THEN "refresh"
                  ELSE Admit(op, a, record, upheld)
        /\ handlers' = [handlers EXCEPT ![h] =
             IF step = "idle" THEN Idle
             ELSE [op |-> op, step |-> step, audit |-> a, record |-> record,
                   upheld |-> upheld]]
  BY <1>1 DEF Loaded
<1>3. step \in Step /\ StatusFits(step, record.status, record.status)
  <2>1. CASE step = "refresh"
    BY <2>1 DEF StatusFits, Unsaved, Step
  <2>2. CASE step = Admit(op, a, record, upheld)
    BY <2>2, AdmitFits DEF Step
  <2> QED BY <1>2, <2>1, <2>2
<1> DEFINE next == [op |-> op, step |-> step, audit |-> a, record |-> record,
                    upheld |-> upheld]
<1>4. next \in Thread /\ next.step = step /\ next.audit = a /\ next.record = record
  BY <1>3 DEF Thread
<1>5. handlers' = [handlers EXCEPT ![h] = IF step = "idle" THEN Idle ELSE next]
  BY <1>2
<1>6. store'[a].status = record.status
  BY <1>1
<1> HIDE DEF next
<1> QED BY <1>3, <1>4, <1>5, <1>6, StatusMoves, StatusStays

LEMMA StatusChecked ==
  ASSUME OneThread, ServiceCore, NEW h \in Handler, NEW t \in Thread, t = handlers[h],
         NEW record \in AuditRecord, record.status = store'[t.audit].status,
         Checked(h, record)
  PROVE  StatusCore'
<1>1. t.op \in Operation /\ t.audit \in Audit /\ t.upheld \in BOOLEAN
  BY DEF Thread
<1>2. PICK step : /\ step = Admit(t.op, t.audit, record, t.upheld)
                  /\ IF step = "idle" THEN Finish(h) ELSE Continue(h, step, record)
  BY DEF Checked
<1>3. /\ step \in {"publish", "submit", "challenge", "resolve", "idle"}
      /\ StatusFits(step, record.status, record.status)
  BY <1>1, <1>2, AdmitFits
<1>4. CASE step = "idle"
  BY <1>2, <1>4, StatusMoves DEF Finish
<1>5. CASE step # "idle"
  BY <1>2, <1>3, <1>5, StatusContinues DEF Step
<1> QED BY <1>4, <1>5

\* A record that a step changed without touching its status or its entry.
Touched(record, r) ==
  \/ r = record
  \/ \E value \in {"failed", "requested", "responded"} :
       r = [record EXCEPT !.validation = value]
  \/ \E value \in {"failed", "recorded", "resolved"} :
       r = [record EXCEPT !.reputation = value]
  \/ \E value \in Stage : r = [record EXCEPT !.claimState = value]
  \/ \E value \in {"inadmissible", "admissible"} :
       r = [record EXCEPT !.policy = value, !.normal = TRUE]

LEMMA TouchedFacts ==
  ASSUME NEW record \in AuditRecord, NEW r, Touched(record, r)
  PROVE  r \in AuditRecord /\ r.status = record.status /\ r.entry = record.entry
BY DEF Touched, AuditRecord

\* What the steps that call, read and verify make of a thread, in one list: the
\* step that it was at, the step that it goes to, and the record that it holds.
ThreadChanges(t, step, r) ==
  \/ /\ t.step \in {"publish", "submit"} /\ step \in {"requestValidation", "readClaim"}
     /\ \E id \in Entries : r = [t.record EXCEPT !.status = "published", !.entry = id]
  \/ /\ <<t.step, step>> \in {<<"requestValidation", "recordClaim">>, <<"recordClaim", "save">>,
                              <<"readClaim", "save">>, <<"respond", "recordResolution">>,
                              <<"recordResolution", "save">>, <<"verify", "save">>,
                              <<"verify", "autoResolve">>, <<"autoResolve", "save">>}
     /\ Touched(t.record, r)
  \/ /\ t.step = "challenge" /\ step = "open"
     /\ r.status = "challenged" /\ r.entry = t.record.entry /\ r \in AuditRecord
  \/ /\ t.step \in {"autoResolve", "resolve"} /\ step \in {"save", "respond"}
     /\ r.status = "resolved" /\ r.entry = t.record.entry /\ r \in AuditRecord

LEMMA ChangesFit ==
  ASSUME NEW t \in Thread, NEW step, NEW r, ThreadChanges(t, step, r),
         NEW stored, StatusFits(t.step, stored, t.record.status)
  PROVE  r \in AuditRecord /\ step \in Step /\ StatusFits(step, stored, r.status)
<1>1. t.record \in AuditRecord
  BY DEF Thread
<1>2. CASE t.step \in {"publish", "submit"} /\ step \in {"requestValidation", "readClaim"}
  <2>1. PICK id \in Entries : r = [t.record EXCEPT !.status = "published", !.entry = id]
    BY <1>2 DEF ThreadChanges
  <2>2. r \in AuditRecord /\ r.status = "published"
    BY <1>1, <2>1 DEF AuditRecord
  <2> QED BY <1>2, <2>2 DEF StatusFits, Unsaved, Advance, Step
<1>3. CASE Touched(t.record, r) /\ t.step \notin {"publish", "submit"}
  <2>1. r \in AuditRecord /\ r.status = t.record.status
    BY <1>1, <1>3, TouchedFacts
  <2> QED BY <1>3, <2>1 DEF ThreadChanges, StatusFits, Unsaved, Advance, Step
<1>4. CASE /\ t.step = "challenge" /\ step = "open"
           /\ r.status = "challenged" /\ r \in AuditRecord
  BY <1>4 DEF StatusFits, Unsaved, Advance, Step
<1>5. CASE /\ t.step \in {"autoResolve", "resolve"} /\ step \in {"save", "respond"}
           /\ r.status = "resolved" /\ r \in AuditRecord
  BY <1>5 DEF StatusFits, Unsaved, Advance, Step
<1> QED BY <1>2, <1>3, <1>4, <1>5 DEF ThreadChanges

\* A thread that has changed like that.
Changed(h, t) ==
  \E next \in Thread :
    /\ handlers' = [handlers EXCEPT ![h] = next]
    /\ next.audit = t.audit /\ ThreadChanges(t, next.step, next.record)

LEMMA ContinueChanges ==
  ASSUME ServiceCore, NEW h \in Handler, NEW t \in Thread, t = handlers[h],
         NEW step, NEW r, ThreadChanges(t, step, r), Continue(h, step, r)
  PROVE  Changed(h, t)
<1>1. t.record \in AuditRecord /\ step \in Step
  BY DEF Thread, ThreadChanges, Step
<1>2. r \in AuditRecord
  <2>1. CASE \E id \in Entries : r = [t.record EXCEPT !.status = "published", !.entry = id]
    BY <1>1, <2>1 DEF AuditRecord
  <2>2. CASE Touched(t.record, r)
    BY <1>1, <2>2, TouchedFacts
  <2> QED BY <2>1, <2>2 DEF ThreadChanges
<1> DEFINE next == [t EXCEPT !.step = step, !.record = r]
<1>3. /\ next \in Thread /\ next.step = step /\ next.record = r /\ next.audit = t.audit
  BY <1>1, <1>2 DEF Thread
<1>4. handlers' = [handlers EXCEPT ![h] = next]
  BY DEF ServiceCore, ServiceTypeOK, Continue
<1> HIDE DEF next
<1> QED BY <1>3, <1>4 DEF Changed

CallStep(h) ==
  \/ PublishTransaction(h) \/ SubmitTransaction(h) \/ ReadClaim(h)
  \/ RequestValidation(h) \/ RecordClaim(h) \/ Respond(h) \/ RecordResolution(h)
  \/ ChallengeTransaction(h) \/ VerifyChallenge(h) \/ AutoResolve(h)
  \/ ResolveTransaction(h)

LEMMA CallsChange ==
  ASSUME ServiceCore, NEW h \in Handler, NEW t \in Thread, t = handlers[h],
         t.record \in AuditRecord, t.upheld \in BOOLEAN, CallStep(h)
  PROVE  UNCHANGED store /\ (Finish(h) \/ Changed(h, t))
<1>1. UNCHANGED store
  BY DEF CallStep, PublishTransaction, SubmitTransaction, ReadClaim, RequestValidation,
     RecordClaim, Respond, RecordResolution, ChallengeTransaction, VerifyChallenge,
     AutoResolve, ResolveTransaction
<1>2. CASE PublishTransaction(h) \/ SubmitTransaction(h)
  <2>1. CASE Finish(h)
    BY <2>1, <1>1
  <2>2. CASE ~Finish(h)
    <3>1. PICK id \in Entries, step \in {"requestValidation", "readClaim"} :
            Continue(h, step, [t.record EXCEPT !.status = "published", !.entry = id])
      BY <1>2, <2>2 DEF PublishTransaction, SubmitTransaction, Entries
    <3>2. t.step \in {"publish", "submit"}
      BY <1>2 DEF PublishTransaction, SubmitTransaction, At
    <3>3. PICK r : /\ r = [t.record EXCEPT !.status = "published", !.entry = id]
                   /\ Continue(h, step, r)
      BY <3>1
    <3>4. ThreadChanges(t, step, r)
      BY <3>2, <3>3 DEF ThreadChanges
    <3> QED BY <1>1, <3>3, <3>4, ContinueChanges
  <2> QED BY <2>1, <2>2
<1>3. CASE RequestValidation(h) \/ Respond(h)
  <2>1. CASE Finish(h)
    BY <2>1, <1>1
  <2>2. CASE ~Finish(h)
    <3>1. PICK value \in {"failed", "requested", "responded"},
                step \in {"recordClaim", "recordResolution"} :
            /\ <<t.step, step>> \in {<<"requestValidation", "recordClaim">>,
                                     <<"respond", "recordResolution">>}
            /\ Continue(h, step, [t.record EXCEPT !.validation = value])
      BY <1>3, <2>2 DEF RequestValidation, Respond, Raised, At
    <3>2. PICK r : r = [t.record EXCEPT !.validation = value] /\ Continue(h, step, r)
      BY <3>1
    <3>3. Touched(t.record, r)
      BY <3>2 DEF Touched
    <3>4. ThreadChanges(t, step, r)
      BY <3>1, <3>3 DEF ThreadChanges
    <3> QED BY <1>1, <3>2, <3>4, ContinueChanges
  <2> QED BY <2>1, <2>2
<1>4. CASE RecordClaim(h) \/ RecordResolution(h)
  <2>1. CASE Finish(h)
    BY <2>1, <1>1
  <2>2. CASE ~Finish(h)
    <3>1. PICK value \in {"failed", "recorded", "resolved"} :
            /\ t.step \in {"recordClaim", "recordResolution"}
            /\ Continue(h, "save", [t.record EXCEPT !.reputation = value])
      BY <1>4, <2>2 DEF RecordClaim, RecordResolution, Raised, At
    <3>2. PICK r : r = [t.record EXCEPT !.reputation = value] /\ Continue(h, "save", r)
      BY <3>1
    <3>3. Touched(t.record, r)
      BY <3>2 DEF Touched
    <3>4. ThreadChanges(t, "save", r)
      BY <3>1, <3>3 DEF ThreadChanges
    <3> QED BY <1>1, <3>2, <3>4, ContinueChanges
  <2> QED BY <2>1, <2>2
<1>5. CASE ReadClaim(h)
  <2>1. CASE Finish(h)
    BY <1>1, <2>1
  <2>2. CASE ~Finish(h)
    <3>1. PICK r : r = [t.record EXCEPT !.claimState = stage[t.record.entry]]
                   /\ Continue(h, "save", r)
      BY <1>5, <2>2 DEF ReadClaim
    <3>2. stage[t.record.entry] \in Stage
      <4>1. StepKept(t.audit, t.step, t.record, t.upheld) /\ t.record.entry \in Entries \cup {NoEntry}
        BY <1>5, HeldFacts DEF ReadClaim, At
      <4> QED BY <1>5, <4>1 DEF StepKept, ReadClaim, At, ServiceCore, ServiceTypeOK
    <3>3. Touched(t.record, r)
      BY <3>1, <3>2 DEF Touched
    <3>4. ThreadChanges(t, "save", r)
      BY <1>5, <3>3 DEF ThreadChanges, ReadClaim, At
    <3> QED BY <1>1, <3>1, <3>4, ContinueChanges
  <2> QED BY <2>1, <2>2
<1>6. CASE ChallengeTransaction(h)
  <2>1. CASE Finish(h)
    BY <1>1, <2>1
  <2>2. CASE ~Finish(h)
    <3>1. PICK r \in AuditRecord : /\ r.entry = t.record.entry /\ r.status = "challenged"
                                   /\ Continue(h, "open", r)
      BY <1>6, <2>2, ChallengedFacts DEF ChallengeTransaction
    <3>4. ThreadChanges(t, "open", r)
      BY <1>6, <3>1 DEF ThreadChanges, ChallengeTransaction, At
    <3> QED BY <1>1, <3>1, <3>4, ContinueChanges
  <2> QED BY <2>1, <2>2
<1>7. CASE VerifyChallenge(h)
  <2>1. CASE Finish(h)
    BY <1>1, <2>1
  <2>2. CASE \E value \in {"inadmissible", "admissible"} :
               Continue(h, "save", [t.record EXCEPT !.policy = value, !.normal = TRUE])
    <3>1. PICK value \in {"inadmissible", "admissible"} :
            Continue(h, "save", [t.record EXCEPT !.policy = value, !.normal = TRUE])
      BY <2>2
    <3>2. PICK r : /\ r = [t.record EXCEPT !.policy = value, !.normal = TRUE]
                   /\ Continue(h, "save", r)
      BY <3>1
    <3>3. Touched(t.record, r)
      BY <3>2 DEF Touched
    <3>4. ThreadChanges(t, "save", r)
      BY <1>7, <3>3 DEF ThreadChanges, VerifyChallenge, At
    <3> QED BY <1>1, <3>2, <3>4, ContinueChanges
  <2>3. CASE \E upheld \in BOOLEAN :
               handlers' = [handlers EXCEPT
                 ![h].step = "autoResolve", ![h].upheld = upheld,
                 ![h].record = [t.record EXCEPT !.policy = "admissible", !.normal = TRUE]]
    <3>1. PICK upheld \in BOOLEAN :
            handlers' = [handlers EXCEPT
              ![h].step = "autoResolve", ![h].upheld = upheld,
              ![h].record = [t.record EXCEPT !.policy = "admissible", !.normal = TRUE]]
      BY <2>3
    <3>2. PICK r : /\ r = [t.record EXCEPT !.policy = "admissible", !.normal = TRUE]
                   /\ handlers' = [handlers EXCEPT
                        ![h].step = "autoResolve", ![h].upheld = upheld, ![h].record = r]
      BY <3>1
    <3>3. Touched(t.record, r) /\ r \in AuditRecord
      BY <3>2, TouchedFacts DEF Touched
    <3>4. ThreadChanges(t, "autoResolve", r)
      BY <1>7, <3>3 DEF ThreadChanges, VerifyChallenge, At
    <3> DEFINE next == [t EXCEPT !.step = "autoResolve", !.upheld = upheld, !.record = r]
    <3>5. /\ next \in Thread /\ next.step = "autoResolve" /\ next.record = r
          /\ next.audit = t.audit
      BY <3>3 DEF Thread, Step
    <3>6. handlers' = [handlers EXCEPT ![h] = next]
      BY <3>2 DEF ServiceCore, ServiceTypeOK
    <3> HIDE DEF next
    <3> QED BY <1>1, <3>4, <3>5, <3>6 DEF Changed
  <2> QED BY <1>7, <2>1, <2>2, <2>3 DEF VerifyChallenge
<1>8. CASE AutoResolve(h) \/ ResolveTransaction(h)
  <2>1. CASE Finish(h)
    BY <1>1, <2>1
  <2>2. CASE t.step = "autoResolve" /\ Continue(h, "save", t.record)
    <3>1. ThreadChanges(t, "save", t.record)
      BY <2>2 DEF ThreadChanges, Touched
    <3> QED BY <1>1, <2>2, <3>1, ContinueChanges
  <2>3. CASE /\ t.step \in {"autoResolve", "resolve"}
             /\ \E r : r = Settled(t.record, t.upheld) /\ Continue(h, AfterVerdict(r), r)
    <3>1. PICK r : r = Settled(t.record, t.upheld) /\ Continue(h, AfterVerdict(r), r)
      BY <2>3
    <3>2. r \in AuditRecord /\ r.status = "resolved" /\ r.entry = t.record.entry
      BY <3>1, SettledFacts
    <3>3. AfterVerdict(r) \in {"save", "respond"}
      BY <3>1, SettledFacts
    <3>4. ThreadChanges(t, AfterVerdict(r), r)
      BY <2>3, <3>2, <3>3 DEF ThreadChanges
    <3> QED BY <1>1, <3>1, <3>4, ContinueChanges
  <2> QED BY <1>8, <2>1, <2>2, <2>3 DEF AutoResolve, ResolveTransaction, Raised, At
<1> QED BY <1>2, <1>3, <1>4, <1>5, <1>6, <1>7, <1>8 DEF CallStep

\* What a refresh makes of the record of a thread.
LEMMA RefreshFacts ==
  ASSUME ServiceCore, NEW h \in Handler, NEW t \in Thread, t = handlers[h],
         t.record \in AuditRecord, Refresh(h)
  PROVE  \E result \in AuditRecord :
           /\ result.status = t.record.status /\ result.entry = t.record.entry
           /\ IF result # t.record THEN Continue(h, "writeBack", result)
                                   ELSE Checked(h, t.record)
<1>1. PICK result :
        /\ \/ result = [t.record EXCEPT !.normal = TRUE]
           \/ /\ t.record.entry \in Claims
              /\ result = [[t.record EXCEPT !.normal = TRUE]
                             EXCEPT !.claimState = stage[t.record.entry]]
        /\ IF result # t.record THEN Continue(h, "writeBack", result)
                                ELSE Checked(h, t.record)
  <2> DEFINE n == [handlers[h].record EXCEPT !.normal = TRUE]
             c == [n EXCEPT !.claimState = stage[handlers[h].record.entry]]
  <2>1. PICK result \in {n, c} :
          /\ result # n => handlers[h].record.entry \in Claims
          /\ IF result # handlers[h].record THEN Continue(h, "writeBack", result)
                                            ELSE Checked(h, handlers[h].record)
    BY DEF Refresh
  <2> QED BY <2>1
<1>2. t.record.entry \in Claims => stage[t.record.entry] \in Stage
  BY DEF ServiceCore, ServiceTypeOK, Entries
<1>3. PICK n : n = [t.record EXCEPT !.normal = TRUE]
  OBVIOUS
<1>4. n \in AuditRecord /\ n.status = t.record.status /\ n.entry = t.record.entry
  BY <1>3 DEF AuditRecord
<1>5. \/ result = n
      \/ /\ t.record.entry \in Claims
         /\ result = [n EXCEPT !.claimState = stage[t.record.entry]]
  BY <1>1, <1>3
<1>6. result \in AuditRecord /\ result.status = t.record.status /\ result.entry = t.record.entry
  BY <1>2, <1>4, <1>5 DEF AuditRecord
<1> QED BY <1>1, <1>6

\* A step of the one thread.
LEMMA StatusOfThread ==
  ASSUME OneThread, ServiceCore, StatusCore, NEW h \in Handler, ThreadStep(h)
  PROVE  StatusCore' /\ StoreAdvances
<1>1. CASE \E a \in Audit : CreateAudit(h, a)
  <2>1. PICK a \in Audit : CreateAudit(h, a)
    BY <1>1
  <2>2. store \in [Audit -> AuditRecord] /\ store[a].status = "none"
    BY <2>1 DEF ServiceCore, ServiceTypeOK, CreateAudit
  <2>3. /\ \A b \in Audit : b # a => store'[b] = store[b]
        /\ store'[a] = [store[a] EXCEPT !.status = "draft"]
    BY <2>1, <2>2 DEF CreateAudit
  <2>4. store'[a].status = "draft"
    BY <2>2, <2>3 DEF AuditRecord
  <2>5. StoreAdvances
    <3>1. \A b \in Audit : store[b].status \in {"none", "draft", "published", "challenged", "resolved"}
      BY <2>2 DEF AuditRecord
    <3> QED BY <2>2, <2>3, <2>4, <3>1 DEF StoreAdvances, Advance
  <2> DEFINE next == [op |-> "get", step |-> "load", audit |-> a, record |-> NoRecord,
                      upheld |-> FALSE]
  <2>6. next \in Thread /\ next.step = "load"
    BY DEF Thread, Operation, Step, AuditRecord, NoRecord, Stage
  <2>7. handlers' = [handlers EXCEPT ![h] = next]
    BY <2>1 DEF CreateAudit
  <2> HIDE DEF next
  <2>8. StatusFits(next.step, store'[next.audit].status, next.record.status)
    BY <2>6 DEF StatusFits, Unsaved
  <2> QED BY <2>5, <2>6, <2>7, <2>8, StatusMoves
<1>2. CASE \E op \in Operation, a \in Audit, upheld \in BOOLEAN : Load(h, op, a, upheld)
  BY <1>2, StatusLoaded DEF Load
<1>3. CASE LoadAnswer(h)
  <2>1. handlers[h].audit \in Audit
    BY <1>3, HeldFacts DEF LoadAnswer, At
  <2> QED BY <1>3, <2>1, StatusLoaded DEF LoadAnswer, Operation
<1>4. ASSUME ~At(h, "idle")
      PROVE  \E t \in Thread :
           /\ t = handlers[h] /\ StatusFits(t.step, store[t.audit].status, t.record.status)
           /\ t.op \in Operation /\ t.audit \in Audit /\ t.record \in AuditRecord
           /\ t.upheld \in BOOLEAN
           /\ store[t.audit] \in AuditRecord
           /\ t.record.status \in {"none", "draft", "published", "challenged", "resolved"}
  BY <1>4, FitsFacts DEF At
<1>5. CASE Refresh(h)
  <2>1. PICK t \in Thread :
          /\ t = handlers[h] /\ StatusFits(t.step, store[t.audit].status, t.record.status)
          /\ t.record \in AuditRecord
    BY <1>4, <1>5 DEF Refresh, At
  <2>2. t.record.status = store'[t.audit].status
    BY <1>5, <2>1 DEF Refresh, At, StatusFits, Unsaved
  <2>3. PICK result \in AuditRecord :
          /\ result.status = t.record.status
          /\ IF result # t.record THEN Continue(h, "writeBack", result)
                                  ELSE Checked(h, t.record)
    BY <1>5, <2>1, RefreshFacts
  <2>5. StatusFits("writeBack", store'[t.audit].status, result.status)
    BY <2>2, <2>3 DEF StatusFits, Unsaved
  <2>6. CASE result # t.record
    <3>1. Continue(h, "writeBack", result)
      BY <2>3, <2>6
    <3> QED BY <1>5, <2>1, <2>5, <3>1, StatusContinues, StatusStays DEF Step, Refresh
  <2>7. CASE result = t.record
    <3>1. Checked(h, t.record)
      BY <2>3, <2>7
    <3> QED BY <1>5, <2>1, <2>2, <3>1, StatusChecked, StatusStays DEF Refresh
  <2> QED BY <2>6, <2>7
<1>6. CASE WriteBack(h) \/ OpenChallenge(h) \/ Save(h)
  <2>1. PICK t \in Thread :
          /\ t = handlers[h] /\ StatusFits(t.step, store[t.audit].status, t.record.status)
          /\ t.audit \in Audit /\ t.record \in AuditRecord /\ store[t.audit] \in AuditRecord
          /\ t.record.status \in {"none", "draft", "published", "challenged", "resolved"}
    BY <1>4, <1>6 DEF WriteBack, OpenChallenge, Save, At
  <2>2. store' = [store EXCEPT ![t.audit] = t.record] /\ store \in [Audit -> AuditRecord]
    BY <1>6, <2>1 DEF WriteBack, OpenChallenge, Save, ServiceCore, ServiceTypeOK
  <2>3. store'[t.audit] = t.record /\ \A b \in Audit : b # t.audit => store'[b] = store[b]
    BY <2>1, <2>2
  <2>4. <<store[t.audit].status, t.record.status>> \in Advance
    BY <1>6, <2>1 DEF WriteBack, OpenChallenge, Save, At, StatusFits, Unsaved, Advance
  <2>5. StoreAdvances
    <3>1. \A b \in Audit : store[b].status \in {"none", "draft", "published", "challenged", "resolved"}
      BY <2>2 DEF AuditRecord
    <3> QED BY <2>3, <2>4, <3>1 DEF StoreAdvances, Advance
  <2>6. CASE WriteBack(h)
    BY <2>1, <2>3, <2>5, <2>6, StatusChecked DEF WriteBack
  <2>7. CASE OpenChallenge(h)
    <3>1. StatusFits("verify", store'[t.audit].status, t.record.status)
      BY <2>1, <2>3, <2>7 DEF OpenChallenge, At, StatusFits, Unsaved
    <3>2. Continue(h, "verify", t.record)
      BY <2>1, <2>7 DEF OpenChallenge
    <3> QED BY <2>1, <2>5, <3>1, <3>2, StatusContinues DEF Step
  <2>8. CASE Save(h)
    <3>1. CASE Finish(h)
      BY <2>5, <3>1, StatusMoves DEF Finish
    <3>2. CASE Continue(h, "load", NoRecord)
      <4>1. NoRecord \in AuditRecord
        BY DEF NoRecord, AuditRecord, Stage
      <4>2. StatusFits("load", store'[t.audit].status, NoRecord.status)
        BY DEF StatusFits, Unsaved
      <4> QED BY <2>1, <2>5, <3>2, <4>1, <4>2, StatusContinues DEF Step
    <3> QED BY <2>8, <3>1, <3>2 DEF Save
  <2> QED BY <1>6, <2>6, <2>7, <2>8
<1>7. CASE CallStep(h)
  <2>1. ~At(h, "idle")
    BY <1>7 DEF CallStep, PublishTransaction, SubmitTransaction, ReadClaim, RequestValidation,
       RecordClaim, Respond, RecordResolution, ChallengeTransaction, VerifyChallenge,
       AutoResolve, ResolveTransaction, At
  <2>2. PICK t \in Thread :
          /\ t = handlers[h] /\ StatusFits(t.step, store[t.audit].status, t.record.status)
          /\ t.record \in AuditRecord /\ t.upheld \in BOOLEAN
    BY <1>4, <2>1
  <2>3. UNCHANGED store /\ (Finish(h) \/ Changed(h, t))
    BY <1>7, <2>2, CallsChange
  <2>4. CASE Changed(h, t)
    <3>1. PICK next \in Thread :
            /\ handlers' = [handlers EXCEPT ![h] = next]
            /\ next.audit = t.audit /\ ThreadChanges(t, next.step, next.record)
      BY <2>4 DEF Changed
    <3>2. StatusFits(next.step, store[t.audit].status, next.record.status)
      BY <2>2, <3>1, ChangesFit
    <3> QED BY <2>3, <3>1, <3>2, StatusMoves, StatusStays
  <2> QED BY <2>3, <2>4, StatusEnds
<1> QED BY <1>1, <1>2, <1>3, <1>5, <1>6, <1>7 DEF ThreadStep, CallStep

\* StatusAdvances for one thread, whatever is lost, late or interrupted: the
\* stored status of an audit goes forward one stage at a time.
THEOREM OneThreadAdvances ==
  ASSUME OneThread
  PROVE  ServiceSpec => StatusAdvances
<1>1. ServiceInit => StatusCore
  BY DEF ServiceInit, StatusCore
<1>2. ServiceCore /\ StatusCore /\ [ServiceNext]_serviceVars => StatusCore' /\ StoreAdvances
  <2> SUFFICES ASSUME ServiceCore, StatusCore, [ServiceNext]_serviceVars
               PROVE  StatusCore' /\ StoreAdvances
    OBVIOUS
  <2>1. CASE \E h \in Handler : ThreadStep(h)
    BY <2>1, StatusOfThread
  <2>2. CASE UNCHANGED store /\ (UNCHANGED handlers \/ Crash)
    <3>1. StatusCore'
      BY <2>2 DEF StatusCore, InStep, Crash
    <3> QED BY <2>2, <3>1, StatusStays
  <2> QED BY <2>1, <2>2 DEF ServiceNext, LateTransaction, Crash, Others, serviceVars
<1>3. StoreAdvances =>
        [\A a \in Audit :
           <<store[a].status, store'[a].status>> \in
             {<<s, s>> : s \in {"none", "draft", "published", "challenged", "resolved"}}
               \cup {<<"none", "draft">>, <<"draft", "published">>,
                     <<"published", "challenged">>, <<"challenged", "resolved">>}
        ]_serviceVars
  BY DEF StoreAdvances, Advance
<1> QED BY <1>1, <1>2, <1>3, ServiceCoreHolds, PTL DEF ServiceSpec, StatusAdvances

-----------------------------------------------------------------------------
(***************************************************************************)
(* One thread, while nothing fails: a report is staked once and a record   *)
(* that is stored tells the stage of its entry.                            *)
(***************************************************************************)

StatusOf(s) ==
  CASE s = "Published" -> "published"
    [] s = "Challenged" -> "challenged"
    [] OTHER -> "resolved"

\* A record of audit a that the chain bears out in full.
Matches(a, record) ==
  /\ \A id \in Entries : author[id] = a => record.entry = id
  /\ record.entry # NoEntry => record.status = StatusOf(stage[record.entry])

\* The stored record of an audit is behind only while a thread has the newer one.
Awaits(t, a) == t # Idle /\ t.audit = a /\ t.step \in Unsaved

QuietCore ==
  faults = {} =>
    /\ late = {}
    /\ \A a \in Audit : Matches(a, store[a]) \/ \E h \in Handler : Awaits(handlers[h], a)
    /\ \A h \in Handler : handlers[h] # Idle /\ handlers[h].step # "load" =>
         Matches(handlers[h].audit, handlers[h].record)

LEMMA SameMatches ==
  ASSUME NEW a, NEW record, NEW r, Matches(a, record), UNCHANGED <<stage, author>>,
         r.entry = record.entry, r.status = record.status
  PROVE  Matches(a, r) /\ Matches(a, r)'
BY DEF Matches

\* The one thread moves on, or begins, or ends.
LEMMA QuietMoves ==
  ASSUME OneThread, ServiceCore, NEW h \in Handler, NEW next \in Thread \cup {Idle},
         handlers' = [handlers EXCEPT ![h] = next], late' = {},
         \A a \in Audit : Matches(a, store[a])' \/ Awaits(next, a),
         next # Idle /\ next.step # "load" => Matches(next.audit, next.record)'
  PROVE  QuietCore'
<1>1. \A g \in Handler : g = h
  BY DEF OneThread
<1>2. handlers'[h] = next
  BY DEF ServiceCore, ServiceTypeOK
<1>3. (\A a \in Audit : Matches(a, store[a]) \/ \E g \in Handler : Awaits(handlers[g], a))'
  BY <1>2 DEF Awaits
<1>4. (\A g \in Handler : handlers[g] # Idle /\ handlers[g].step # "load" =>
         Matches(handlers[g].audit, handlers[g].record))'
  BY <1>1, <1>2 DEF Matches
<1> QED BY <1>3, <1>4 DEF QuietCore

\* What is known while the thread is at a step.
LEMMA QuietFacts ==
  ASSUME OneThread, ServiceCore, QuietCore, faults = {}, NEW h \in Handler
  PROVE  /\ late = {}
         /\ \A a \in Audit : Matches(a, store[a]) \/ Awaits(handlers[h], a)
         /\ handlers[h].step # "idle" =>
              \E t \in Thread :
                /\ t = handlers[h] /\ StepKept(t.audit, t.step, t.record, t.upheld)
                /\ t.audit \in Audit /\ t.record \in AuditRecord
                /\ t.record.entry \in Entries \cup {NoEntry}
                /\ t.op \in Operation /\ t.upheld \in BOOLEAN /\ t # Idle
                /\ t.step # "load" => Matches(t.audit, t.record)
<1>1. \A g \in Handler : g = h
  BY DEF OneThread
<1>2. late = {} /\ \A a \in Audit : Matches(a, store[a]) \/ Awaits(handlers[h], a)
  BY <1>1 DEF QuietCore
<1>3. ASSUME handlers[h].step # "idle"
      PROVE  \E t \in Thread :
                /\ t = handlers[h] /\ StepKept(t.audit, t.step, t.record, t.upheld)
                /\ t.audit \in Audit /\ t.record \in AuditRecord
                /\ t.record.entry \in Entries \cup {NoEntry}
                /\ t.op \in Operation /\ t.upheld \in BOOLEAN /\ t # Idle
                /\ t.step # "load" => Matches(t.audit, t.record)
  <2>1. PICK t \in Thread :
           /\ t = handlers[h] /\ StepKept(t.audit, t.step, t.record, t.upheld)
           /\ t.audit \in Audit /\ t.record \in AuditRecord
           /\ t.record.entry \in Entries \cup {NoEntry}
           /\ t.op \in Operation /\ t.upheld \in BOOLEAN
    BY <1>3, HeldFacts
  <2>2. t # Idle
    BY <1>3, <2>1 DEF Idle
  <2>3. t.step # "load" => Matches(t.audit, t.record)
    BY <2>1, <2>2 DEF QuietCore
  <2> QED BY <2>1, <2>2, <2>3
<1> QED BY <1>2, <1>3

\* A transaction for one audit moves the entry of that audit.
OnlyMoves(id, a) ==
  /\ author[id] \in {NoAudit, a} /\ author'[id] = a
  /\ \A k \in Entries : k # id => author'[k] = author[k] /\ stage'[k] = stage[k]

LEMMA OtherMatches ==
  ASSUME NEW id \in Entries, NEW b \in Audit, OnlyMoves(id, b),
         NEW a \in Audit, a # b, NEW record \in AuditRecord, RecordKept(a, record),
         Matches(a, record)
  PROVE  Matches(a, record)'
<1>1. record.entry \in Entries \cup {NoEntry}
  BY DEF AuditRecord
<1>2. record.entry # NoEntry => record.entry # id
  BY ServiceAssumption DEF RecordKept, OnlyMoves
<1>3. record.entry # NoEntry => stage'[record.entry] = stage[record.entry]
  BY <1>1, <1>2 DEF OnlyMoves
<1>4. \A k \in Entries : author'[k] = a => author[k] = a
  BY DEF OnlyMoves
<1> QED BY <1>3, <1>4 DEF Matches

\* The own record, once it has the entry that moved and its new status.
LEMMA OwnMatches ==
  ASSUME NEW id \in Entries, NEW a \in Audit, OnlyMoves(id, a),
         NEW record, Matches(a, record), record.entry \in {NoEntry, id},
         NEW r, r.entry = id, r.status = StatusOf(stage'[id])
  PROVE  Matches(a, r)'
<1>1. \A k \in Entries : k # id => author'[k] # a
  BY ServiceAssumption DEF OnlyMoves, Matches
<1> QED BY <1>1 DEF Matches

\* What a mined transaction moves.
LEMMA MinedMoves ==
  ASSUME ChainCore, NEW tx \in Transaction, NEW id \in Entries, Mine(tx, id)
  PROVE  /\ tx.call \in {"publish", "submit"} =>
              OnlyMoves(id, tx.audit) /\ stage'[id] = "Published"
         /\ tx.call = "challenge" =>
              stage'[id] = "Challenged" /\ \A a : author[id] = a => OnlyMoves(id, a)
         /\ tx.call = "resolve" =>
              stage'[id] = Verdict(tx.upheld) /\ \A a : author[id] = a => OnlyMoves(id, a)
         /\ tx.call \notin {"publish", "submit", "challenge", "resolve"} =>
              UNCHANGED <<stage, author>>
<1>1. ChainTyped /\ AuthorsAreKnown
  BY DEF ChainCore
<1>2. CASE MinePublish(tx, id) \/ MineSubmit(tx, id)
  BY <1>1, <1>2 DEF MinePublish, MineSubmit, Publish, Move, ChainTyped, AuthorsAreKnown,
     OnlyMoves
<1>3. CASE MineChallenge(tx, id)
  BY <1>1, <1>3 DEF MineChallenge, Challenge, Move, ChainTyped, OnlyMoves
<1>4. CASE MineResolve(tx, id)
  BY <1>1, <1>4 DEF MineResolve, Resolve, Move, ChainTyped, OnlyMoves, Verdict
<1>5. CASE MineValidation(tx, id) \/ MineReputation(tx, id)
  BY <1>5 DEF MineValidation, MineReputation
<1> QED BY <1>2, <1>3, <1>4, <1>5 DEF Mine

LEMMA NextThread ==
  ASSUME ServiceCore, NEW h \in Handler, NEW t \in Thread, t = handlers[h],
         NEW step \in Step, NEW r \in AuditRecord, Continue(h, step, r)
  PROVE  \E next \in Thread :
           /\ handlers' = [handlers EXCEPT ![h] = next]
           /\ next.step = step /\ next.record = r /\ next.audit = t.audit
<1> DEFINE next == [t EXCEPT !.step = step, !.record = r]
<1>1. /\ next \in Thread /\ next.step = step /\ next.record = r /\ next.audit = t.audit
  BY DEF Thread
<1>2. handlers' = [handlers EXCEPT ![h] = next]
  BY DEF ServiceCore, ServiceTypeOK, Continue
<1> HIDE DEF next
<1> QED BY <1>1, <1>2

\* The thread ends before it has anything to save.
LEMMA QuietEnds ==
  ASSUME OneThread, ServiceCore, QuietCore, faults = {}, NEW h \in Handler, Finish(h),
         handlers[h].step \notin Unsaved, UNCHANGED <<stage, author, store, late>>
  PROVE  QuietCore'
<1>1. late = {} /\ \A a \in Audit : Matches(a, store[a])
  BY QuietFacts DEF Awaits
<1>2. \A a \in Audit : Matches(a, store[a])'
  BY <1>1 DEF Matches
<1> QED BY <1>1, <1>2, QuietMoves DEF Finish

\* The thread goes on while the chain stands still.
LEMMA QuietStill ==
  ASSUME OneThread, ServiceCore, QuietCore, faults = {}, NEW h \in Handler,
         NEW t \in Thread, t = handlers[h], t.step \notin {"idle", "load"},
         UNCHANGED <<stage, author, store, late>>,
         NEW next \in Thread, handlers' = [handlers EXCEPT ![h] = next],
         next.audit = t.audit, next.record.entry = t.record.entry,
         next.record.status = t.record.status,
         next.step \in Unsaved \/ t.step \notin Unsaved
  PROVE  QuietCore'
<1>1. late = {} /\ \A a \in Audit : Matches(a, store[a]) \/ Awaits(t, a)
  BY QuietFacts
<1>2. Matches(t.audit, t.record)
  BY QuietFacts
<1>3. Matches(next.audit, next.record)'
  BY <1>2, SameMatches
<1>4. \A a \in Audit : Matches(a, store[a])' \/ Awaits(next, a)
  <2> SUFFICES ASSUME NEW a \in Audit, ~Awaits(next, a) PROVE Matches(a, store[a])'
    OBVIOUS
  <2>1. next # Idle
    BY DEF Thread, Idle
  <2>2. ~Awaits(t, a)
    BY <2>1 DEF Awaits
  <2> QED BY <1>1, <2>2 DEF Matches
<1> QED BY <1>1, <1>3, <1>4, QuietMoves

\* The transaction of the thread is mined, and its record follows.
LEMMA QuietTransaction ==
  ASSUME OneThread, ServiceCore, QuietCore, faults = {}, NEW h \in Handler,
         NEW t \in Thread, t = handlers[h], t.step \notin {"idle", "load"},
         UNCHANGED <<store, late>>, NEW id \in Entries, OnlyMoves(id, t.audit),
         t.record.entry \in {NoEntry, id},
         NEW step \in Step, step \in Unsaved, NEW r \in AuditRecord,
         r.entry = id, r.status = StatusOf(stage'[id]), Continue(h, step, r)
  PROVE  QuietCore'
<1>1. late = {} /\ \A a \in Audit : Matches(a, store[a]) \/ Awaits(t, a)
  BY QuietFacts
<1>2. Matches(t.audit, t.record) /\ t.audit \in Audit
  BY QuietFacts
<1>3. Matches(t.audit, r)'
  BY <1>2, OwnMatches
<1>4. PICK next \in Thread :
         /\ handlers' = [handlers EXCEPT ![h] = next]
         /\ next.step = step /\ next.record = r /\ next.audit = t.audit
  BY NextThread
<1>5. \A a \in Audit : Matches(a, store[a])' \/ Awaits(next, a)
  <2> SUFFICES ASSUME NEW a \in Audit, ~Awaits(next, a) PROVE Matches(a, store[a])'
    OBVIOUS
  <2>1. next # Idle
    BY DEF Thread, Idle
  <2>2. a # t.audit
    BY <1>4, <2>1 DEF Awaits
  <2>3. PICK record \in AuditRecord : /\ record = store[a] /\ RecordKept(a, record)
                                      /\ Matches(a, record)
    BY <1>1, <2>2 DEF Awaits, ServiceCore, ServiceTypeOK
  <2>4. Matches(a, record)'
    BY <1>2, <2>2, <2>3, OtherMatches
  <2>5. record = store'[a]
    BY <2>3
  <2> QED BY <2>4, <2>5 DEF Matches
<1>6. Matches(next.audit, next.record)'
  BY <1>3, <1>4
<1> QED BY <1>1, <1>4, <1>5, <1>6, QuietMoves

\* While nothing fails a call that is refused has done nothing.
LEMMA QuietRefusal ==
  ASSUME faults = {}, NEW h \in Handler, NEW call, Refused(h, call)
  PROVE  UNCHANGED <<stage, author, late>>
BY DEF Refused, chainVars

\* ... and nothing is raised.
LEMMA QuietRaises ==
  ASSUME faults = {}, NEW h, NEW call
  PROVE  ~Raised(h, call)
BY DEF Raised

\* The calls that do not move the entry.
LEMMA QuietAside ==
  ASSUME OneThread, ServiceCore, QuietCore, faults = {}, NEW h \in Handler,
         \/ ReadClaim(h) \/ VerifyChallenge(h) \/ RequestValidation(h)
         \/ RecordClaim(h) \/ Respond(h) \/ RecordResolution(h)
  PROVE  QuietCore'
<1>1. PICK t \in Thread :
         /\ t = handlers[h] /\ StepKept(t.audit, t.step, t.record, t.upheld)
         /\ t.record \in AuditRecord /\ t.upheld \in BOOLEAN
         /\ t.record.entry \in Entries \cup {NoEntry}
  BY QuietFacts DEF ReadClaim, VerifyChallenge, RequestValidation, RecordClaim, Respond,
     RecordResolution, At
<1>2. t.step \in {"readClaim", "verify", "requestValidation", "recordClaim", "respond",
                  "recordResolution"}
  BY <1>1 DEF ReadClaim, VerifyChallenge, RequestValidation, RecordClaim, Respond,
     RecordResolution, At
<1>3. UNCHANGED <<stage, author, store, late>>
  <2>1. CASE ReadClaim(h) \/ VerifyChallenge(h)
    BY <2>1 DEF ReadClaim, VerifyChallenge, chainVars
  <2>2. CASE \E call \in {"requestValidation", "recordClaim", "respond", "recordResolution"} :
               /\ UNCHANGED store
               /\ Refused(h, call) \/ Confirmed(h, call, t.record.entry)
    <3>1. PICK call \in {"requestValidation", "recordClaim", "respond", "recordResolution"} :
               /\ UNCHANGED store
               /\ Refused(h, call) \/ Confirmed(h, call, t.record.entry)
      BY <2>2
    <3>2. CASE Refused(h, call)
      BY <3>1, <3>2, QuietRefusal
    <3>3. CASE Confirmed(h, call, t.record.entry)
      BY <3>1, <3>3 DEF Confirmed, Mine, MinePublish, MineSubmit, MineChallenge, MineResolve,
         MineValidation, MineReputation, Request
    <3> QED BY <3>1, <3>2, <3>3
  <2> QED BY <1>1, <2>1, <2>2, QuietRaises
          DEF RequestValidation, RecordClaim, Respond, RecordResolution
<1>4. Finish(h) \/ Changed(h, t)
  BY <1>1, CallsChange DEF CallStep
<1>5. CASE Changed(h, t)
  <2>1. PICK next \in Thread :
          /\ handlers' = [handlers EXCEPT ![h] = next]
          /\ next.audit = t.audit /\ ThreadChanges(t, next.step, next.record)
    BY <1>5 DEF Changed
  <2>2. Touched(t.record, next.record) /\ (next.step \in Unsaved \/ t.step \notin Unsaved)
    BY <1>2, <2>1 DEF ThreadChanges, Unsaved
  <2>3. next.record.status = t.record.status /\ next.record.entry = t.record.entry
    BY <1>1, <2>2, TouchedFacts
  <2> QED BY <1>1, <1>2, <1>3, <2>1, <2>2, <2>3, QuietStill
<1>6. CASE Finish(h)
  <2>1. CASE VerifyChallenge(h)
    BY <1>3, <1>6, <2>1, QuietEnds DEF VerifyChallenge, At, Unsaved
  <2>2. CASE ~VerifyChallenge(h)
    <3>1. handlers'[h] # Idle
      <4>1. \E step \in {"save", "recordClaim", "recordResolution"} : \E r : Continue(h, step, r)
        BY <2>2, QuietRaises
           DEF ReadClaim, RequestValidation, RecordClaim, Respond, RecordResolution
      <4>2. PICK step \in {"save", "recordClaim", "recordResolution"} :
              \E r : Continue(h, step, r)
        BY <4>1
      <4>3. PICK r :
              handlers' = [handlers EXCEPT ![h].step = step, ![h].record = r]
        BY <4>2 DEF Continue
      <4>4. handlers \in [Handler -> Thread \cup {Idle}] /\ handlers[h] \in Thread
        BY <1>1 DEF ServiceCore, ServiceTypeOK
      <4>5. handlers'[h] = [handlers[h] EXCEPT !.step = step, !.record = r]
        BY <4>3, <4>4
      <4>6. handlers'[h].step = step
        BY <4>4, <4>5 DEF Thread
      <4>7. step # "idle"
        BY <4>2
      <4>8. Idle.step = "idle"
        BY DEF Idle
      <4> QED BY <4>6, <4>7, <4>8
    <3> QED BY <1>6, <3>1 DEF Finish, ServiceCore, ServiceTypeOK
  <2> QED BY <2>1, <2>2
<1> QED BY <1>4, <1>5, <1>6

\* The calls that move it.
LEMMA QuietCall ==
  ASSUME OneThread, ServiceCore, QuietCore, faults = {}, NEW h \in Handler,
         \/ PublishTransaction(h) \/ SubmitTransaction(h) \/ ChallengeTransaction(h)
         \/ AutoResolve(h) \/ ResolveTransaction(h)
  PROVE  QuietCore'
<1>1. PICK t \in Thread :
         /\ t = handlers[h] /\ ThreadKept(t) /\ StepKept(t.audit, t.step, t.record, t.upheld)
         /\ t.audit \in Audit /\ t.record \in AuditRecord /\ t.upheld \in BOOLEAN
         /\ t.record.entry \in Entries \cup {NoEntry}
         /\ t.step \notin {"idle", "load"} \cup Unsaved
  BY QuietFacts DEF ThreadKept, PublishTransaction, SubmitTransaction, ChallengeTransaction,
     AutoResolve, ResolveTransaction, At, Unsaved
<1>2. UNCHANGED store /\ ChainCore
  BY DEF PublishTransaction, SubmitTransaction, ChallengeTransaction, AutoResolve,
     ResolveTransaction, ServiceCore
<1>3. ASSUME NEW call, Refused(h, call), Finish(h) PROVE QuietCore'
  BY <1>1, <1>2, <1>3, QuietRefusal, QuietEnds
<1>4. ASSUME NEW call \in {"publish", "submit"}, At(h, call), NEW id \in Entries,
             Confirmed(h, call, id), NEW step \in {"requestValidation", "readClaim"},
             NEW r, r = [handlers[h].record EXCEPT !.status = "published", !.entry = id],
             Continue(h, step, r)
      PROVE  QuietCore'
  <2>1. PICK tx \in Transaction : tx = Request(h, call) /\ tx.call = call /\ tx.audit = t.audit
    BY <1>1, RequestIsKept DEF Calls
  <2>2. OnlyMoves(id, t.audit) /\ stage'[id] = "Published" /\ UNCHANGED late
    BY <1>2, <1>4, <2>1, MinedMoves DEF Confirmed
  <2>3. r \in AuditRecord /\ r.entry = id /\ r.status = "published"
    BY <1>1, <1>4 DEF AuditRecord
  <2>4. t.record.entry = NoEntry
    BY <1>1, <1>4 DEF StepKept, RecordKept, At
  <2>5. step \in Step /\ step \in Unsaved /\ r.status = StatusOf(stage'[id])
    BY <2>2, <2>3 DEF Step, Unsaved, StatusOf
  <2> QED BY <1>1, <1>2, <1>4, <2>2, <2>3, <2>4, <2>5, QuietTransaction
<1>5. ASSUME NEW call \in {"challenge", "resolve"}, Confirmed(h, call, t.record.entry),
             t.record.entry \in Entries,
             NEW step \in {"open", "save", "respond"}, NEW r \in AuditRecord,
             r.entry = t.record.entry,
             r.status = IF call = "challenge" THEN "challenged" ELSE "resolved",
             Continue(h, step, r)
      PROVE  QuietCore'
  <2>1. PICK tx \in Transaction : tx = Request(h, call) /\ tx.call = call
    BY <1>1, RequestIsKept DEF Calls
  <2>2. author[t.record.entry] = t.audit
    BY <1>1, <1>5, ServiceAssumption DEF StepKept, RecordKept
  <2>3. /\ OnlyMoves(t.record.entry, t.audit) /\ UNCHANGED late
        /\ call = "challenge" => stage'[t.record.entry] = "Challenged"
        /\ call = "resolve" => stage'[t.record.entry] = Verdict(tx.upheld)
    BY <1>2, <1>5, <2>1, <2>2, MinedMoves DEF Confirmed
  <2>4. step \in Step /\ step \in Unsaved /\ r.status = StatusOf(stage'[t.record.entry])
    BY <1>5, <2>3 DEF Step, Unsaved, StatusOf, Verdict
  <2> QED BY <1>1, <1>2, <1>5, <2>3, <2>4, QuietTransaction
<1>6. CASE PublishTransaction(h) \/ SubmitTransaction(h)
  BY <1>3, <1>4, <1>6 DEF PublishTransaction, SubmitTransaction, Entries
<1>7. CASE ChallengeTransaction(h)
  <2>1. PICK r \in AuditRecord :
          /\ r.entry = t.record.entry /\ r.status = "challenged"
          /\ \/ Confirmed(h, "challenge", t.record.entry) /\ Continue(h, "open", r)
             \/ Refused(h, "challenge") /\ Finish(h)
    BY <1>1, <1>7, ChallengedFacts DEF ChallengeTransaction
  <2>4. t.record.entry \in Entries
    BY <1>1, <1>7 DEF StepKept, ChallengeTransaction, At
  <2> QED BY <1>3, <1>5, <2>1, <2>4
<1>8. CASE AutoResolve(h) \/ ResolveTransaction(h)
  <2>1. PICK r : r = Settled(t.record, t.upheld)
    OBVIOUS
  <2>2. r \in AuditRecord /\ r.status = "resolved" /\ r.entry = t.record.entry
    BY <1>1, <2>1, SettledFacts
  <2>3. AfterVerdict(r) \in {"save", "respond"} /\ t.record.entry \in Entries
    BY <1>1, <1>8 DEF AfterVerdict, StepKept, AutoResolve, ResolveTransaction, At
  <2>4. CASE Confirmed(h, "resolve", t.record.entry) /\ Continue(h, AfterVerdict(r), r)
    BY <1>5, <2>2, <2>3, <2>4
  <2>5. CASE Refused(h, "resolve") /\ Finish(h)
    BY <1>3, <2>5
  <2>6. CASE Refused(h, "resolve") /\ Continue(h, "save", t.record)
    <3>1. PICK next \in Thread :
            /\ handlers' = [handlers EXCEPT ![h] = next]
            /\ next.step = "save" /\ next.record = t.record /\ next.audit = t.audit
      BY <1>1, <2>6, NextThread DEF Step
    <3> QED BY <1>1, <1>2, <2>6, <3>1, QuietRefusal, QuietStill
  <2> QED BY <1>1, <1>8, <2>1, <2>2, <2>4, <2>5, <2>6, QuietRaises
          DEF AutoResolve, ResolveTransaction
<1> QED BY <1>6, <1>7, <1>8

LEMMA QuietOfThread ==
  ASSUME OneThread, ServiceCore, QuietCore, faults = {}, UNCHANGED faults,
         NEW h \in Handler, ThreadStep(h)
  PROVE  QuietCore'
<1>1. late = {} /\ store \in [Audit -> AuditRecord]
  BY QuietFacts DEF ServiceCore, ServiceTypeOK
<1>2. ASSUME handlers[h].step \notin Unsaved PROVE \A a \in Audit : Matches(a, store[a])
  BY <1>2, QuietFacts DEF Awaits
<1>3. CASE \E a \in Audit : CreateAudit(h, a)
  <2>1. PICK a \in Audit : CreateAudit(h, a)
    BY <1>3
  <2>2. /\ UNCHANGED <<stage, author, late>> /\ store[a].status = "none"
        /\ store' = [store EXCEPT ![a].status = "draft"]
        /\ \A b \in Audit : Matches(b, store[b])
    BY <1>2, <2>1 DEF CreateAudit, chainVars, At, Unsaved
  <2>3. /\ \A b \in Audit : b # a => store'[b] = store[b]
        /\ store'[a].entry = store[a].entry
    BY <1>1, <2>2 DEF AuditRecord
  <2>4. store[a].entry = NoEntry
    BY <2>2 DEF ServiceCore, RecordKept
  <2>5. \A b \in Audit : Matches(b, store[b])'
    BY <2>2, <2>3, <2>4 DEF Matches
  <2> DEFINE next == [op |-> "get", step |-> "load", audit |-> a, record |-> NoRecord,
                      upheld |-> FALSE]
  <2>6. next \in Thread /\ next.step = "load"
    BY DEF Thread, Operation, Step, AuditRecord, NoRecord, Stage
  <2>7. handlers' = [handlers EXCEPT ![h] = next]
    BY <2>1 DEF CreateAudit
  <2> HIDE DEF next
  <2> QED BY <1>1, <2>2, <2>5, <2>6, <2>7, QuietMoves
<1>4. ASSUME NEW op \in Operation, NEW a \in Audit, NEW upheld \in BOOLEAN,
             Loaded(h, op, a, store[a], upheld), handlers[h].step \notin Unsaved,
             UNCHANGED <<chainVars, late, store>>
      PROVE  QuietCore'
  <2>1. PICK record \in AuditRecord : record = store[a] /\ Matches(a, record)
    BY <1>1, <1>2, <1>4
  <2>2. PICK step :
          /\ step = IF ~record.normal \/ record.entry \in Claims THEN "refresh"
                    ELSE Admit(op, a, record, upheld)
          /\ handlers' = [handlers EXCEPT ![h] =
               IF step = "idle" THEN Idle
               ELSE [op |-> op, step |-> step, audit |-> a, record |-> record,
                     upheld |-> upheld]]
    BY <1>4, <2>1 DEF Loaded
  <2>3. step \in Step
    BY <2>2, AdmitFits DEF Step
  <2> DEFINE next == [op |-> op, step |-> step, audit |-> a, record |-> record,
                      upheld |-> upheld]
  <2>4. next \in Thread /\ next.audit = a /\ next.record = record
    BY <2>3 DEF Thread
  <2>5. handlers' = [handlers EXCEPT ![h] = IF step = "idle" THEN Idle ELSE next]
    BY <2>2
  <2> HIDE DEF next
  <2>6. UNCHANGED <<stage, author, late, store>>
    BY <1>4 DEF chainVars
  <2>7. \A b \in Audit : Matches(b, store[b])'
    BY <1>2, <1>4, <2>6 DEF Matches
  <2>8. Matches(next.audit, next.record)'
    BY <2>1, <2>4, <2>6, SameMatches
  <2> QED BY <1>1, <2>4, <2>5, <2>6, <2>7, <2>8, QuietMoves
<1>5. CASE \E op \in Operation, a \in Audit, upheld \in BOOLEAN : Load(h, op, a, upheld)
  BY <1>4, <1>5 DEF Load, At, Unsaved
<1>6. CASE LoadAnswer(h)
  <2>1. handlers[h].audit \in Audit
    BY <1>6, HeldFacts DEF LoadAnswer, At
  <2> QED BY <1>4, <1>6, <2>1 DEF LoadAnswer, At, Unsaved, Operation
<1>7. ASSUME ~At(h, "idle")
      PROVE  \E t \in Thread :
                /\ t = handlers[h] /\ t.audit \in Audit /\ t.record \in AuditRecord
                /\ t.op \in Operation /\ t.upheld \in BOOLEAN
                /\ t.step # "load" => Matches(t.audit, t.record)
  BY <1>7, QuietFacts DEF At
<1>8. ASSUME NEW t \in Thread, t = handlers[h], NEW record \in AuditRecord,
             Checked(h, record), Matches(t.audit, record),
             UNCHANGED <<stage, author, late>>, \A a \in Audit : Matches(a, store[a])'
      PROVE  QuietCore'
  <2>1. t.op \in Operation /\ t.audit \in Audit /\ t.upheld \in BOOLEAN
    BY DEF Thread
  <2>2. PICK step : /\ step = Admit(t.op, t.audit, record, t.upheld)
                    /\ IF step = "idle" THEN Finish(h) ELSE Continue(h, step, record)
    BY <1>8 DEF Checked
  <2>3. step \in Step
    BY <2>1, <2>2, AdmitFits DEF Step
  <2>4. CASE Finish(h)
    BY <1>1, <1>8, <2>4, QuietMoves DEF Finish
  <2>5. CASE Continue(h, step, record)
    <3>1. PICK next \in Thread :
            /\ handlers' = [handlers EXCEPT ![h] = next]
            /\ next.step = step /\ next.record = record /\ next.audit = t.audit
      BY <1>8, <2>3, <2>5, NextThread
    <3>2. Matches(next.audit, next.record)'
      BY <1>8, <3>1, SameMatches
    <3> QED BY <1>1, <1>8, <3>1, <3>2, QuietMoves
  <2> QED BY <2>2, <2>4, <2>5
<1>9. CASE Refresh(h)
  <2>1. PICK t \in Thread : /\ t = handlers[h] /\ t.audit \in Audit /\ t.record \in AuditRecord
                            /\ Matches(t.audit, t.record) /\ t.step = "refresh"
    BY <1>7, <1>9 DEF Refresh, At
  <2>2. UNCHANGED <<stage, author, late, store>>
    BY <1>9 DEF Refresh, chainVars
  <2>3. \A a \in Audit : Matches(a, store[a])'
    BY <1>2, <2>1, <2>2 DEF Matches, Unsaved
  <2>4. PICK result \in AuditRecord :
          /\ result.status = t.record.status /\ result.entry = t.record.entry
          /\ IF result # t.record THEN Continue(h, "writeBack", result)
                                  ELSE Checked(h, t.record)
    BY <1>9, <2>1, RefreshFacts
  <2>5. CASE result # t.record
    <3>1. Continue(h, "writeBack", result)
      BY <2>4, <2>5
    <3>2. PICK next \in Thread :
            /\ handlers' = [handlers EXCEPT ![h] = next]
            /\ next.step = "writeBack" /\ next.record = result /\ next.audit = t.audit
      BY <2>1, <3>1, NextThread DEF Step
    <3> QED BY <2>1, <2>2, <2>4, <3>2, QuietStill DEF Unsaved
  <2>6. CASE result = t.record
    <3>1. Checked(h, t.record)
      BY <2>4, <2>6
    <3> QED BY <1>8, <2>1, <2>2, <2>3, <3>1
  <2> QED BY <2>5, <2>6
<1>10. CASE WriteBack(h) \/ OpenChallenge(h) \/ Save(h)
  <2>1. PICK t \in Thread : /\ t = handlers[h] /\ t.audit \in Audit /\ t.record \in AuditRecord
                            /\ Matches(t.audit, t.record)
    BY <1>7, <1>10 DEF WriteBack, OpenChallenge, Save, At
  <2>2. /\ UNCHANGED <<stage, author, late>>
        /\ store' = [store EXCEPT ![t.audit] = t.record]
    BY <1>10, <2>1 DEF WriteBack, OpenChallenge, Save, chainVars
  <2>3. \A a \in Audit : Matches(a, store[a])'
    <3>1. \A a \in Audit : a # t.audit => Matches(a, store[a])
      BY <2>1, QuietFacts DEF Awaits
    <3> QED BY <1>1, <2>1, <2>2, <3>1 DEF Matches
  <2>4. CASE WriteBack(h)
    BY <1>8, <2>1, <2>2, <2>3, <2>4 DEF WriteBack
  <2>5. CASE Finish(h)
    BY <1>1, <2>2, <2>3, <2>5, QuietMoves DEF Finish
  <2>6. CASE \E step \in {"verify", "load"}, r \in AuditRecord :
               (step = "verify" => r = t.record) /\ Continue(h, step, r)
    <3>1. PICK step \in {"verify", "load"}, r \in AuditRecord :
               (step = "verify" => r = t.record) /\ Continue(h, step, r)
      BY <2>6
    <3>2. PICK next \in Thread :
            /\ handlers' = [handlers EXCEPT ![h] = next]
            /\ next.step = step /\ next.record = r /\ next.audit = t.audit
      BY <2>1, <3>1, NextThread DEF Step
    <3>3. next.step # "load" => Matches(next.audit, next.record)'
      BY <2>1, <2>2, <3>1, <3>2, SameMatches
    <3> QED BY <1>1, <2>2, <2>3, <3>2, <3>3, QuietMoves
  <2>7. NoRecord \in AuditRecord
    BY DEF NoRecord, AuditRecord, Stage
  <2> QED BY <1>10, <2>1, <2>4, <2>5, <2>6, <2>7 DEF OpenChallenge, Save
<1> QED BY <1>3, <1>5, <1>6, <1>9, <1>10, QuietAside, QuietCall DEF ThreadStep

LEMMA QuietCoreHolds ==
  ASSUME OneThread
  PROVE  ServiceSpec => []QuietCore
<1>1. ServiceInit => QuietCore
  <2> SUFFICES ASSUME ServiceInit PROVE QuietCore
    OBVIOUS
  <2>1. /\ late = {} /\ author = [id \in Entries |-> NoAudit]
        /\ store = [a \in Audit |-> NoRecord] /\ handlers = [h \in Handler |-> Idle]
    BY DEF ServiceInit
  <2>2. \A a \in Audit : Matches(a, store[a])
    BY <2>1, ServiceAssumption DEF Matches, NoRecord
  <2> QED BY <2>1, <2>2 DEF QuietCore
<1>2. ServiceCore /\ QuietCore /\ [ServiceNext]_serviceVars => QuietCore'
  <2> SUFFICES ASSUME ServiceCore, QuietCore, [ServiceNext]_serviceVars, faults = {}
               PROVE  QuietCore'
    BY DEF QuietCore, ServiceNext, serviceVars
  <2>1. CASE UNCHANGED faults /\ \E h \in Handler : ThreadStep(h)
    BY <2>1, QuietOfThread
  <2>2. CASE UNCHANGED serviceVars
    BY <2>2 DEF serviceVars, QuietCore, Matches, Awaits
  <2>3. late = {}
    BY DEF QuietCore
  <2> QED BY <2>1, <2>2, <2>3 DEF ServiceNext, Crash, Others
<1> QED BY <1>1, <1>2, ServiceCoreHolds, PTL DEF ServiceSpec

\* OneStakePerReport for one thread: while nothing fails a report is staked
\* once, whatever is asked of its record and how often.
THEOREM OneThreadStakesOnce ==
  ASSUME OneThread
  PROVE  ServiceSpec => []OneStakePerReport
<1>1. QuietCore => OneStakePerReport
  <2> SUFFICES ASSUME QuietCore, faults = {}, NEW a \in Audit
               PROVE  Cardinality({id \in Entries : author[id] = a}) <= 1
    BY DEF OneStakePerReport
  <2>1. PICK e : \A id \in Entries : author[id] = a => id = e
    <3>1. CASE Matches(a, store[a])
      BY <3>1 DEF Matches
    <3>2. CASE \E h \in Handler : Awaits(handlers[h], a)
      <4>1. PICK h \in Handler : /\ handlers[h] # Idle /\ handlers[h].audit = a
                                 /\ handlers[h].step \in Unsaved
        BY <3>2 DEF Awaits
      <4>2. handlers[h].step # "load"
        BY <4>1 DEF Unsaved
      <4> QED BY <4>1, <4>2 DEF QuietCore, Matches
    <3> QED BY <3>1, <3>2 DEF QuietCore
  <2>2. CASE {id \in Entries : author[id] = a} = {}
    BY <2>2, FS_EmptySet
  <2>3. CASE {id \in Entries : author[id] = a} # {}
    <3>1. {id \in Entries : author[id] = a} = {e}
      BY <2>1, <2>3
    <3> QED BY <3>1, FS_Singleton
  <2> QED BY <2>2, <2>3
<1> QED BY <1>1, QuietCoreHolds, PTL

\* QuietRecordsMatchChain for one thread: while nothing fails and no request is
\* served, every record tells the stage of its entry, and no entry is without
\* its record.
THEOREM OneThreadMatchesChain ==
  ASSUME OneThread
  PROVE  ServiceSpec => []QuietRecordsMatchChain
<1>1. QuietCore => QuietRecordsMatchChain
  BY DEF QuietCore, QuietRecordsMatchChain, Matches, Awaits, StatusOf
<1> QED BY <1>1, QuietCoreHolds, PTL

-----------------------------------------------------------------------------
(***************************************************************************)
(* The contract as the API sees it.                                        *)
(***************************************************************************)

\* A transaction that is mined, whoever sent it, is a step of one entry.
LEMMA MineFollows ==
  ASSUME stage \in [Entries -> Stage], NEW tx, NEW id, Mine(tx, id)
  PROVE  [LifecycleNext]_stage
<1>1. ASSUME NEW from, NEW to, Move(id, from, to), id \notin Entries
      PROVE  UNCHANGED stage
  BY <1>1 DEF Move
<1>2. CASE MinePublish(tx, id) \/ MineSubmit(tx, id)
  BY <1>2 DEF MinePublish, MineSubmit, LifecycleNext, Entries
<1>3. CASE MineChallenge(tx, id)
  BY <1>1, <1>3 DEF MineChallenge, Challenge, LifecycleNext
<1>4. CASE MineResolve(tx, id)
  <2>1. PICK upheld : Resolve(id, upheld)
    BY <1>4 DEF MineResolve
  <2>2. CASE id \notin Entries
    BY <1>1, <2>1, <2>2 DEF Resolve
  <2>3. CASE id \in Entries
    <3>1. \E verdict \in BOOLEAN : Resolve(id, verdict)
      BY <2>1 DEF Resolve
    <3> QED BY <2>3, <3>1 DEF LifecycleNext
  <2> QED BY <2>2, <2>3
<1>5. CASE MineValidation(tx, id) \/ MineReputation(tx, id)
  BY <1>5 DEF MineValidation, MineReputation
<1> QED BY <1>2, <1>3, <1>4, <1>5 DEF Mine

\* What a thread does to the stages is what its transaction does when mined.
LEMMA ThreadStepFollows ==
  ASSUME stage \in [Entries -> Stage], NEW h, ThreadStep(h)
  PROVE  [LifecycleNext]_stage
<1>1. ASSUME NEW call, NEW id, Confirmed(h, call, id)
      PROVE  [LifecycleNext]_stage
  BY <1>1, MineFollows DEF Confirmed
<1>2. ASSUME NEW call, Refused(h, call) \/ Raised(h, call)
      PROVE  [LifecycleNext]_stage
  BY <1>2, MineFollows DEF Refused, Raised, chainVars
<1>3. CASE \/ \E a \in Audit : CreateAudit(h, a)
           \/ \E op \in Operation, a \in Audit, upheld \in BOOLEAN :
                Load(h, op, a, upheld)
           \/ LoadAnswer(h) \/ Refresh(h) \/ WriteBack(h) \/ Save(h)
  BY <1>3 DEF CreateAudit, Load, LoadAnswer, Refresh, WriteBack, Save, chainVars
<1>4. CASE ReadClaim(h) \/ OpenChallenge(h) \/ VerifyChallenge(h)
  BY <1>4 DEF ReadClaim, OpenChallenge, VerifyChallenge, chainVars
<1>5. CASE PublishTransaction(h) \/ SubmitTransaction(h)
  BY <1>1, <1>2, <1>5 DEF PublishTransaction, SubmitTransaction
<1>6. CASE ChallengeTransaction(h) \/ AutoResolve(h) \/ ResolveTransaction(h)
  BY <1>1, <1>2, <1>6 DEF ChallengeTransaction, AutoResolve, ResolveTransaction
<1>7. CASE \/ RequestValidation(h) \/ RecordClaim(h)
           \/ Respond(h) \/ RecordResolution(h)
  BY <1>1, <1>2, <1>7 DEF RequestValidation, RecordClaim, Respond, RecordResolution
<1> QED BY <1>3, <1>4, <1>5, <1>6, <1>7 DEF ThreadStep

\* The chain that the service is proved against is the contract's: with any
\* number of threads, lost and late transactions, restarts and other accounts,
\* what happens to its entries is a behaviour of the lifecycle that both flows
\* of ProofOfAudit implement.
THEOREM ServiceImplementsLifecycle == ServiceSpec => LifecycleSpec
<1>1. ServiceInit => LifecycleInit
  BY DEF ServiceInit
<1>2. ServiceCore /\ [ServiceNext]_serviceVars => [LifecycleNext]_stage
  <2> SUFFICES ASSUME ServiceCore, [ServiceNext]_serviceVars
               PROVE  [LifecycleNext]_stage
    OBVIOUS
  <2>1. stage \in [Entries -> Stage]
    BY DEF ServiceCore, ServiceTypeOK
  <2>2. CASE \E h \in Handler : ThreadStep(h)
    BY <2>1, <2>2, ThreadStepFollows
  <2>3. CASE \E tx \in late : LateTransaction(tx)
    BY <2>1, <2>3, MineFollows DEF LateTransaction, chainVars
  <2>4. CASE Crash
    BY <2>4 DEF Crash, chainVars
  <2>5. ASSUME NEW id \in Entries, Others(id)
        PROVE  [LifecycleNext]_stage
    BY <2>5 DEF Others, LifecycleNext
  <2>6. CASE UNCHANGED serviceVars
    BY <2>6 DEF serviceVars
  <2> QED BY <2>2, <2>3, <2>4, <2>5, <2>6 DEF ServiceNext
<1> QED
  BY <1>1, <1>2, ServiceCoreHolds, PTL DEF ServiceSpec, LifecycleSpec
=============================================================================
