-------------------------- MODULE OperationsProofs --------------------------
(***************************************************************************)
(* Proofs about the parts of the API beside its records' life.  They share *)
(* no state, so each has its own specification and its own invariant, for  *)
(* every set of handlers, processes, callers and environments.             *)
(***************************************************************************)
EXTENDS TransactionSender, RecordStore, ApiGuard, AgentRegistries, SumFacts

(***************************************************************************)
(* The sender of transactions.  What makes overlapping calls exclude each  *)
(* other is that the chain takes the nonces of an account in order: the    *)
(* transaction it mined as number i carries the nonce i - 1, and a call    *)
(* that carries the nonce n has seen exactly the first n.                  *)
(***************************************************************************)
SenderSpec == SenderInit /\ [][SenderNext]_senderVars

\* The types of a call, apart from the bound on its nonce.
CallRecord ==
  [op : OperationName \cup {"none"}, step : Step, nonce : Nat,
   seen : SUBSET Handler, status : {"none", "ok", "reverted"},
   reads : 0 .. VerificationAttempts]

SenderTyped ==
  /\ call \in [Handler -> CallRecord]
  /\ pool \subseteq Handler
  /\ mined \in [Payer -> Seq(Handler)]
  /\ world \in [Object -> 0 .. 4]

\* What an account mined, in the order of the nonces.
MinedInOrder ==
  \A a \in Payer : \A i \in DOMAIN mined[a] : \A h \in Handler :
    h = mined[a][i] =>
      /\ h \notin pool
      /\ call[h].op \in OperationName /\ PayerOf(h) = a
      /\ call[h].nonce = i - 1
      /\ call[h].status # "none"

FirstOf(s, n) == {s[i] : i \in 1 .. n}

\* What a call knows of its account, and what its step says of the chain.
CallIsKept(h) ==
  /\ call[h].step = "idle" <=> call[h].op = "none"
  /\ call[h].op = "none" => call[h].nonce = 0
  /\ call[h].status # "none" => IsMined(h)
  /\ call[h].op # "none" =>
       /\ call[h].nonce <= Len(mined[PayerOf(h)])
       /\ call[h].seen = FirstOf(mined[PayerOf(h)], call[h].nonce)
  /\ h \in pool => /\ call[h].step \in {"sent", "failed", "timed out"}
                   /\ call[h].status = "none"
  /\ call[h].step \in {"idle", "priced", "signed"} =>
       h \notin pool /\ call[h].status = "none"
  /\ call[h].step = "reverted" => h \notin pool /\ call[h].status # "ok"
  /\ call[h].step \in {"confirmed", "done"} => call[h].status = "ok"

CallsAreKept == \A h \in Handler : CallIsKept(h)

SenderCore == SenderTyped /\ MinedInOrder /\ CallsAreKept

\* Elements of a sequence, and of one that grew by an element.
LEMMA ElementsOfSeq ==
  ASSUME NEW S, NEW s \in Seq(S)
  PROVE  /\ Len(s) \in Nat /\ DOMAIN s = 1 .. Len(s)
         /\ \A i \in DOMAIN s : s[i] \in S
<1>1. s \in [1 .. Len(s) -> S] /\ Len(s) \in Nat
  OBVIOUS
<1> QED BY <1>1

LEMMA ElementsOfLonger ==
  ASSUME NEW S, NEW s \in Seq(S), NEW e \in S
  PROVE  /\ Append(s, e) \in Seq(S)
         /\ Len(Append(s, e)) = Len(s) + 1
         /\ DOMAIN Append(s, e) = 1 .. Len(s) + 1
         /\ \A i \in 1 .. Len(s) : Append(s, e)[i] = s[i]
         /\ Append(s, e)[Len(s) + 1] = e
<1>1. Append(s, e) \in Seq(S) /\ Len(Append(s, e)) = Len(s) + 1
  OBVIOUS
<1>2. DOMAIN Append(s, e) = 1 .. Len(s) + 1
  BY <1>1, ElementsOfSeq
<1>3. \A i \in 1 .. Len(s) : Append(s, e)[i] = s[i]
  OBVIOUS
<1>4. Append(s, e)[Len(s) + 1] = e
  OBVIOUS
<1> QED BY <1>1, <1>2, <1>3, <1>4

LEMMA OperationRows ==
  /\ "none" \notin OperationName
  /\ \A op \in OperationName :
       /\ Operation[op].payer \in Payer
       /\ Operation[op].object \in Object
       /\ Operation[op].to \in 0 .. 4
       /\ Operation[op].reads \in 0 .. VerificationAttempts
<1>1. DOMAIN Operation =
        {"publish", "challenge", "resolve", "request", "claim", "challengeClaim",
         "resolveClaim", "classify", "finalize", "withdraw", "refund"}
  BY DEF Operation
<1>2. ASSUME NEW op \in DOMAIN Operation
      PROVE  /\ Operation[op].payer \in Payer
             /\ Operation[op].object \in Object
             /\ Operation[op].to \in 0 .. 4
             /\ Operation[op].reads \in 0 .. VerificationAttempts
  BY <1>1 DEF Operation, Payer, Object, VerificationAttempts, Row, PublishAudit,
     ChallengeAudit, ResolveChallenge, CreateAuditRequest, SubmitAuditRequestClaim,
     ChallengeAuditRequestClaim, ResolveAuditRequestClaimChallenge,
     ClassifyAuditRequestClaims, FinalizeAuditRequestSettlement,
     WithdrawAuditRequestClaimSettlement, WithdrawAuditRequestRefund
<1> QED BY <1>1, <1>2, OperationAssumption

LEMMA SenderInitCore == SenderInit => SenderCore
<1> SUFFICES ASSUME SenderInit PROVE SenderCore
  OBVIOUS
<1>1. NoCall \in CallRecord
  BY DEF NoCall, CallRecord, Step, VerificationAttempts
<1>2. SenderTyped
  BY <1>1 DEF SenderInit, SenderTyped
<1>3. MinedInOrder
  BY DEF SenderInit, MinedInOrder
<1>4. CallsAreKept
  BY DEF SenderInit, CallsAreKept, CallIsKept, NoCall
<1> QED BY <1>2, <1>3, <1>4 DEF SenderCore

\* An account mines a call once.
LEMMA MinedOnce ==
  ASSUME SenderCore, NEW a \in Payer
  PROVE  /\ mined[a] \in Injection(1 .. Len(mined[a]), Handler)
         /\ Len(mined[a]) \in 0 .. Cardinality(Handler)
<1>1. mined[a] \in Seq(Handler)
  BY DEF SenderCore, SenderTyped
<1>2. Len(mined[a]) \in Nat /\ DOMAIN mined[a] = 1 .. Len(mined[a])
  BY <1>1
<1>3. mined[a] \in [1 .. Len(mined[a]) -> Handler]
  BY <1>1
<1>4. ASSUME NEW i \in 1 .. Len(mined[a]), NEW j \in 1 .. Len(mined[a]),
             mined[a][i] = mined[a][j]
      PROVE  i = j
  <2>1. PICK h \in Handler : h = mined[a][i]
    BY <1>3
  <2>2. call[h].nonce = i - 1 /\ call[h].nonce = j - 1
    BY <1>2, <1>4, <2>1 DEF SenderCore, MinedInOrder
  <2> QED BY <2>2
<1>5. mined[a] \in Injection(1 .. Len(mined[a]), Handler)
  BY <1>3, <1>4 DEF Injection, IsInjective
<1>6. /\ Cardinality(1 .. Len(mined[a])) <= Cardinality(Handler)
      /\ Cardinality(1 .. Len(mined[a])) = Len(mined[a])
  BY <1>2, <1>5, FS_Injection, FS_Interval, HandlerAssumption
<1> QED BY <1>2, <1>5, <1>6, FS_CardinalityType, HandlerAssumption

\* What the invariant says of one call.
LEMMA CallFacts ==
  ASSUME SenderCore, NEW h \in Handler
  PROVE  /\ call \in [Handler -> CallRecord] /\ call[h] \in CallRecord
         /\ pool \subseteq Handler /\ world \in [Object -> 0 .. 4]
         /\ CallIsKept(h)
         /\ call[h].step # "idle" =>
              /\ call[h].op \in OperationName
              /\ PayerOf(h) \in Payer
              /\ mined[PayerOf(h)] \in Seq(Handler)
         /\ h \in pool => ~IsMined(h)
<1>1. /\ call \in [Handler -> CallRecord] /\ call[h] \in CallRecord
      /\ pool \subseteq Handler /\ world \in [Object -> 0 .. 4]
      /\ mined \in [Payer -> Seq(Handler)]
      /\ CallIsKept(h)
  BY DEF SenderCore, SenderTyped, CallsAreKept
<1>2. ASSUME call[h].step # "idle"
      PROVE  /\ call[h].op \in OperationName /\ PayerOf(h) \in Payer
             /\ mined[PayerOf(h)] \in Seq(Handler)
  BY <1>1, <1>2, OperationRows DEF CallIsKept, CallRecord, PayerOf, Op
<1>3. ASSUME h \in pool, IsMined(h) PROVE FALSE
  <2>1. PayerOf(h) \in Payer
    BY <1>1, <1>2, <1>3 DEF CallIsKept
  <2> QED BY <1>3, <2>1 DEF IsMined, ToSet, SenderCore, MinedInOrder
<1> QED BY <1>1, <1>2, <1>3

LEMMA MinedCall ==
  ASSUME SenderCore, NEW a \in Payer, NEW i \in DOMAIN mined[a], NEW k \in Handler,
         k = mined[a][i]
  PROVE  /\ k \notin pool /\ call[k].op \in OperationName /\ PayerOf(k) = a
         /\ call[k].nonce = i - 1 /\ call[k].status # "none"
BY DEF SenderCore, MinedInOrder

\* What was mined stays in order while calls keep their operations and nonces.
LEMMA KeepsTheOrder ==
  ASSUME SenderCore, mined' = mined,
         \A k \in Handler : /\ call'[k].op = call[k].op
                            /\ call'[k].nonce = call[k].nonce
                            /\ call'[k].status = call[k].status
                            /\ k \in pool' => k \in pool \/ ~IsMined(k)
  PROVE  MinedInOrder'
<1> SUFFICES ASSUME NEW a \in Payer, NEW i \in DOMAIN mined[a], NEW k \in Handler,
                    k = mined[a][i]
             PROVE  /\ k \notin pool'
                    /\ call'[k].op \in OperationName /\ PayerOf(k)' = a
                    /\ call'[k].nonce = i - 1
                    /\ call'[k].status # "none"
  BY DEF MinedInOrder
<1>1. /\ k \notin pool /\ call[k].op \in OperationName /\ PayerOf(k) = a
      /\ call[k].nonce = i - 1 /\ call[k].status # "none"
  BY MinedCall
<1>2. IsMined(k)
  BY <1>1 DEF IsMined, ToSet
<1>3. PayerOf(k)' = PayerOf(k)
  BY DEF PayerOf, Op
<1> QED BY <1>1, <1>2, <1>3

\* A step that moves one call and mines nothing.
LEMMA MoveKeepsCalls ==
  ASSUME SenderCore, NEW h \in Handler, NEW c \in CallRecord,
         call' = [call EXCEPT ![h] = c], mined' = mined,
         pool' \subseteq Handler, world' \in [Object -> 0 .. 4],
         pool' \ {h} \subseteq pool,
         h \in pool' => ~IsMined(h),
         c.op = call[h].op, c.nonce = call[h].nonce, c.seen = call[h].seen,
         c.status = call[h].status,
         c.step = "idle" <=> call[h].step = "idle",
         h \in pool' => c.step \in {"sent", "failed", "timed out"} /\ c.status = "none",
         c.step \in {"idle", "priced", "signed"} => h \notin pool' /\ c.status = "none",
         c.step = "reverted" => h \notin pool' /\ c.status # "ok",
         c.step \in {"confirmed", "done"} => c.status = "ok"
  PROVE  SenderCore'
<1>1. /\ call \in [Handler -> CallRecord] /\ call'[h] = c
      /\ \A k \in Handler \ {h} : call'[k] = call[k]
      /\ call' \in [Handler -> CallRecord]
  BY DEF SenderCore, SenderTyped
<1>2. \A k \in Handler : /\ call'[k].op = call[k].op /\ call'[k].nonce = call[k].nonce
                         /\ call'[k].seen = call[k].seen
                         /\ call'[k].status = call[k].status
  BY <1>1
<1>3. \A k \in Handler : PayerOf(k)' = PayerOf(k) /\ (IsMined(k)' <=> IsMined(k))
  BY <1>2 DEF PayerOf, Op, IsMined
<1>4. SenderTyped'
  BY <1>1 DEF SenderCore, SenderTyped
<1>5. MinedInOrder'
  BY <1>2, KeepsTheOrder
<1>6. CallsAreKept'
  <2> SUFFICES ASSUME NEW k \in Handler PROVE CallIsKept(k)'
    BY DEF CallsAreKept
  <2>1. /\ CallIsKept(k) /\ PayerOf(k)' = PayerOf(k)
        /\ (IsMined(k)' <=> IsMined(k)) /\ (k # h /\ k \in pool' => k \in pool)
    BY <1>3 DEF SenderCore, CallsAreKept
  <2>2. /\ call'[k].nonce = call[k].nonce /\ call'[k].seen = call[k].seen
        /\ call'[k].op = call[k].op /\ call'[k].status = call[k].status
        /\ mined'[PayerOf(k)'] = mined[PayerOf(k)]
    BY <1>2, <2>1
  <2>3. CASE k = h
    <3>1. call'[h].op # "none" =>
            /\ call'[h].nonce <= Len(mined'[PayerOf(h)'])
            /\ call'[h].seen = FirstOf(mined'[PayerOf(h)'], call'[h].nonce)
      BY <2>1, <2>2, <2>3 DEF CallIsKept
    <3>2. call'[h].status # "none" => IsMined(h)'
      BY <2>2, <2>1, <2>3 DEF CallIsKept
    <3>3. /\ call'[h].step = "idle" <=> call'[h].op = "none"
          /\ call'[h].op = "none" => call'[h].nonce = 0
      BY <1>1, <1>2, <2>1, <2>3 DEF CallIsKept
    <3> QED BY <1>1, <2>3, <3>1, <3>2, <3>3 DEF CallIsKept
  <2>4. CASE k # h
    BY <1>1, <2>1, <2>2, <2>4 DEF CallIsKept
  <2> QED BY <2>3, <2>4
<1> QED BY <1>4, <1>5, <1>6 DEF SenderCore

\* A move that leaves pool and world alone keeps the invariant when the new
\* step says nothing that is not so.
LEMMA QuietMove ==
  ASSUME SenderCore, NEW h \in Handler, NEW step \in Step, MoveTo(h, step),
         UNCHANGED <<pool, mined, world>>,
         call[h].step # "idle", step # "idle",
         h \in pool => step \in {"failed", "timed out"},
         step \in {"priced", "signed"} => h \notin pool /\ call[h].status = "none",
         step = "reverted" => h \notin pool /\ call[h].status # "ok",
         step \in {"confirmed", "done"} => call[h].status = "ok"
  PROVE  SenderCore'
<1> DEFINE c == [call[h] EXCEPT !.step = step]
<1>1. /\ call[h] \in CallRecord /\ pool \subseteq Handler
      /\ call \in [Handler -> CallRecord] /\ world \in [Object -> 0 .. 4]
      /\ CallIsKept(h) /\ (h \in pool => ~IsMined(h))
  BY CallFacts
<1>2. c \in CallRecord
  BY <1>1 DEF CallRecord
<1>3. /\ c.step = step /\ c.op = call[h].op /\ c.nonce = call[h].nonce
      /\ c.seen = call[h].seen /\ c.status = call[h].status
  BY <1>1 DEF CallRecord
<1>4. call' = [call EXCEPT ![h] = c]
  BY <1>1 DEF MoveTo
<1>5. h \in pool' => c.step \in {"sent", "failed", "timed out"} /\ c.status = "none"
  BY <1>1, <1>3 DEF CallIsKept
<1> HIDE DEF c
<1> QED BY <1>1, <1>2, <1>3, <1>4, <1>5, MoveKeepsCalls

LEMMA SendKeepsCore ==
  ASSUME SenderCore, NEW h \in Handler, SendRawTransaction(h)
  PROVE  SenderCore'
<1>1. /\ call[h] \in CallRecord /\ pool \subseteq Handler
      /\ call \in [Handler -> CallRecord] /\ world \in [Object -> 0 .. 4]
      /\ CallIsKept(h) /\ call[h].step = "signed"
      /\ call[h].op \in OperationName /\ PayerOf(h) \in Payer
      /\ mined[PayerOf(h)] \in Seq(Handler)
  BY CallFacts DEF SendRawTransaction
<1>2. h \notin pool /\ call[h].status = "none"
  BY <1>1 DEF CallIsKept
<1>3. CASE MoveTo(h, "failed") /\ UNCHANGED <<pool, mined, world>>
  BY <1>1, <1>2, <1>3, QuietMove DEF Step, Answer
<1>4. ASSUME NEW step \in {"sent", "failed"}, MoveTo(h, step),
             call[h].nonce >= NextNonce(PayerOf(h)),
             pool' = (pool \ Rivals(h)) \cup {h}, UNCHANGED <<mined, world>>
      PROVE  SenderCore'
  <2> DEFINE c == [call[h] EXCEPT !.step = step]
  <2>1. c \in CallRecord
    BY <1>1 DEF CallRecord, Step, Answer
  <2>2. /\ c.step = step /\ c.op = call[h].op /\ c.nonce = call[h].nonce
        /\ c.seen = call[h].seen /\ c.status = call[h].status
    BY <1>1 DEF CallRecord
  <2>3. call' = [call EXCEPT ![h] = c]
    BY <1>1, <1>4 DEF MoveTo
  <2>4. ~IsMined(h)
    BY <1>1, <1>2 DEF IsMined, ToSet, SenderCore, MinedInOrder
  <2>5. /\ pool' \subseteq Handler /\ world' \in [Object -> 0 .. 4]
        /\ pool' \ {h} \subseteq pool
    BY <1>1, <1>4
  <2> HIDE DEF c
  <2> QED BY <1>1, <1>2, <1>4, <2>1, <2>2, <2>3, <2>4, <2>5, MoveKeepsCalls
<1> QED BY <1>3, <1>4 DEF SendRawTransaction

LEMMA HandlerKeepsCore ==
  ASSUME SenderCore, NEW h \in Handler, HandlerStep(h)
  PROVE  SenderCore'
<1>1. /\ CallIsKept(h) /\ call[h] \in CallRecord /\ pool \subseteq Handler
      /\ call \in [Handler -> CallRecord] /\ world \in [Object -> 0 .. 4]
  BY CallFacts
<1>2. CASE EstimateAndSign(h)
  <2>1. PICK step \in {"signed", "reverted", "failed"} : MoveTo(h, step)
    BY <1>2 DEF EstimateAndSign
  <2> QED BY <1>1, <1>2, <2>1, QuietMove DEF EstimateAndSign, CallIsKept, Step, Answer
<1>3. CASE SendRawTransaction(h)
  BY <1>3, SendKeepsCore
<1>4. CASE TakeReceipt(h)
  <2>1. h \notin pool
    BY <1>1, <1>4 DEF TakeReceipt, CallIsKept
  <2> QED BY <1>1, <1>4, <2>1, QuietMove DEF TakeReceipt, CallIsKept, Step, Answer
<1>5. CASE TimeOut(h)
  BY <1>1, <1>5, QuietMove DEF TimeOut, CallIsKept, Step, Answer
<1>6. CASE ReadResult(h)
  <2>1. /\ h \notin pool /\ call[h].status = "ok" /\ call[h].step = "confirmed"
        /\ UNCHANGED <<pool, mined, world>>
    BY <1>1, <1>6 DEF ReadResult, CallIsKept
  <2>2. CASE MoveTo(h, "done")
    BY <1>1, <2>1, <2>2, QuietMove DEF Step, Answer
  <2>3. CASE MoveTo(h, "inconsistent")
    BY <1>1, <2>1, <2>3, QuietMove DEF Step, Answer
  <2>4. CASE call[h].reads > 1 /\ call' = [call EXCEPT ![h].reads = @ - 1]
    <3> DEFINE c == [call[h] EXCEPT !.reads = @ - 1]
    <3>1. c \in CallRecord
      BY <1>1, <2>4 DEF CallRecord, VerificationAttempts
    <3>2. /\ c.step = call[h].step /\ c.op = call[h].op /\ c.nonce = call[h].nonce
          /\ c.seen = call[h].seen /\ c.status = call[h].status
      BY <1>1 DEF CallRecord
    <3>3. call' = [call EXCEPT ![h] = c]
      BY <1>1, <2>4
    <3>4. /\ pool' \subseteq Handler /\ world' \in [Object -> 0 .. 4]
          /\ pool' \ {h} \subseteq pool /\ h \notin pool'
      BY <1>1, <2>1
    <3> HIDE DEF c
    <3> QED BY <2>1, <3>1, <3>2, <3>3, <3>4, MoveKeepsCalls
  <2> QED BY <1>6, <2>2, <2>3, <2>4 DEF ReadResult
<1> QED BY <1>2, <1>3, <1>4, <1>5, <1>6 DEF HandlerStep

\* A call begins with everything its account mined in view.
LEMMA BeginKeepsCore ==
  ASSUME SenderCore, NEW h \in Handler, NEW op \in OperationName, BeginCall(h, op)
  PROVE  SenderCore'
<1> DEFINE payer == Operation[op].payer
           c == [NoCall EXCEPT !.op = op, !.step = "priced",
                               !.nonce = Nonce(payer), !.seen = ToSet(mined[payer]),
                               !.reads = Operation[op].reads]
<1>1. /\ call \in [Handler -> CallRecord] /\ pool \subseteq Handler
      /\ CallIsKept(h) /\ call[h].step = "idle" /\ call[h].op = "none"
      /\ h \notin pool /\ UNCHANGED <<pool, mined, world>>
  BY CallFacts DEF BeginCall, CallIsKept
<1>2. payer \in Payer /\ Operation[op].reads \in 0 .. VerificationAttempts
  BY OperationRows
<1>3. mined[payer] \in Seq(Handler)
  BY <1>2 DEF SenderCore, SenderTyped
<1>4. /\ mined[payer] \in [1 .. Len(mined[payer]) -> Handler]
      /\ Len(mined[payer]) \in Nat
  BY <1>3
<1>5. ToSet(mined[payer]) = FirstOf(mined[payer], Len(mined[payer]))
  BY <1>4 DEF ToSet, FirstOf
<1>6. ToSet(mined[payer]) \subseteq Handler
  BY <1>4 DEF ToSet
<1>7. /\ c.op = op /\ c.step = "priced" /\ c.nonce = Len(mined[payer])
      /\ c.seen = ToSet(mined[payer]) /\ c.status = "none"
      /\ c \in CallRecord
  BY <1>2, <1>4, <1>6 DEF NoCall, CallRecord, Step, Nonce
<1>8. call' = [call EXCEPT ![h] = c]
  BY DEF BeginCall
<1> HIDE DEF c
<1>9. /\ call'[h] = c /\ call' \in [Handler -> CallRecord]
      /\ \A k \in Handler \ {h} : call'[k] = call[k]
  BY <1>1, <1>7, <1>8
<1>10. SenderTyped'
  BY <1>1, <1>9 DEF SenderCore, SenderTyped
<1>11. \A k \in Handler \ {h} : PayerOf(k)' = PayerOf(k) /\ (IsMined(k)' <=> IsMined(k))
  BY <1>1, <1>9 DEF PayerOf, Op, IsMined
<1>12. MinedInOrder'
  <2> SUFFICES ASSUME NEW a \in Payer, NEW i \in DOMAIN mined[a], NEW k \in Handler,
                      k = mined[a][i]
               PROVE  /\ k \notin pool'
                      /\ call'[k].op \in OperationName /\ PayerOf(k)' = a
                      /\ call'[k].nonce = i - 1
                      /\ call'[k].status # "none"
    BY <1>1 DEF MinedInOrder
  <2>1. /\ k \notin pool /\ call[k].op \in OperationName /\ PayerOf(k) = a
        /\ call[k].nonce = i - 1 /\ call[k].status # "none"
    BY DEF SenderCore, MinedInOrder
  <2>2. k # h
    BY <1>1, <2>1, OperationRows
  <2> QED BY <1>1, <1>9, <1>11, <2>1, <2>2
<1>13. CallsAreKept'
  <2> SUFFICES ASSUME NEW k \in Handler PROVE CallIsKept(k)'
    BY DEF CallsAreKept
  <2>1. CASE k # h
    <3>1. /\ CallIsKept(k) /\ call'[k] = call[k] /\ PayerOf(k)' = PayerOf(k)
          /\ (IsMined(k)' <=> IsMined(k)) /\ pool' = pool
          /\ mined'[PayerOf(k)'] = mined[PayerOf(k)]
      BY <1>1, <1>9, <1>11, <2>1 DEF SenderCore, CallsAreKept
    <3> QED BY <3>1 DEF CallIsKept
  <2>2. CASE k = h
    <3>1. PayerOf(h)' = payer
      BY <1>7, <1>9 DEF PayerOf, Op
    <3>2. call'[h].nonce <= Len(mined'[PayerOf(h)'])
      BY <1>1, <1>4, <1>7, <1>9, <3>1
    <3>3. call'[h].seen = FirstOf(mined'[PayerOf(h)'], call'[h].nonce)
      BY <1>1, <1>5, <1>7, <1>9, <3>1
    <3>4. call'[h].op # "none" /\ call'[h].step = "priced" /\ call'[h].status = "none"
          /\ h \notin pool'
      BY <1>1, <1>7, <1>9, OperationRows
    <3> QED BY <2>2, <3>2, <3>3, <3>4 DEF CallIsKept
  <2> QED BY <2>1, <2>2
<1> QED BY <1>10, <1>12, <1>13 DEF SenderCore

\* The chain mines the transaction with the account's next nonce.
LEMMA MineKeepsCore ==
  ASSUME SenderCore, NEW h \in Handler, Mine(h)
  PROVE  SenderCore'
<1> DEFINE payer == PayerOf(h)
           status == IF Allowed(h) THEN "ok" ELSE "reverted"
           c == [call[h] EXCEPT !.status = status]
<1>1. /\ call \in [Handler -> CallRecord] /\ call[h] \in CallRecord
      /\ pool \subseteq Handler /\ world \in [Object -> 0 .. 4]
      /\ CallIsKept(h) /\ h \in pool
      /\ call[h].step \in {"sent", "failed", "timed out"}
      /\ call[h].op \in OperationName /\ payer \in Payer
      /\ mined[payer] \in Seq(Handler) /\ ~IsMined(h)
  BY CallFacts DEF Mine, CallIsKept
<1>2. call[h].nonce = Len(mined[payer])
  BY DEF Mine, NextNonce
<1>3. /\ call' = [call EXCEPT ![h] = c] /\ pool' = pool \ {h}
      /\ mined' = [mined EXCEPT ![payer] = Append(mined[payer], h)]
  BY <1>1 DEF Mine
<1>4. /\ c \in CallRecord /\ c.op = call[h].op /\ c.step = call[h].step
      /\ c.nonce = call[h].nonce /\ c.seen = call[h].seen
      /\ c.status = status /\ status \in {"ok", "reverted"}
  BY <1>1 DEF CallRecord
<1> HIDE DEF c, status
<1>5. /\ call'[h] = c /\ call' \in [Handler -> CallRecord]
      /\ \A k \in Handler \ {h} : call'[k] = call[k]
  BY <1>1, <1>3, <1>4
<1>6. mined \in [Payer -> Seq(Handler)]
  BY DEF SenderCore, SenderTyped
<1> DEFINE longer == Append(mined[payer], h)
<1> HIDE DEF longer
<1>7. /\ longer \in Seq(Handler) /\ Len(longer) = Len(mined[payer]) + 1
      /\ \A i \in 1 .. Len(mined[payer]) : longer[i] = mined[payer][i]
      /\ longer[Len(mined[payer]) + 1] = h
      /\ Len(mined[payer]) \in Nat
      /\ DOMAIN longer = 1 .. Len(mined[payer]) + 1
      /\ DOMAIN mined[payer] = 1 .. Len(mined[payer])
  <2>1. /\ Len(mined[payer]) \in Nat
        /\ DOMAIN mined[payer] = 1 .. Len(mined[payer])
    BY <1>1, ElementsOfSeq
  <2> DEFINE s == mined[payer]
  <2>2. s \in Seq(Handler)
    BY <1>1
  <2> HIDE DEF s
  <2>3. /\ Append(s, h) \in Seq(Handler) /\ Len(Append(s, h)) = Len(s) + 1
        /\ DOMAIN Append(s, h) = 1 .. Len(s) + 1
        /\ \A i \in 1 .. Len(s) : Append(s, h)[i] = s[i]
        /\ Append(s, h)[Len(s) + 1] = h
    BY <2>2, ElementsOfLonger
  <2> QED BY <2>1, <2>3 DEF s, longer
<1>8. /\ mined' = [mined EXCEPT ![payer] = longer]
      /\ mined' \in [Payer -> Seq(Handler)] /\ mined'[payer] = longer
      /\ \A a \in Payer \ {payer} : mined'[a] = mined[a]
  BY <1>1, <1>3, <1>6, <1>7 DEF longer
<1>9. world' \in [Object -> 0 .. 4]
  BY <1>1, OperationRows DEF Mine, Op
<1>10. SenderTyped'
  BY <1>1, <1>3, <1>5, <1>8, <1>9 DEF SenderTyped
<1>11. \A k \in Handler : /\ PayerOf(k)' = PayerOf(k) /\ call'[k].op = call[k].op
                          /\ call'[k].step = call[k].step
                          /\ call'[k].nonce = call[k].nonce
                          /\ call'[k].seen = call[k].seen
  BY <1>4, <1>5 DEF PayerOf, Op
<1>12. MinedInOrder'
  <2> SUFFICES ASSUME NEW a \in Payer, NEW i \in DOMAIN mined'[a], NEW k \in Handler,
                      k = mined'[a][i]
               PROVE  /\ k \notin pool'
                      /\ call'[k].op \in OperationName /\ PayerOf(k)' = a
                      /\ call'[k].nonce = i - 1
                      /\ call'[k].status # "none"
    BY DEF MinedInOrder
  <2>1. CASE a = payer /\ i = Len(mined[payer]) + 1
    <3>1. k = h /\ i - 1 = Len(mined[payer]) /\ PayerOf(h)' = payer
      BY <1>7, <1>8, <1>11, <2>1
    <3> QED BY <1>1, <1>2, <1>3, <1>4, <1>5, <1>7, <1>11, <2>1, <3>1
  <2>2. CASE ~(a = payer /\ i = Len(mined[payer]) + 1)
    <3>1. i \in DOMAIN mined[a] /\ k = mined[a][i]
      BY <1>7, <1>8, <2>2
    <3>2. /\ k \notin pool /\ call[k].op \in OperationName /\ PayerOf(k) = a
          /\ call[k].nonce = i - 1 /\ call[k].status # "none"
      BY <3>1 DEF SenderCore, MinedInOrder
    <3>3. k # h
      BY <1>1, <3>2
    <3> QED BY <1>3, <1>5, <1>11, <3>2, <3>3
  <2> QED BY <2>1, <2>2
<1>13. CallsAreKept'
  <2> SUFFICES ASSUME NEW k \in Handler PROVE CallIsKept(k)'
    BY DEF CallsAreKept
  <2>1. CallIsKept(k) /\ call[k] \in CallRecord
        /\ (call[k].step # "idle" =>
              PayerOf(k) \in Payer /\ mined[PayerOf(k)] \in Seq(Handler))
    BY CallFacts
  <2>2. call'[k].op # "none" =>
          /\ call'[k].nonce <= Len(mined'[PayerOf(k)'])
          /\ call'[k].seen = FirstOf(mined'[PayerOf(k)'], call'[k].nonce)
    <3> SUFFICES ASSUME call[k].op # "none"
                 PROVE  /\ call[k].nonce <= Len(mined'[PayerOf(k)])
                        /\ call[k].seen = FirstOf(mined'[PayerOf(k)], call[k].nonce)
      BY <1>11
    <3>1. /\ call[k].nonce <= Len(mined[PayerOf(k)]) /\ call[k].nonce \in Nat
          /\ call[k].seen = FirstOf(mined[PayerOf(k)], call[k].nonce)
          /\ PayerOf(k) \in Payer
      BY <2>1 DEF CallIsKept, CallRecord
    <3>2. CASE PayerOf(k) # payer
      BY <1>8, <3>1, <3>2
    <3>3. CASE PayerOf(k) = payer
      <4>1. \A i \in 1 .. call[k].nonce : longer[i] = mined[payer][i]
        BY <1>7, <3>1, <3>3
      <4>2. FirstOf(longer, call[k].nonce) = FirstOf(mined[payer], call[k].nonce)
        BY <4>1 DEF FirstOf
      <4> QED BY <1>7, <1>8, <3>1, <3>3, <4>2
    <3> QED BY <3>2, <3>3
  <2>3. CASE k = h
    <3>1. IsMined(h)'
      <4>1. /\ PayerOf(h)' = payer /\ Len(mined[payer]) + 1 \in DOMAIN mined'[payer]
            /\ mined'[payer][Len(mined[payer]) + 1] = h
        BY <1>7, <1>8, <1>11
      <4> QED BY <4>1 DEF IsMined, ToSet
    <3>2. h \notin pool'
      BY <1>3
    <3>3. call'[h].op # "none" /\ call'[h].step \in {"sent", "failed", "timed out"}
      BY <1>1, <1>11, OperationRows
    <3> QED BY <2>2, <2>3, <3>1, <3>2, <3>3 DEF CallIsKept
  <2>4. CASE k # h
    <3>1. call'[k] = call[k] /\ (k \in pool' <=> k \in pool)
      BY <1>3, <1>5, <2>4
    <3>2. ASSUME call[k].status # "none" PROVE IsMined(k)'
      <4>1. IsMined(k) /\ PayerOf(k) \in Payer
        BY <2>1, <3>2 DEF CallIsKept
      <4>2. PICK i \in DOMAIN mined[PayerOf(k)] : mined[PayerOf(k)][i] = k
        BY <4>1 DEF IsMined, ToSet
      <4>3. i \in DOMAIN mined'[PayerOf(k)] /\ mined'[PayerOf(k)][i] = k
        BY <1>7, <1>8, <4>1, <4>2
      <4> QED BY <1>11, <4>3 DEF IsMined, ToSet
    <3> QED BY <2>1, <2>2, <3>1, <3>2 DEF CallIsKept
  <2> QED BY <2>3, <2>4
<1> QED BY <1>10, <1>12, <1>13 DEF SenderCore

LEMMA OthersKeepCore ==
  ASSUME SenderCore, NEW h \in Handler, OthersMove(h)
  PROVE  SenderCore'
<1>1. UNCHANGED <<call, pool, mined>>
  BY DEF OthersMove
<1>2. world' \in [Object -> 0 .. 4]
  <2>1. Operation[call[h].op].to \in 0 .. 4 /\ world \in [Object -> 0 .. 4]
    BY CallFacts, OperationRows DEF OthersMove
  <2> QED BY <2>1 DEF OthersMove, Op
<1>3. SenderTyped'
  BY <1>1, <1>2 DEF SenderCore, SenderTyped
<1>4. MinedInOrder'
  BY <1>1 DEF SenderCore, MinedInOrder, PayerOf, Op
<1>5. CallsAreKept'
  BY <1>1 DEF SenderCore, CallsAreKept, CallIsKept, IsMined, PayerOf, Op
<1> QED BY <1>3, <1>4, <1>5 DEF SenderCore

LEMMA SenderCoreInductive == SenderCore /\ [SenderNext]_senderVars => SenderCore'
<1>1. ASSUME SenderCore, SenderNext PROVE SenderCore'
  <2>1. PICK h \in Handler : \/ \E op \in OperationName : BeginCall(h, op)
                             \/ HandlerStep(h) \/ Mine(h) \/ OthersMove(h)
    BY <1>1 DEF SenderNext
  <2> QED BY <1>1, <2>1, BeginKeepsCore, HandlerKeepsCore, MineKeepsCore, OthersKeepCore
<1>2. ASSUME SenderCore, UNCHANGED senderVars PROVE SenderCore'
  <2>1. UNCHANGED <<call, pool, mined, world>>
    BY <1>2 DEF senderVars
  <2>2. SenderTyped'
    BY <1>2, <2>1 DEF SenderCore, SenderTyped
  <2>3. MinedInOrder'
    BY <1>2, <2>1 DEF SenderCore, MinedInOrder, PayerOf, Op
  <2>4. CallsAreKept'
    BY <1>2, <2>1 DEF SenderCore, CallsAreKept, CallIsKept, IsMined, PayerOf, Op
  <2> QED BY <2>2, <2>3, <2>4 DEF SenderCore
<1> QED BY <1>1, <1>2

\* Overlapping calls of an account exclude each other, whatever is lost,
\* replaced or retried (_submit_transaction).
THEOREM SenderCallsExclude == SenderSpec => []OverlappingCallsExclude
<1>1. ASSUME SenderCore PROVE OverlappingCallsExclude
  <2> SUFFICES ASSUME NEW a \in Payer, NEW i \in DOMAIN mined[a],
                      NEW j \in DOMAIN mined[a], i < j
               PROVE  mined[a][i] \in call[mined[a][j]].seen
    BY DEF OverlappingCallsExclude
  <2>1. mined[a] \in Seq(Handler)
    BY <1>1 DEF SenderCore, SenderTyped
  <2>2. /\ mined[a] \in [1 .. Len(mined[a]) -> Handler] /\ Len(mined[a]) \in Nat
        /\ i \in 1 .. Len(mined[a]) /\ j \in 1 .. Len(mined[a])
    BY <2>1
  <2>3. PICK k \in Handler : k = mined[a][j]
    BY <2>2
  <2>4. call[k].op \in OperationName /\ PayerOf(k) = a /\ call[k].nonce = j - 1
    BY <1>1, <2>3 DEF SenderCore, MinedInOrder
  <2>5. call[k].seen = FirstOf(mined[a], j - 1)
    BY <1>1, <2>4, OperationRows DEF SenderCore, CallsAreKept, CallIsKept
  <2>6. i \in 1 .. (j - 1)
    BY <2>2
  <2> QED BY <2>3, <2>5, <2>6 DEF FirstOf
<1> QED BY <1>1, SenderInitCore, SenderCoreInductive, PTL DEF SenderSpec

\* A call that reports success had its own transaction mined and executed,
\* one that reports a revert changed nothing; and no nonce passes the number
\* of calls.
THEOREM SenderAnswersAreTrue == SenderSpec => []SenderInvariant
<1>1. ASSUME SenderCore PROVE SenderInvariant
  <2>1. AnswersAreTrue
    BY <1>1 DEF AnswersAreTrue, SenderCore, CallsAreKept, CallIsKept
  <2>2. ASSUME NEW h \in Handler PROVE call[h].nonce \in 0 .. Cardinality(Handler)
    <3>1. call[h] \in CallRecord /\ CallIsKept(h)
      BY <1>1, CallFacts
    <3>2. Cardinality(Handler) \in Nat
      BY HandlerAssumption, FS_CardinalityType
    <3>3. CASE call[h].op = "none"
      <4>1. call[h].nonce = 0
        BY <3>1, <3>3 DEF CallIsKept
      <4> QED BY <3>2, <4>1
    <3>4. CASE call[h].op # "none"
      <4>1. PayerOf(h) \in Payer /\ call[h].nonce <= Len(mined[PayerOf(h)])
        BY <1>1, <3>1, <3>4, CallFacts DEF CallIsKept
      <4> QED BY <1>1, <3>1, <3>2, <4>1, MinedOnce DEF CallRecord
    <3> QED BY <3>3, <3>4
  <2>3. SenderTypeOK
    <3>1. /\ call \in [Handler -> CallRecord] /\ pool \subseteq Handler
          /\ world \in [Object -> 0 .. 4]
      BY <1>1 DEF SenderCore, SenderTyped
    <3>2. ASSUME NEW h \in Handler
          PROVE  call[h] \in [op : OperationName \cup {"none"}, step : Step,
                              nonce : 0 .. Cardinality(Handler),
                              seen : SUBSET Handler,
                              status : {"none", "ok", "reverted"},
                              reads : 0 .. VerificationAttempts]
      BY <2>2, <3>1 DEF CallRecord
    <3> QED BY <3>1, <3>2 DEF SenderTypeOK
  <2> QED BY <2>1, <2>3 DEF SenderInvariant
<1> QED BY <1>1, SenderInitCore, SenderCoreInductive, PTL DEF SenderSpec

-----------------------------------------------------------------------------
(***************************************************************************)
(* The window of the limiter.  The table may forget a caller and a bucket  *)
(* is only cleaned when its caller calls, while the model also keeps, for  *)
(* comparison, every call of the last window: the proof shows that         *)
(* cleaning late is the same as cleaning at every tick, and that a caller  *)
(* the table forgets has nothing in its window.                            *)
(***************************************************************************)
GuardSpec == GuardInit /\ [][GuardNext]_guardVars

\* The times of a bucket: in the order of the clock that stamped them.
IsBucket(times, now) ==
  /\ times \in Seq(Nat)
  /\ \A i, j \in DOMAIN times : i <= j => times[i] <= times[j]
  /\ \A i \in DOMAIN times : times[i] <= now

\* Whatever the table dropped, a bucket holds what was admitted of the window.
BucketsAreExact ==
  \A c \in Identity :
    /\ c \in DOMAIN hits => IsBucket(hits[c], clock)
    /\ admitted[c] = Bucket(c)
    /\ Len(admitted[c]) <= Limit

WindowCore ==
  /\ clock \in 0 .. MaxTime
  /\ DOMAIN hits \subseteq Identity
  /\ admitted \in [Identity -> Seq(Nat)]
  /\ BucketsAreExact
  /\ GuardInvariant

\* Two sequences of times are equal if they have the same elements.
LEMMA SameTimes ==
  ASSUME NEW s \in Seq(Nat), NEW t \in Seq(Nat), Len(s) = Len(t),
         \A i \in 1 .. Len(s) : s[i] = t[i]
  PROVE  s = t
<1>1. /\ s \in [1 .. Len(s) -> Nat] /\ t \in [1 .. Len(t) -> Nat]
  OBVIOUS
<1> QED BY <1>1

\* The times popped are the first ones, up to the first that has not expired.
LEMMA PoppedFacts ==
  ASSUME NEW times \in Seq(Nat), NEW now \in Nat
  PROVE  /\ Popped(times, now) \in 0 .. Len(times)
         /\ \A i \in 1 .. Popped(times, now) : Expired(times[i], now)
         /\ Popped(times, now) < Len(times) =>
              ~Expired(times[Popped(times, now) + 1], now)
<1> DEFINE S == {n \in 0 .. Len(times) :
                   n < Len(times) => ~Expired(times[n + 1], now)}
           P(n) == /\ \A i \in 1 .. n : Expired(times[i], now)
                   /\ n < Len(times) => ~Expired(times[n + 1], now)
<1>1. Len(times) \in Nat
  OBVIOUS
<1>2. S \subseteq Nat /\ S # {}
  BY <1>1
<1>3. PICK n \in S : \A m \in S : n <= m
  <2> HIDE DEF S
  <2> QED BY <1>2, SomeFirst
<1>4. ASSUME NEW i \in 1 .. n
      PROVE  Expired(times[i], now)
  <2>1. n \in 0 .. Len(times)
    BY <1>3
  <2>2. i - 1 \in 0 .. Len(times) /\ ~(n <= i - 1) /\ (i - 1) + 1 = i
    BY <1>1, <2>1
  <2>3. i - 1 \notin S
    BY <1>3, <2>2
  <2> QED BY <2>2, <2>3
<1>5. n \in 0 .. Len(times) /\ P(n)
  BY <1>3, <1>4
<1>6. Popped(times, now) = CHOOSE m \in 0 .. Len(times) : P(m)
  BY DEF Popped
<1>7. Popped(times, now) \in 0 .. Len(times) /\ P(Popped(times, now))
  <2> HIDE DEF P
  <2> QED BY <1>5, <1>6
<1> QED BY <1>7

\* There is one such number.
LEMMA PoppedIs ==
  ASSUME NEW times \in Seq(Nat), NEW now \in Nat, NEW n \in 0 .. Len(times),
         \A i \in 1 .. n : Expired(times[i], now),
         n < Len(times) => ~Expired(times[n + 1], now)
  PROVE  Popped(times, now) = n
<1> DEFINE p == Popped(times, now)
<1>1. /\ p \in 0 .. Len(times)
      /\ \A i \in 1 .. p : Expired(times[i], now)
      /\ p < Len(times) => ~Expired(times[p + 1], now)
  BY PoppedFacts
<1>2. Len(times) \in Nat
  OBVIOUS
<1>3. ~(p < n)
  <2> SUFFICES ASSUME p < n PROVE FALSE
    OBVIOUS
  <2>1. p + 1 \in 1 .. n /\ p < Len(times)
    BY <1>1, <1>2
  <2> QED BY <1>1, <2>1
<1>4. ~(n < p)
  <2> SUFFICES ASSUME n < p PROVE FALSE
    OBVIOUS
  <2>1. n + 1 \in 1 .. p /\ n < Len(times)
    BY <1>1, <1>2
  <2> QED BY <1>1, <2>1
<1> HIDE DEF p
<1>5. p = n
  BY <1>1, <1>3, <1>4
<1> QED BY <1>5 DEF p

LEMMA FreshFacts ==
  ASSUME NEW times \in Seq(Nat), NEW now \in Nat
  PROVE  /\ Fresh(times, now) \in Seq(Nat)
         /\ Len(Fresh(times, now)) = Len(times) - Popped(times, now)
         /\ \A i \in 1 .. Len(times) - Popped(times, now) :
              Fresh(times, now)[i] = times[i + Popped(times, now)]
<1>1. Popped(times, now) \in 0 .. Len(times) /\ Len(times) \in Nat
  BY PoppedFacts
<1>2. PICK p \in 0 .. Len(times) : p = Popped(times, now)
  BY <1>1
<1>3. /\ SubSeq(times, p + 1, Len(times)) \in Seq(Nat)
      /\ Len(SubSeq(times, p + 1, Len(times))) = Len(times) - p
      /\ \A i \in 1 .. Len(times) - p : SubSeq(times, p + 1, Len(times))[i] = times[i + p]
  BY <1>1
<1> QED BY <1>2, <1>3 DEF Fresh

\* Nothing is popped from a bucket that starts with a time that has not expired.
LEMMA FreshStays ==
  ASSUME NEW times \in Seq(Nat), NEW now \in Nat,
         Len(times) > 0 => ~Expired(times[1], now)
  PROVE  Fresh(times, now) = times
<1>1. 0 \in 0 .. Len(times) /\ \A i \in 1 .. 0 : Expired(times[i], now)
  OBVIOUS
<1>2. Popped(times, now) = 0
  BY <1>1, PoppedIs
<1>3. PICK n \in Nat : n = Len(times)
  OBVIOUS
<1>4. Fresh(times, now) = SubSeq(times, 1, n)
  BY <1>2, <1>3 DEF Fresh
<1>5. /\ SubSeq(times, 1, n) \in Seq(Nat)
      /\ Len(SubSeq(times, 1, n)) = n
      /\ \A i \in 1 .. n : SubSeq(times, 1, n)[i] = times[i]
  BY <1>3
<1> QED BY <1>3, <1>4, <1>5, SameTimes

\* What is left of a bucket starts with a time that has not expired.
LEMMA FreshStarts ==
  ASSUME NEW times \in Seq(Nat), NEW now \in Nat
  PROVE  Len(Fresh(times, now)) > 0 => ~Expired(Fresh(times, now)[1], now)
<1>1. PICK p \in 0 .. Len(times) : p = Popped(times, now)
  BY PoppedFacts
<1>2. p < Len(times) => ~Expired(times[p + 1], now)
  BY <1>1, PoppedFacts
<1>3. /\ Len(Fresh(times, now)) = Len(times) - p
      /\ \A i \in 1 .. Len(times) - p : Fresh(times, now)[i] = times[i + p]
  BY <1>1, FreshFacts
<1>4. CASE p < Len(times)
  <2>1. Fresh(times, now)[1] = times[1 + p] /\ 1 + p = p + 1
    BY <1>3, <1>4
  <2> QED BY <1>2, <1>4, <2>1
<1>5. CASE ~(p < Len(times))
  BY <1>3, <1>5
<1> QED BY <1>4, <1>5

\* Cleaning a bucket at every tick leaves what one cleaning leaves.
LEMMA FreshAgain ==
  ASSUME NEW times \in Seq(Nat), NEW now \in Nat
  PROVE  Fresh(Fresh(times, now), now + 1) = Fresh(times, now + 1)
<1>1. PICK p \in 0 .. Len(times) : p = Popped(times, now)
  BY PoppedFacts
<1>2. PICK q \in 0 .. Len(times) : q = Popped(times, now + 1)
  BY PoppedFacts
<1>3. PICK left \in Seq(Nat) : left = Fresh(times, now)
  BY FreshFacts
<1>4. Len(times) \in Nat /\ Len(left) = Len(times) - p /\ now + 1 \in Nat
  BY <1>1, <1>3, FreshFacts
<1>5. \A i \in 1 .. Len(left) : left[i] = times[i + p]
  <2>1. \A i \in 1 .. Len(times) - p : Fresh(times, now)[i] = times[i + p]
    BY <1>1, FreshFacts
  <2> QED BY <1>3, <1>4, <2>1
<1>6. \A i \in 1 .. q : Expired(times[i], now + 1)
  BY <1>2, <1>4, PoppedFacts
<1>7. q < Len(times) => ~Expired(times[q + 1], now + 1)
  BY <1>2, <1>4, PoppedFacts
<1>8. p <= q
  <2> SUFFICES ASSUME q < p PROVE FALSE
    OBVIOUS
  <2>1. q + 1 \in 1 .. p /\ q < Len(times) /\ q + 1 \in 1 .. Len(times)
    BY <1>4
  <2>2. Expired(times[q + 1], now)
    BY <1>1, <2>1, PoppedFacts
  <2>3. times[q + 1] \in Nat
    BY <2>1
  <2>4. Expired(times[q + 1], now + 1)
    BY <2>2, <2>3, GuardAssumption DEF Expired
  <2> QED BY <1>7, <2>1, <2>4
<1>9. PICK n \in 0 .. Len(left) : n = q - p
  BY <1>4, <1>8
<1>10. Popped(left, now + 1) = n
  <2>1. \A i \in 1 .. n : Expired(left[i], now + 1)
    <3> SUFFICES ASSUME NEW i \in 1 .. n PROVE Expired(left[i], now + 1)
      OBVIOUS
    <3>1. i + p \in 1 .. q /\ i \in 1 .. Len(left)
      BY <1>4, <1>9
    <3> QED BY <1>5, <1>6, <3>1
  <2>2. n < Len(left) => ~Expired(left[n + 1], now + 1)
    <3> SUFFICES ASSUME n < Len(left) PROVE ~Expired(left[n + 1], now + 1)
      OBVIOUS
    <3>1. n + 1 \in 1 .. Len(left) /\ (n + 1) + p = q + 1 /\ q < Len(times)
      BY <1>4, <1>9
    <3>2. left[n + 1] = times[(n + 1) + p]
      BY <1>5, <3>1
    <3> QED BY <1>7, <3>1, <3>2
  <2> QED BY <2>1, <2>2, PoppedIs
<1>11. /\ Fresh(left, now + 1) \in Seq(Nat)
       /\ Len(Fresh(left, now + 1)) = Len(left) - n
       /\ \A i \in 1 .. Len(left) - n : Fresh(left, now + 1)[i] = left[i + n]
  BY <1>4, <1>10, FreshFacts
<1>12. /\ Fresh(times, now + 1) \in Seq(Nat)
       /\ Len(Fresh(times, now + 1)) = Len(times) - q
       /\ \A i \in 1 .. Len(times) - q : Fresh(times, now + 1)[i] = times[i + q]
  BY <1>2, <1>4, FreshFacts
<1>13. Len(left) - n = Len(times) - q
  BY <1>4, <1>9
<1>14. ASSUME NEW i \in 1 .. Len(times) - q
       PROVE  Fresh(left, now + 1)[i] = Fresh(times, now + 1)[i]
  <2>1. i + n \in 1 .. Len(left) /\ (i + n) + p = i + q
    BY <1>4, <1>9
  <2>2. left[i + n] = times[(i + n) + p]
    BY <1>5, <2>1
  <2> QED BY <1>11, <1>12, <1>13, <2>1, <2>2
<1>15. Fresh(left, now + 1) = Fresh(times, now + 1)
  BY <1>11, <1>12, <1>13, <1>14, SameTimes
<1> QED BY <1>3, <1>15

\* Cleaning a bucket keeps its times in order, and so does adding the clock.
LEMMA BucketFacts ==
  ASSUME NEW times, IsBucket(times, clock), clock \in Nat
  PROVE  /\ times \in Seq(Nat) /\ IsBucket(Fresh(times, clock), clock)
         /\ IsBucket(Append(Fresh(times, clock), clock), clock)
<1>1. times \in Seq(Nat) /\ Len(times) \in Nat /\ DOMAIN times = 1 .. Len(times)
  BY DEF IsBucket
<1>2. PICK p \in 0 .. Len(times) : p = Popped(times, clock)
  BY <1>1, PoppedFacts
<1>3. PICK left \in Seq(Nat) : left = Fresh(times, clock)
  BY <1>1, FreshFacts
<1>4. /\ Len(left) = Len(times) - p /\ Len(left) \in Nat
      /\ DOMAIN left = 1 .. Len(left)
  BY <1>1, <1>2, <1>3, FreshFacts
<1>5. \A i \in 1 .. Len(times) - p : left[i] = times[i + p]
  BY <1>1, <1>2, <1>3, FreshFacts
<1>6. ASSUME NEW i \in DOMAIN left
      PROVE  left[i] = times[i + p] /\ i + p \in DOMAIN times
  <2>1. i \in 1 .. Len(times) - p
    BY <1>4, <1>6
  <2>2. i + p \in 1 .. Len(times)
    BY <1>1, <1>2, <2>1
  <2> QED BY <1>1, <1>5, <2>1, <2>2
<1>7. \A i \in DOMAIN left : left[i] <= clock
  BY <1>6 DEF IsBucket
<1>8. \A i, j \in DOMAIN left : i <= j => left[i] <= left[j]
  <2> SUFFICES ASSUME NEW i \in DOMAIN left, NEW j \in DOMAIN left, i <= j
               PROVE  left[i] <= left[j]
    OBVIOUS
  <2>1. i + p <= j + p
    BY <1>1, <1>4
  <2>2. times[i + p] <= times[j + p]
    BY <1>6, <2>1 DEF IsBucket
  <2> QED BY <1>6, <2>2
<1>9. IsBucket(left, clock)
  BY <1>7, <1>8 DEF IsBucket
<1>10. PICK more \in Seq(Nat) : more = Append(left, clock)
  BY ElementsOfLonger
<1>11. /\ Len(more) = Len(left) + 1 /\ DOMAIN more = 1 .. Len(left) + 1
       /\ \A i \in 1 .. Len(left) : more[i] = left[i]
       /\ more[Len(left) + 1] = clock
  BY <1>10, ElementsOfLonger
<1>12. ASSUME NEW i \in DOMAIN more
       PROVE  \/ i \in DOMAIN left /\ more[i] = left[i]
              \/ i = Len(left) + 1 /\ more[i] = clock
  <2>1. i \in 1 .. Len(left) + 1
    BY <1>11
  <2>2. i \in 1 .. Len(left) \/ i = Len(left) + 1
    BY <1>4, <2>1
  <2> QED BY <1>4, <1>11, <2>2
<1>13. \A i, j \in DOMAIN more : i <= j => more[i] <= more[j]
  <2> SUFFICES ASSUME NEW i \in DOMAIN more, NEW j \in DOMAIN more, i <= j
               PROVE  more[i] <= more[j]
    OBVIOUS
  <2>1. CASE j \in DOMAIN left
    <3>1. i # Len(left) + 1
      BY <1>4, <2>1
    <3>2. i \in DOMAIN left /\ more[i] = left[i] /\ more[j] = left[j]
      BY <1>4, <1>12, <2>1, <3>1
    <3> QED BY <1>8, <2>1, <3>2
  <2>2. CASE j = Len(left) + 1 /\ more[j] = clock
    BY <1>7, <1>12, <2>2
  <2> QED BY <1>12, <2>1, <2>2
<1>14. IsBucket(more, clock)
  <2>1. \A i \in DOMAIN more : more[i] <= clock
    BY <1>7, <1>12
  <2> QED BY <1>13, <2>1 DEF IsBucket
<1> QED BY <1>1, <1>3, <1>9, <1>10, <1>14

\* Nothing is left of a bucket whose last time has expired.
LEMMA StaleIsEmpty ==
  ASSUME NEW times, IsBucket(times, clock), clock \in Nat,
         times = <<>> \/ Expired(Last(times), clock)
  PROVE  Fresh(times, clock) = <<>>
<1>1. times \in Seq(Nat) /\ Len(times) \in Nat /\ DOMAIN times = 1 .. Len(times)
  BY DEF IsBucket
<1>2. \A i \in 1 .. Len(times) : Expired(times[i], clock)
  <2> SUFFICES ASSUME NEW i \in 1 .. Len(times) PROVE Expired(times[i], clock)
    OBVIOUS
  <2>1. Len(times) \in DOMAIN times /\ i \in DOMAIN times /\ i <= Len(times)
    BY <1>1
  <2>2. times[i] <= times[Len(times)]
    BY <2>1 DEF IsBucket
  <2>3. times # <<>> /\ Last(times) = times[Len(times)]
    BY <2>1 DEF Last
  <2>4. times[Len(times)] + Window <= clock
    BY <2>3 DEF Expired
  <2>5. times[i] \in Nat /\ times[Len(times)] \in Nat
    BY <1>1, <2>1
  <2> QED BY <2>2, <2>4, <2>5, GuardAssumption DEF Expired
<1>3. PICK n \in Nat : n = Len(times)
  BY <1>1
<1>4. Popped(times, clock) = n
  <2>1. \A i \in 1 .. n : Expired(times[i], clock)
    BY <1>2, <1>3
  <2>2. n < Len(times) => ~Expired(times[n + 1], clock)
    BY <1>1, <1>3
  <2>3. n \in 0 .. Len(times)
    BY <1>3
  <2> QED BY <1>1, <2>1, <2>2, <2>3, PoppedIs
<1>5. Fresh(times, clock) \in Seq(Nat) /\ Len(Fresh(times, clock)) = 0
  BY <1>1, <1>3, <1>4, FreshFacts
<1> QED BY <1>5

\* The guard of one call, when it is not refused, finds and leaves exact buckets.
LEMMA CheckKeepsWindows ==
  ASSUME WindowCore, NEW caller \in Identity, NEW key, Check(caller, key),
         clock' = clock, caller[2] = "key" <=> key # NoKey
  PROVE  /\ DOMAIN hits' \subseteq Identity /\ admitted' \in [Identity -> Seq(Nat)]
         /\ BucketsAreExact' /\ WindowIsExact'
         /\ answer'.status \in {"admitted", "limited"}
<1>0. /\ clock \in Nat /\ Limit \in Nat /\ Window \in Nat \ {0}
      /\ DOMAIN hits \subseteq Identity
      /\ admitted \in [Identity -> Seq(Nat)]
  BY GuardAssumption DEF WindowCore
<1>1. ASSUME NEW c \in Identity
      PROVE  /\ c \in DOMAIN hits => IsBucket(hits[c], clock)
             /\ admitted[c] = Bucket(c) /\ Len(admitted[c]) <= Limit
             /\ admitted[c] \in Seq(Nat) /\ Len(admitted[c]) \in Nat
  BY <1>0 DEF WindowCore, BucketsAreExact
<1>2. CASE Limit = 0
  <2>1. hits' = hits /\ admitted' = admitted /\ answer'.status = "admitted"
    BY <1>2 DEF Check
  <2>2. BucketsAreExact'
    BY <1>1, <2>1 DEF BucketsAreExact, IsBucket, Bucket, Fresh, Popped, Expired
  <2>3. WindowIsExact'
    BY <1>2 DEF WindowIsExact
  <2> QED BY <1>0, <2>1, <2>2, <2>3
<1>3. CASE Limit # 0
  <2> DEFINE bucket == IF HasRoom(caller) THEN Append(Bucket(caller), clock)
                       ELSE Bucket(caller)
  <2>1. /\ hits' = [other \in Kept(caller) |->
                      IF other = caller THEN bucket ELSE hits[other]]
        /\ admitted' = IF HasRoom(caller)
                       THEN [admitted EXCEPT ![caller] = Append(@, clock)] ELSE admitted
        /\ answer'.status = IF HasRoom(caller) THEN "admitted" ELSE "limited"
        /\ answer'.key = key
    BY <1>3 DEF Check
  <2>2. /\ caller \in Kept(caller) /\ Kept(caller) \subseteq DOMAIN hits \cup {caller}
        /\ \A c \in DOMAIN hits \ Kept(caller) : Stale(c)
    BY DEF Kept
  <2>3. DOMAIN hits' = Kept(caller) /\ hits'[caller] = bucket
    BY <2>1, <2>2
  <2>4. IsBucket(Bucket(caller), clock) /\ IsBucket(Append(Bucket(caller), clock), clock)
    <3>1. CASE caller \in DOMAIN hits
      BY <1>0, <1>1, <3>1, BucketFacts DEF Bucket
    <3>2. CASE caller \notin DOMAIN hits
      <4>1. /\ <<>> \in Seq(Nat) /\ Append(<<>>, clock) = <<clock>>
            /\ DOMAIN <<clock>> = 1 .. 1 /\ <<clock>>[1] = clock /\ <<clock>> \in Seq(Nat)
        BY <1>0
      <4>2. IsBucket(<<>>, clock)
        BY <4>1 DEF IsBucket
      <4>3. IsBucket(<<clock>>, clock)
        BY <1>0, <4>1 DEF IsBucket
      <4> QED BY <3>2, <4>1, <4>2, <4>3 DEF Bucket
    <3> QED BY <3>1, <3>2
  <2>5. IsBucket(bucket, clock)
    BY <2>4
  <2>6. Len(Bucket(caller)) > 0 => ~Expired(Bucket(caller)[1], clock)
    <3>1. CASE caller \in DOMAIN hits
      <4>1. hits[caller] \in Seq(Nat)
        BY <1>1, <3>1 DEF IsBucket
      <4> QED BY <1>0, <3>1, <4>1, FreshStarts DEF Bucket
    <3>2. CASE caller \notin DOMAIN hits
      BY <3>2 DEF Bucket
    <3> QED BY <3>1, <3>2
  <2>7. Fresh(bucket, clock) = bucket
    <3>1. bucket \in Seq(Nat) /\ Bucket(caller) \in Seq(Nat)
      BY <2>4, <2>5 DEF IsBucket
    <3>2. Len(bucket) > 0 => ~Expired(bucket[1], clock)
      <4>1. CASE ~HasRoom(caller)
        BY <2>6, <4>1
      <4>2. CASE HasRoom(caller)
        <5>1. ~Expired(clock, clock)
          BY <1>0 DEF Expired
        <5>2. PICK times \in Seq(Nat) : times = Bucket(caller)
          BY <3>1
        <5>3. CASE Len(times) = 0
          <6>1. Append(times, clock)[1] = clock
            BY <1>0, <5>3, ElementsOfLonger
          <6> QED BY <4>2, <5>1, <5>2, <6>1
        <5>4. CASE Len(times) # 0
          <6>1. Len(times) > 0 /\ 1 \in 1 .. Len(times)
            BY <5>4
          <6>2. Append(times, clock)[1] = times[1]
            BY <1>0, <6>1, ElementsOfLonger
          <6> QED BY <2>6, <4>2, <5>2, <6>1, <6>2
        <5> QED BY <5>3, <5>4
      <4> QED BY <4>1, <4>2
    <3> HIDE DEF bucket
    <3> QED BY <1>0, <3>1, <3>2, FreshStays
  <2>8. ASSUME NEW c \in Identity
        PROVE  /\ c \in DOMAIN hits' => IsBucket(hits'[c], clock)
               /\ admitted'[c] = IF c \in DOMAIN hits' THEN Fresh(hits'[c], clock) ELSE <<>>
               /\ Len(admitted'[c]) <= Limit
               /\ admitted'[c] \in Seq(Nat)
    <3>1. CASE c = caller
      <4>1. admitted'[c] = bucket
        BY <1>0, <1>1, <2>1, <3>1
      <4>2. Len(bucket) <= Limit
        <5>1. CASE ~HasRoom(caller)
          BY <1>1, <5>1
        <5>2. CASE HasRoom(caller)
          <6>1. Bucket(caller) \in Seq(Nat) /\ Len(Bucket(caller)) < Limit
            BY <2>4, <5>2 DEF IsBucket, HasRoom
          <6>2. Len(Append(Bucket(caller), clock)) = Len(Bucket(caller)) + 1
            BY <1>0, <6>1, ElementsOfLonger
          <6> QED BY <1>0, <5>2, <6>1, <6>2
        <5> QED BY <5>1, <5>2
      <4>3. bucket \in Seq(Nat)
        BY <2>5 DEF IsBucket
      <4> HIDE DEF bucket
      <4> QED BY <2>2, <2>3, <2>5, <2>7, <3>1, <4>1, <4>2, <4>3
    <3>2. CASE c # caller
      <4>1. admitted'[c] = admitted[c]
        BY <1>0, <2>1, <3>2
      <4>2. CASE c \in Kept(caller)
        <5>1. c \in DOMAIN hits /\ c \in DOMAIN hits' /\ hits'[c] = hits[c]
          BY <2>1, <2>2, <3>2, <4>2
        <5> QED BY <1>1, <4>1, <5>1 DEF Bucket
      <4>3. CASE c \notin Kept(caller)
        <5>1. c \notin DOMAIN hits'
          BY <2>3, <4>3
        <5>2. Bucket(c) = <<>>
          <6>1. CASE c \in DOMAIN hits
            <7>1. Stale(c) /\ IsBucket(hits[c], clock)
              BY <1>1, <2>2, <4>3, <6>1
            <7> QED BY <1>0, <6>1, <7>1, StaleIsEmpty DEF Stale, Bucket
          <6>2. CASE c \notin DOMAIN hits
            BY <6>2 DEF Bucket
          <6> QED BY <6>1, <6>2
        <5> QED BY <1>1, <4>1, <5>1, <5>2
      <4> QED BY <4>2, <4>3
    <3> QED BY <3>1, <3>2
  <2>9. BucketsAreExact'
    BY <2>8 DEF BucketsAreExact, IsBucket, Bucket, Fresh, Popped, Expired
  <2>10. admitted' \in [Identity -> Seq(Nat)]
    <3>1. DOMAIN admitted' = Identity /\ admitted' = [c \in Identity |-> admitted'[c]]
      BY <1>0, <2>1
    <3> QED BY <2>8, <3>1
  <2>11. WindowIsExact'
    <3>1. CASE HasRoom(caller)
      <4>1. answer'.status = "admitted"
        BY <2>1, <3>1
      <4> QED BY <2>8, <4>1 DEF WindowIsExact
    <3>2. CASE ~HasRoom(caller)
      <4>1. admitted' = admitted
        BY <2>1, <3>2
      <4>2. Len(admitted[caller]) = Limit
        BY <1>0, <1>1, <3>2 DEF HasRoom
      <4> QED BY <2>1, <2>8, <4>1, <4>2 DEF WindowIsExact
    <3> QED BY <3>1, <3>2
  <2>12. DOMAIN hits' \subseteq Identity
    BY <1>0, <2>2, <2>3
  <2>13. answer'.status \in {"admitted", "limited"}
    BY <2>1
  <2> QED BY <2>9, <2>10, <2>11, <2>12, <2>13
<1> QED BY <1>2, <1>3

\* Every step keeps the buckets exact.
LEMMA WindowCoreInductive == WindowCore /\ [GuardNext]_guardVars => WindowCore'
<1> SUFFICES ASSUME WindowCore, [GuardNext]_guardVars PROVE WindowCore'
  OBVIOUS
<1>0. /\ clock \in Nat /\ clock \in 0 .. MaxTime /\ Limit \in Nat /\ MaxTime \in Nat
      /\ DOMAIN hits \subseteq Identity /\ admitted \in [Identity -> Seq(Nat)]
      /\ GuardTypeOK /\ WindowIsExact
  BY GuardAssumption DEF WindowCore, GuardInvariant
<1>1. CASE Call
  <2>1. config' = config /\ running' = running /\ clock' = clock
    BY <1>1 DEF Call
  <2>2. PICK key \in Presentable \cup {NoKey}, host \in Host :
          IF Refusal(key) # "none"
          THEN /\ answer' = [status |-> Refusal(key), key |-> key]
               /\ UNCHANGED <<hits, admitted>>
          ELSE Check(CallerOf(key, host), key)
    BY <1>1 DEF Call
  <2>3. CASE Refusal(key) # "none"
    <3>1. hits' = hits /\ admitted' = admitted
          /\ answer'.status \in {"unauthorized", "forbidden"}
      BY <2>2, <2>3 DEF Refusal
    <3>2. BucketsAreExact'
      BY <2>1, <3>1 DEF WindowCore, BucketsAreExact, IsBucket, Bucket, Fresh, Popped, Expired
    <3>3. GuardTypeOK' /\ WindowIsExact'
      BY <1>0, <2>1, <3>1 DEF GuardTypeOK, WindowIsExact
    <3> QED BY <1>0, <2>1, <3>1, <3>2, <3>3 DEF WindowCore, GuardInvariant
  <2>4. CASE Refusal(key) = "none"
    <3>1. CallerOf(key, host) \in Identity /\ (CallerOf(key, host)[2] = "key" <=> key # NoKey)
      BY DEF CallerOf, Identity
    <3>2. /\ DOMAIN hits' \subseteq Identity /\ admitted' \in [Identity -> Seq(Nat)]
          /\ BucketsAreExact' /\ WindowIsExact'
          /\ answer'.status \in {"admitted", "limited"}
      BY <2>1, <2>2, <2>4, <3>1, CheckKeepsWindows
    <3>3. GuardTypeOK'
      BY <1>0, <2>1, <3>2 DEF GuardTypeOK
    <3> QED BY <1>0, <2>1, <3>2, <3>3 DEF WindowCore, GuardInvariant
  <2> QED BY <2>3, <2>4
<1>2. CASE Tick
  <2>1. /\ clock' = clock + 1 /\ clock < MaxTime /\ hits' = hits
        /\ config' = config /\ running' = running
        /\ admitted' = [c \in Identity |-> Fresh(admitted[c], clock + 1)]
        /\ answer'.status = "none"
    BY <1>2 DEF Tick
  <2>2. clock + 1 \in 0 .. MaxTime /\ clock + 1 \in Nat
    BY <1>0, <2>1
  <2>3. ASSUME NEW c \in Identity
        PROVE  /\ c \in DOMAIN hits' => IsBucket(hits'[c], clock + 1)
               /\ admitted'[c] = IF c \in DOMAIN hits' THEN Fresh(hits'[c], clock + 1) ELSE <<>>
               /\ Len(admitted'[c]) <= Limit
               /\ admitted'[c] \in Seq(Nat)
    <3>1. /\ c \in DOMAIN hits => IsBucket(hits[c], clock)
          /\ admitted[c] = Bucket(c) /\ Len(admitted[c]) <= Limit
          /\ admitted[c] \in Seq(Nat) /\ Len(admitted[c]) \in Nat
      BY <1>0 DEF WindowCore, BucketsAreExact
    <3>2. admitted'[c] = Fresh(admitted[c], clock + 1)
      BY <2>1
    <3>3. admitted'[c] \in Seq(Nat)
      BY <2>2, <3>1, <3>2, FreshFacts
    <3>4. Len(admitted'[c]) <= Limit
      <4>1. /\ Len(Fresh(admitted[c], clock + 1)) =
                 Len(admitted[c]) - Popped(admitted[c], clock + 1)
            /\ Popped(admitted[c], clock + 1) \in 0 .. Len(admitted[c])
        BY <2>2, <3>1, FreshFacts, PoppedFacts
      <4> QED BY <1>0, <3>1, <3>2, <4>1
    <3>5. CASE c \in DOMAIN hits
      <4>1. hits[c] \in Seq(Nat) /\ IsBucket(hits[c], clock)
        BY <3>1, <3>5 DEF IsBucket
      <4>2. admitted[c] = Fresh(hits[c], clock)
        BY <3>1, <3>5 DEF Bucket
      <4>3. admitted'[c] = Fresh(hits[c], clock + 1)
        BY <1>0, <3>2, <4>1, <4>2, FreshAgain
      <4>4. \A i \in DOMAIN hits[c] : hits[c][i] <= clock + 1
        <5> SUFFICES ASSUME NEW i \in DOMAIN hits[c] PROVE hits[c][i] <= clock + 1
          OBVIOUS
        <5>1. hits[c][i] \in Nat /\ hits[c][i] <= clock
          BY <4>1 DEF IsBucket
        <5> QED BY <1>0, <5>1
      <4>5. IsBucket(hits'[c], clock + 1)
        BY <2>1, <4>1, <4>4 DEF IsBucket
      <4> QED BY <2>1, <3>3, <3>4, <3>5, <4>3, <4>5
    <3>6. CASE c \notin DOMAIN hits
      <4>1. admitted[c] = <<>>
        BY <3>1, <3>6 DEF Bucket
      <4>2. <<>> \in Seq(Nat) /\ Len(<<>>) = 0
        OBVIOUS
      <4>3. Fresh(<<>>, clock + 1) = <<>>
        <5>1. PICK none \in Seq(Nat) : none = <<>> /\ Len(none) = 0
          BY <4>2
        <5>2. Len(none) > 0 => ~Expired(none[1], clock + 1)
          BY <5>1
        <5> QED BY <2>2, <5>1, <5>2, FreshStays
      <4> QED BY <2>1, <3>2, <3>3, <3>4, <3>6, <4>1, <4>3
    <3> QED BY <3>5, <3>6
  <2>4. BucketsAreExact'
    <3> SUFFICES ASSUME NEW c \in Identity
                 PROVE  (/\ c \in DOMAIN hits => IsBucket(hits[c], clock)
                         /\ admitted[c] = Bucket(c)
                         /\ Len(admitted[c]) <= Limit)'
      BY DEF BucketsAreExact
    <3>1. c \in DOMAIN hits' => IsBucket(hits'[c], clock')
      BY <2>1, <2>3
    <3>2. admitted'[c] = IF c \in DOMAIN hits' THEN Fresh(hits'[c], clock') ELSE <<>>
      BY <2>1, <2>3
    <3>3. Bucket(c)' = IF c \in DOMAIN hits' THEN Fresh(hits'[c], clock') ELSE <<>>
      BY DEF Bucket, Fresh, Popped, Expired
    <3> QED BY <2>3, <3>1, <3>2, <3>3 DEF IsBucket
  <2>5. admitted' \in [Identity -> Seq(Nat)]
    <3>1. admitted' = [c \in Identity |-> admitted'[c]]
      BY <2>1
    <3> QED BY <2>3, <3>1
  <2>6. WindowIsExact'
    BY <2>1, <2>3 DEF WindowIsExact
  <2>7. GuardTypeOK'
    BY <1>0, <2>1, <2>2 DEF GuardTypeOK
  <2> QED BY <1>0, <2>1, <2>2, <2>4, <2>5, <2>6, <2>7 DEF WindowCore, GuardInvariant
<1>3. CASE UNCHANGED guardVars
  BY <1>3 DEF guardVars, WindowCore, BucketsAreExact, IsBucket, Bucket, Fresh, Popped,
     Expired, GuardInvariant, GuardTypeOK, WindowIsExact
<1> QED BY <1>1, <1>2, <1>3 DEF GuardNext

\* No caller has more than Limit calls admitted in any trailing window, and one
\* that is turned away has used all of them, whatever the table forgot
\* (_SlidingWindowRateLimiter.check of security.py).
THEOREM LimiterIsExact == GuardSpec => []GuardInvariant
<1>1. GuardInit => WindowCore
  <2> SUFFICES ASSUME GuardInit PROVE WindowCore
    OBVIOUS
  <2>0. Limit \in Nat /\ MaxTime \in Nat
    BY GuardAssumption
  <2>1. /\ clock = 0 /\ DOMAIN hits = {} /\ admitted = [c \in Identity |-> <<>>]
        /\ answer.status = "none" /\ config \in Environments /\ running = MayStart(config)
    BY DEF GuardInit
  <2>2. clock \in 0 .. MaxTime /\ admitted \in [Identity -> Seq(Nat)]
    BY <2>0, <2>1
  <2>3. \A c \in Identity : admitted[c] = <<>> /\ Len(admitted[c]) = 0 /\ c \notin DOMAIN hits
    BY <2>1
  <2>4. BucketsAreExact
    BY <2>0, <2>3 DEF BucketsAreExact, Bucket
  <2>5. WindowIsExact
    BY <2>0, <2>1, <2>3 DEF WindowIsExact
  <2>6. running \in BOOLEAN
    BY <2>1 DEF MayStart
  <2>7. GuardTypeOK
    BY <2>1, <2>2, <2>6 DEF GuardTypeOK
  <2> QED BY <2>1, <2>2, <2>4, <2>5, <2>7 DEF WindowCore, GuardInvariant
<1>2. WindowCore => GuardInvariant
  BY DEF WindowCore
<1> QED BY <1>1, <1>2, WindowCoreInductive, PTL DEF GuardSpec

-----------------------------------------------------------------------------
(***************************************************************************)
(* The record store.  An import may write an old file over a row only      *)
(* because the row was absent when it looked, so the proof is about what   *)
(* the other processes can have done since: a process that serves has all  *)
(* the files behind it, so there is none while a file is still missing,    *)
(* and a process that starts meanwhile is an overlap.                      *)
(***************************************************************************)
StoreSpec == StoreInit /\ [][StoreNext]_storeVars

\* Where a process can be.  Only the import of a start finds a file missing.
Places ==
  {Down, Serving, At("catalogue", 0, "catalogue")}
    \cup (IF kind = "json" THEN {At("write", id, "none") : id \in Audit}
          ELSE {At("check", a, then) : a \in LegacyAudits, then \in {"catalogue", "serving"}}
                 \cup {At("upsert", a, "catalogue") : a \in LegacyAudits})

\* The import of the start is behind a process at this place.
HasStarted(place) == place.step \in {"serving", "write"} \/ place.then = "serving"

\* The files that the import has gone through.
ImportedBefore(place) ==
  IF HasStarted(place) \/ place.step = "catalogue" THEN LegacyAudits
  ELSE {a \in LegacyAudits : place.step \in {"check", "upsert"} /\ a < place.id}

PlacesAreKept == pc \in [Process -> Places]

RowsAreKnown == \A id \in Id : acked[id] <= version /\ rows[id] <= version

FilesAreImported ==
  kind # "json" => \A p \in Process : \A a \in ImportedBefore(pc[p]) : rows[a] # Absent

\* Unless two starts overlapped, a process about to write a file is the only
\* one that is up, and the row is still absent.
UpsertIsAlone ==
  \A p \in Process :
    pc[p].step = "upsert" /\ ~overlapped =>
      /\ rows[pc[p].id] = Absent
      /\ \A q \in Process \ {p} : pc[q] = Down

CatalogueFirst ==
  \/ \A r \in LegacyRequests : rows[r] # Absent
  \/ /\ \A r \in LegacyRequests : rows[r] # Legacy
     /\ \A p \in Process : ~HasStarted(pc[p])

StoreCore ==
  /\ StoreTypeOK /\ PlacesAreKept /\ RowsAreKnown
  /\ FilesAreImported /\ UpsertIsAlone /\ CatalogueFirst
  /\ AcknowledgedIsKept

LEMMA PlaceFacts ==
  ASSUME NEW place \in Places
  PROVE  /\ place.step \in {"down", "serving", "catalogue", "check", "upsert", "write"}
         /\ place.step = "down" => place = Down
         /\ place.step = "serving" => place = Serving
         /\ place.step = "catalogue" => place = At("catalogue", 0, "catalogue")
         /\ place.step = "write" => kind = "json" /\ place.id \in Audit
                                    /\ place = At("write", place.id, "none")
         /\ place.step \in {"check", "upsert"} =>
              /\ kind # "json" /\ place.id \in LegacyAudits
              /\ place.then \in {"catalogue", "serving"}
         /\ place.step = "upsert" => place.then = "catalogue"
BY DEF Places, At, Down, Serving

\* Rows are numbers, and Torn is below them all.
LEMMA RowFacts ==
  ASSUME StoreTypeOK, NEW id \in Id
  PROVE  /\ rows[id] \in {Torn} \cup 0 .. MaxVersion
         /\ acked[id] \in 0 .. MaxVersion
         /\ rows[id] \in Int /\ acked[id] \in Nat /\ version \in Nat
BY StoreAssumption DEF StoreTypeOK, Torn

LEMMA StoreInitCore == StoreInit => StoreCore
<1> SUFFICES ASSUME StoreInit PROVE StoreCore
  OBVIOUS
<1>1. StoreTypeOK
  <2>1. 0 \in 0 .. MaxVersion /\ 1 \in 0 .. MaxVersion /\ 1 \in 1 .. MaxVersion
        /\ 0 \in 0 .. MaxCrashes
    BY StoreAssumption
  <2>2. rows \in [Id -> {Torn} \cup 0 .. MaxVersion]
    BY <2>1 DEF StoreInit, Legacy, Absent
  <2>3. acked \in [Id -> 0 .. MaxVersion]
    BY <2>1 DEF StoreInit, Absent
  <2> QED BY <2>1, <2>2, <2>3 DEF StoreInit, StoreTypeOK, Legacy
<1>2. PlacesAreKept
  BY DEF StoreInit, PlacesAreKept, Places
<1>3. RowsAreKnown
  BY DEF StoreInit, RowsAreKnown, Id, Legacy, Absent
<1>4. \A p \in Process : pc[p] = Down /\ ~HasStarted(pc[p]) /\ ImportedBefore(pc[p]) = {}
  BY DEF StoreInit, HasStarted, ImportedBefore, Down, At
<1>5. FilesAreImported /\ UpsertIsAlone
  BY <1>4 DEF FilesAreImported, UpsertIsAlone, Down, At
<1>6. CatalogueFirst
  <2>1. \A r \in LegacyRequests : r \in Id /\ r \notin LegacyAudits
    BY StoreAssumption DEF Id
  <2>2. \A r \in LegacyRequests : rows[r] = Absent
    BY <2>1 DEF StoreInit
  <2> QED BY <1>4, <2>2 DEF CatalogueFirst, Legacy, Absent
<1>7. AcknowledgedIsKept
  BY DEF StoreInit, AcknowledgedIsKept, Legacy, Absent
<1> QED BY <1>1, <1>2, <1>3, <1>5, <1>6, <1>7 DEF StoreCore

\* What a step of a process has to respect.
LEMMA StepKeepsStore ==
  ASSUME StoreCore, NEW p \in Process, NEW place \in Places, Goto(p, place),
         kind' = kind, NoteOverlaps,
         rows' \in [Id -> {Torn} \cup 0 .. MaxVersion],
         acked' \in [Id -> 0 .. MaxVersion],
         version' \in 1 .. MaxVersion, crashes' \in 0 .. MaxCrashes,
         \A id \in Id : acked'[id] <= version' /\ rows'[id] <= version',
         \A id \in Id : rows[id] # Absent => rows'[id] # Absent,
         kind # "json" => \A a \in ImportedBefore(place) : rows'[a] # Absent,
         pc[p] # Down \/ place.then = "catalogue",
         place.step = "upsert" /\ ~overlapped' =>
           /\ rows'[place.id] = Absent
           /\ \A q \in Process \ {p} : pc[q] = Down,
         HasStarted(place) => \A r \in LegacyRequests : rows'[r] # Absent,
         (\A r \in LegacyRequests : rows'[r] = Legacy => rows[r] = Legacy)
           \/ (\A r \in LegacyRequests : rows'[r] # Absent),
         \A id \in Id : \/ rows'[id] = rows[id] /\ acked'[id] = acked[id]
                        \/ rows'[id] >= acked'[id]
                        \/ kind = "json" /\ id \in Audit /\ rows'[id] = Torn
                        \/ /\ kind # "json" /\ overlapped
                           /\ id \in LegacyAudits /\ rows'[id] = Legacy
  PROVE  StoreCore'
<1>1. pc \in [Process -> Places]
  BY DEF StoreCore, PlacesAreKept
<1>2. /\ pc'[p] = place /\ \A q \in Process \ {p} : pc'[q] = pc[q]
      /\ pc' \in [Process -> Places] /\ Places' = Places
  BY <1>1 DEF Goto, Places
<1>3. overlapped \in BOOLEAN /\ overlapped' \in BOOLEAN /\ mixed' \subseteq Audit
  BY DEF StoreCore, StoreTypeOK, StartsOverlap, NoteOverlaps
<1>4. StoreTypeOK'
  BY <1>3 DEF StoreCore, StoreTypeOK
<1>5. PlacesAreKept' /\ RowsAreKnown'
  BY <1>2 DEF PlacesAreKept, RowsAreKnown
<1>6. FilesAreImported'
  <2> SUFFICES ASSUME kind # "json", NEW q \in Process, NEW a \in ImportedBefore(pc'[q])
               PROVE  rows'[a] # Absent
    BY DEF FilesAreImported, ImportedBefore, HasStarted
  <2>1. CASE q = p
    BY <1>2, <2>1
  <2>2. CASE q # p
    <3>1. a \in ImportedBefore(pc[q]) /\ a \in Id
      BY <1>2, <2>2, StoreAssumption DEF ImportedBefore, Id
    <3>2. rows[a] # Absent
      BY <3>1 DEF StoreCore, FilesAreImported
    <3> QED BY <3>1, <3>2
  <2> QED BY <2>1, <2>2
<1>7. UpsertIsAlone'
  <2> SUFFICES ASSUME NEW q \in Process, pc'[q].step = "upsert", ~overlapped'
               PROVE  /\ rows'[pc'[q].id] = Absent
                      /\ \A k \in Process \ {q} : pc'[k] = Down
    BY DEF UpsertIsAlone
  <2>1. CASE q = p
    BY <1>2, <2>1
  <2>2. CASE q # p
    <3>1. pc[q].step = "upsert" /\ ~overlapped /\ pc[q].then = "catalogue"
      BY <1>1, <1>2, <2>2, PlaceFacts DEF NoteOverlaps
    <3>2. pc[p] = Down
      BY <2>2, <3>1 DEF StoreCore, UpsertIsAlone
    <3>3. place.then = "catalogue"
      BY <3>2
    <3>4. StartsOverlap'
      BY <1>2, <2>2, <3>1, <3>3 DEF StartsOverlap
    <3> QED BY <3>4 DEF NoteOverlaps
  <2> QED BY <2>1, <2>2
<1>8. CatalogueFirst'
  <2>1. CASE \A r \in LegacyRequests : rows[r] # Absent
    BY <2>1, StoreAssumption DEF CatalogueFirst, Id
  <2>2. CASE /\ \A r \in LegacyRequests : rows[r] # Legacy
             /\ \A q \in Process : ~HasStarted(pc[q])
    <3>1. CASE HasStarted(place) \/ \A r \in LegacyRequests : rows'[r] # Absent
      BY <3>1 DEF CatalogueFirst
    <3>2. CASE /\ ~HasStarted(place)
               /\ ~(\A r \in LegacyRequests : rows'[r] # Absent)
      <4>1. \A r \in LegacyRequests : rows'[r] # Legacy
        BY <2>2, <3>2
      <4>2. \A q \in Process : ~HasStarted(pc'[q])
        BY <1>2, <2>2, <3>2
      <4> QED BY <4>1, <4>2 DEF CatalogueFirst, HasStarted
    <3> QED BY <3>1, <3>2
  <2> QED BY <2>1, <2>2 DEF StoreCore, CatalogueFirst
<1>9. AcknowledgedIsKept'
  BY <1>3 DEF StoreCore, AcknowledgedIsKept, NoteOverlaps
<1> QED BY <1>4, <1>5, <1>6, <1>7, <1>8, <1>9 DEF StoreCore

\* A set of names has a first one.
LEMMA FirstFile ==
  ASSUME NEW files, files \subseteq Nat, IsFiniteSet(files), files # {}
  PROVE  /\ (CHOOSE a \in files : \A b \in files : a <= b) \in files
         /\ \A b \in files : (CHOOSE a \in files : \A c \in files : a <= c) <= b
<1> DEFINE G == {T \in SUBSET files : T # {} => \E a \in T : \A b \in T : a <= b}
<1>1. ASSUME NEW T \in SUBSET files, \A U \in SUBSET T : U # T => U \in G
      PROVE  T \in G
  <2> SUFFICES ASSUME T # {} PROVE \E a \in T : \A b \in T : a <= b
    OBVIOUS
  <2>1. PICK x \in T : TRUE
    OBVIOUS
  <2> DEFINE U == {b \in T : b < x}
  <2>2. CASE U = {}
    <3>1. \A b \in T : x <= b
      BY <2>2
    <3> QED BY <3>1
  <2>3. CASE U # {}
    <3>1. U \in SUBSET T /\ U # T
      BY <2>1
    <3>2. PICK a \in U : \A b \in U : a <= b
      BY <1>1, <2>3, <3>1
    <3>3. \A b \in T : a <= b
      BY <3>2
    <3> QED BY <3>2, <3>3
  <2> QED BY <2>2, <2>3
<1>2. files \in G
  <2> HIDE DEF G
  <2> QED BY <1>1, SubsetInduction
<1>3. \E a \in files : \A b \in files : a <= b
  BY <1>2
<1> QED BY <1>3

\* The import goes on with the next file, or with what follows it.
LEMMA NextFile ==
  ASSUME NEW p \in Process, NEW files, files \subseteq LegacyAudits,
         NEW then \in {"catalogue", "serving"}, ImportFrom(p, files, then),
         kind # "json" \/ (files = {} /\ then = "catalogue")
  PROVE  \E place \in Places :
           /\ Goto(p, place)
           /\ place.step # "upsert" /\ place # Down
           /\ HasStarted(place) <=> then = "serving"
           /\ then = "catalogue" => place.then = "catalogue"
           /\ \A a \in ImportedBefore(place) :
                then = "serving" \/ \A b \in files : a < b
<1>1. CASE files = {}
  <2> DEFINE place == At(then, 0, IF then = "catalogue" THEN then ELSE "none")
  <2>1. Goto(p, place)
    BY <1>1 DEF ImportFrom
  <2>2. place \in Places
    BY DEF Places, Serving
  <2>3. /\ place.step # "upsert" /\ place # Down
        /\ HasStarted(place) <=> then = "serving"
        /\ then = "catalogue" => place.then = "catalogue"
    BY DEF At, Down, HasStarted
  <2> HIDE DEF place
  <2> QED BY <1>1, <2>1, <2>2, <2>3
<1>2. CASE files # {}
  <2> DEFINE first == CHOOSE a \in files : \A b \in files : a <= b
             place == At("check", first, then)
  <2>1. first \in files /\ \A b \in files : first <= b
    <3>1. IsFiniteSet(files) /\ files \subseteq Nat
      BY StoreAssumption, FS_Subset
    <3> QED BY <1>2, <3>1, FirstFile
  <2> HIDE DEF first
  <2>2. Goto(p, place)
    BY <1>2 DEF ImportFrom, first
  <2>3. place \in Places
    BY <1>2, <2>1 DEF Places
  <2>4. /\ place.step # "upsert" /\ place # Down
        /\ HasStarted(place) <=> then = "serving"
        /\ then = "catalogue" => place.then = "catalogue"
    BY DEF At, Down, HasStarted
  <2>5. ASSUME NEW a \in ImportedBefore(place), then # "serving", NEW b \in files
        PROVE  a < b
    <3>1. a < first /\ a \in Nat /\ first \in Nat /\ b \in Nat
      BY <2>1, <2>5, StoreAssumption DEF ImportedBefore, HasStarted, At
    <3> QED BY <2>1, <3>1
  <2> HIDE DEF place
  <2> QED BY <2>2, <2>3, <2>4, <2>5
<1> QED BY <1>1, <1>2

\* A step that only moves a process.
LEMMA MoveKeepsStore ==
  ASSUME StoreCore, NEW p \in Process, NEW place \in Places, Goto(p, place),
         UNCHANGED <<kind, rows, acked, version>>, crashes' \in 0 .. MaxCrashes,
         NoteOverlaps,
         kind # "json" => \A a \in ImportedBefore(place) : rows[a] # Absent,
         pc[p] # Down \/ place.then = "catalogue",
         place.step = "upsert" /\ ~overlapped' =>
           /\ rows[place.id] = Absent
           /\ \A q \in Process \ {p} : pc[q] = Down,
         HasStarted(place) => \A r \in LegacyRequests : rows[r] # Absent
  PROVE  StoreCore'
<1>1. /\ rows' \in [Id -> {Torn} \cup 0 .. MaxVersion]
      /\ acked' \in [Id -> 0 .. MaxVersion] /\ version' \in 1 .. MaxVersion
  BY DEF StoreCore, StoreTypeOK
<1>2. \A id \in Id : acked'[id] <= version' /\ rows'[id] <= version'
  BY DEF StoreCore, RowsAreKnown
<1>3. /\ \A id \in Id : rows[id] # Absent => rows'[id] # Absent
      /\ \A r \in LegacyRequests : rows'[r] = Legacy => rows[r] = Legacy
      /\ \A id \in Id : rows'[id] = rows[id] /\ acked'[id] = acked[id]
      /\ kind' = kind
  OBVIOUS
<1>4. /\ kind # "json" => \A a \in ImportedBefore(place) : rows'[a] # Absent
      /\ place.step = "upsert" /\ ~overlapped' =>
           /\ rows'[place.id] = Absent
           /\ \A q \in Process \ {p} : pc[q] = Down
      /\ HasStarted(place) => \A r \in LegacyRequests : rows'[r] # Absent
  OBVIOUS
<1> QED BY <1>1, <1>2, <1>3, <1>4, StepKeepsStore

\* What the invariant says of one process.
LEMMA ProcessFacts ==
  ASSUME StoreCore, NEW p \in Process
  PROVE  /\ pc \in [Process -> Places] /\ pc[p] \in Places
         /\ kind # "json" => \A a \in ImportedBefore(pc[p]) : rows[a] # Absent
         /\ HasStarted(pc[p]) => \A r \in LegacyRequests : rows[r] # Absent
         /\ crashes \in 0 .. MaxCrashes
BY DEF StoreCore, PlacesAreKept, FilesAreImported, CatalogueFirst, StoreTypeOK

LEMMA StartKeepsStore ==
  ASSUME StoreCore, NEW p \in Process, Start(p),
         NoteOverlaps
  PROVE  StoreCore'
<1> DEFINE files == IF kind = "json" THEN {} ELSE LegacyAudits
<1>1. /\ files \subseteq LegacyAudits /\ ImportFrom(p, files, "catalogue")
      /\ UNCHANGED <<kind, rows, acked, version, crashes>>
      /\ kind # "json" \/ (files = {} /\ "catalogue" = "catalogue")
      /\ kind # "json" => files = LegacyAudits
  BY DEF Start
<1> HIDE DEF files
<1>2. PICK place \in Places :
        /\ Goto(p, place) /\ place.step # "upsert"
        /\ HasStarted(place) <=> "catalogue" = "serving"
        /\ "catalogue" = "catalogue" => place.then = "catalogue"
        /\ \A a \in ImportedBefore(place) :
             "catalogue" = "serving" \/ \A b \in files : a < b
  BY <1>1, NextFile
<1>3. ASSUME kind # "json", NEW a \in ImportedBefore(place) PROVE FALSE
  <2>1. a \in LegacyAudits /\ a < a
    BY <1>1, <1>2, <1>3 DEF ImportedBefore
  <2> QED BY <2>1, StoreAssumption
<1>4. crashes' \in 0 .. MaxCrashes
  BY <1>1, ProcessFacts
<1> QED BY <1>1, <1>2, <1>3, <1>4, MoveKeepsStore

\* A process that found its file, or has just written it, goes on.
LEMMA FileIsBehind ==
  ASSUME StoreCore, NEW p \in Process, pc[p].step \in {"check", "upsert"},
         NEW place \in Places,
         \A a \in ImportedBefore(place) :
           pc[p].then = "serving" \/ \A b \in Later(p) : a < b,
         NEW a \in ImportedBefore(place), a # pc[p].id
  PROVE  rows[a] # Absent
<1>1. /\ kind # "json" /\ pc[p].id \in LegacyAudits
      /\ pc[p].then \in {"catalogue", "serving"}
      /\ \A b \in ImportedBefore(pc[p]) : rows[b] # Absent
  BY ProcessFacts, PlaceFacts
<1>2. a \in LegacyAudits /\ a \in Nat /\ pc[p].id \in Nat
  BY <1>1, StoreAssumption DEF ImportedBefore
<1>3. CASE pc[p].then = "serving"
  BY <1>1, <1>2, <1>3 DEF ImportedBefore, HasStarted
<1>4. CASE pc[p].then # "serving"
  <2>1. a \notin Later(p)
    BY <1>2, <1>4
  <2>2. a < pc[p].id
    BY <1>2, <2>1 DEF Later
  <2> QED BY <1>1, <1>2, <2>2 DEF ImportedBefore
<1> QED BY <1>3, <1>4

LEMMA CheckKeepsStore ==
  ASSUME StoreCore, NEW p \in Process, CheckFile(p),
         NoteOverlaps
  PROVE  StoreCore'
<1>1. /\ pc[p].step = "check" /\ kind # "json" /\ pc[p].id \in LegacyAudits
      /\ pc[p].then \in {"catalogue", "serving"}
      /\ UNCHANGED <<kind, rows, acked, version, crashes>>
      /\ pc[p] # Down /\ Later(p) \subseteq LegacyAudits
      /\ pc \in [Process -> Places] /\ crashes \in 0 .. MaxCrashes
  BY ProcessFacts, PlaceFacts DEF CheckFile, Down, At, Later
<1>2. CASE HasRow(pc[p].id)
  <2>1. ImportFrom(p, Later(p), pc[p].then)
    BY <1>2 DEF CheckFile
  <2>2. PICK place \in Places :
          /\ Goto(p, place) /\ place.step # "upsert"
          /\ HasStarted(place) <=> pc[p].then = "serving"
          /\ \A a \in ImportedBefore(place) :
               pc[p].then = "serving" \/ \A b \in Later(p) : a < b
    BY <1>1, <2>1, NextFile
  <2>3. \A a \in ImportedBefore(place) : rows[a] # Absent
    BY <1>1, <1>2, <2>2, FileIsBehind DEF HasRow
  <2>4. HasStarted(place) => \A r \in LegacyRequests : rows[r] # Absent
    BY <2>2, ProcessFacts DEF HasStarted
  <2> QED BY <1>1, <2>2, <2>3, <2>4, MoveKeepsStore
<1>3. CASE ~HasRow(pc[p].id)
  <2> DEFINE place == At("upsert", pc[p].id, pc[p].then)
  <2>1. Goto(p, place) /\ rows[pc[p].id] = Absent
    BY <1>3 DEF CheckFile, HasRow
  <2>2. pc[p].then = "catalogue"
    <3>1. pc[p].id \notin ImportedBefore(pc[p])
      BY <1>1, <2>1, ProcessFacts
    <3> QED BY <1>1, <3>1 DEF ImportedBefore, HasStarted
  <2>3. place \in Places /\ place.step = "upsert" /\ place.id = pc[p].id
        /\ place.then = "catalogue"
    BY <1>1, <2>2 DEF Places, At
  <2> HIDE DEF place
  <2>4. \A a \in ImportedBefore(place) : rows[a] # Absent
    <3>1. ImportedBefore(place) = ImportedBefore(pc[p])
      BY <1>1, <2>2, <2>3 DEF ImportedBefore, HasStarted
    <3> QED BY <1>1, <3>1, ProcessFacts
  <2>5. ~HasStarted(place)
    BY <2>3 DEF HasStarted
  <2>6. ASSUME ~overlapped', NEW q \in Process \ {p} PROVE pc[q] = Down
    <3>1. pc[q] \in Places /\ pc'[p] = place /\ pc'[q] = pc[q]
      BY <1>1, <2>1 DEF Goto
    <3>2. pc[q].then # "catalogue"
      BY <2>3, <2>6, <3>1 DEF StartsOverlap, NoteOverlaps
    <3>3. pc[p].id \notin ImportedBefore(pc[q])
      BY <1>1, <2>1, ProcessFacts
    <3>4. ~HasStarted(pc[q]) /\ pc[q].step # "catalogue"
      BY <1>1, <3>3 DEF ImportedBefore
    <3>5. pc[q].step \notin {"serving", "write", "check", "upsert", "catalogue"}
      BY <3>1, <3>2, <3>4, PlaceFacts DEF HasStarted
    <3> QED BY <3>1, <3>5, PlaceFacts
  <2> QED BY <1>1, <2>1, <2>3, <2>4, <2>5, <2>6, MoveKeepsStore
<1> QED BY <1>2, <1>3

LEMMA ImportKeepsStore ==
  ASSUME StoreCore, NEW p \in Process, ImportFile(p),
         NoteOverlaps
  PROVE  StoreCore'
<1> DEFINE f == pc[p].id
<1>1. /\ pc[p].step = "upsert" /\ kind # "json" /\ f \in LegacyAudits
      /\ pc[p].then = "catalogue"
      /\ UNCHANGED <<kind, acked, version, crashes>>
      /\ rows' = [rows EXCEPT ![f] = Legacy]
      /\ pc[p] # Down /\ Later(p) \subseteq LegacyAudits
      /\ pc \in [Process -> Places] /\ crashes \in 0 .. MaxCrashes
      /\ ImportFrom(p, Later(p), "catalogue")
  BY ProcessFacts, PlaceFacts DEF ImportFile, Down, At, Later
<1>2. PICK place \in Places :
        /\ Goto(p, place) /\ place.step # "upsert"
        /\ HasStarted(place) <=> pc[p].then = "serving"
        /\ \A a \in ImportedBefore(place) :
             pc[p].then = "serving" \/ \A b \in Later(p) : a < b
  BY <1>1, NextFile
<1>3. /\ rows \in [Id -> {Torn} \cup 0 .. MaxVersion] /\ f \in Id
      /\ acked \in [Id -> 0 .. MaxVersion] /\ version \in 1 .. MaxVersion
  BY <1>1, StoreAssumption DEF StoreCore, StoreTypeOK, Id
<1>4. rows' \in [Id -> {Torn} \cup 0 .. MaxVersion]
      /\ acked' \in [Id -> 0 .. MaxVersion] /\ version' \in 1 .. MaxVersion
      /\ rows'[f] = Legacy /\ \A id \in Id : id # f => rows'[id] = rows[id]
  <2>1. Legacy \in 0 .. MaxVersion
    BY StoreAssumption DEF Legacy
  <2> QED BY <1>1, <1>3, <2>1
<1> HIDE DEF f
<1>5. \A id \in Id : acked'[id] <= version' /\ rows'[id] <= version'
  BY <1>1, <1>3, <1>4 DEF StoreCore, RowsAreKnown, Legacy
<1>6. \A id \in Id : rows[id] # Absent => rows'[id] # Absent
  BY <1>4 DEF Legacy, Absent
<1>7. \A a \in ImportedBefore(place) : rows'[a] # Absent
  <2> SUFFICES ASSUME NEW a \in ImportedBefore(place), a # f PROVE rows'[a] # Absent
    BY <1>4 DEF Legacy, Absent
  <2>1. rows[a] # Absent /\ a \in Id
    BY <1>1, <1>2, FileIsBehind, StoreAssumption DEF ImportedBefore, Id, f
  <2> QED BY <1>6, <2>1
<1>8. ~HasStarted(place)
  BY <1>1, <1>2
<1>9. \A r \in LegacyRequests : rows'[r] = Legacy => rows[r] = Legacy
  BY <1>1, <1>4, StoreAssumption DEF Id
<1>10. \A id \in Id : \/ rows'[id] = rows[id] /\ acked'[id] = acked[id]
                      \/ rows'[id] >= acked'[id]
                      \/ /\ kind # "json" /\ overlapped
                         /\ id \in LegacyAudits /\ rows'[id] = Legacy
  <2> SUFFICES ASSUME ~overlapped PROVE rows'[f] >= acked'[f]
    BY <1>1, <1>4
  <2>1. rows[f] = Absent
    BY <1>1 DEF StoreCore, UpsertIsAlone, f
  <2>2. rows[f] >= acked[f]
    BY <1>1, <1>3, <2>1 DEF StoreCore, AcknowledgedIsKept, Absent, Torn, Legacy
  <2> QED BY <1>1, <1>3, <1>4, <2>1, <2>2 DEF Absent, Legacy
<1>11. kind' = kind /\ crashes' \in 0 .. MaxCrashes
  BY <1>1
<1> QED BY <1>1, <1>2, <1>4, <1>5, <1>6, <1>7, <1>8, <1>9, <1>10, <1>11, StepKeepsStore

LEMMA CatalogueKeepsStore ==
  ASSUME StoreCore, NEW p \in Process, ImportCatalogue(p),
         NoteOverlaps
  PROVE  StoreCore'
<1>1. /\ pc[p].step = "catalogue" /\ pc[p] # Down
      /\ UNCHANGED <<kind, acked, version, crashes>>
      /\ pc \in [Process -> Places] /\ crashes \in 0 .. MaxCrashes
      /\ Serving \in Places /\ Down \in Places
  BY ProcessFacts DEF ImportCatalogue, Down, At, Places
<1>2. CASE Goto(p, Down) /\ UNCHANGED rows
  <2>1. ImportedBefore(Down) = {} /\ ~HasStarted(Down) /\ Down.step # "upsert"
    BY DEF ImportedBefore, HasStarted, Down, At
  <2> QED BY <1>1, <1>2, <2>1, MoveKeepsStore
<1>3. CASE /\ rows' = [id \in Id |-> IF id \in LegacyRequests
                                     THEN Imported(rows[id]) ELSE rows[id]]
           /\ Goto(p, Serving)
  <2>1. /\ rows \in [Id -> {Torn} \cup 0 .. MaxVersion]
        /\ acked \in [Id -> 0 .. MaxVersion] /\ version \in 1 .. MaxVersion
    BY DEF StoreCore, StoreTypeOK
  <2>2. \A id \in Id : \/ rows'[id] = rows[id]
                       \/ rows[id] = Absent /\ rows'[id] = Legacy
    BY <1>3 DEF Imported
  <2>3. \A r \in LegacyRequests : rows'[r] # Absent
    <3>1. LegacyRequests \subseteq Id
      BY StoreAssumption DEF Id
    <3> QED BY <1>3, <3>1 DEF Imported, Legacy, Absent
  <2>4. rows' \in [Id -> {Torn} \cup 0 .. MaxVersion]
    <3>1. Legacy \in 0 .. MaxVersion
      BY StoreAssumption DEF Legacy
    <3> QED BY <1>3, <2>1, <3>1 DEF Imported
  <2>5. \A id \in Id : acked'[id] <= version' /\ rows'[id] <= version'
    BY <1>1, <2>1, <2>2 DEF StoreCore, RowsAreKnown, Legacy
  <2>6. \A id \in Id : rows[id] # Absent => rows'[id] # Absent
    BY <2>2
  <2>7. ASSUME NEW id \in Id
        PROVE  \/ rows'[id] = rows[id] /\ acked'[id] = acked[id]
               \/ rows'[id] >= acked'[id]
    <3> SUFFICES ASSUME rows[id] = Absent, rows'[id] = Legacy
                 PROVE  rows'[id] >= acked'[id]
      BY <1>1, <2>2
    <3>1. rows[id] >= acked[id]
      BY DEF StoreCore, AcknowledgedIsKept, Absent, Torn, Legacy
    <3> QED BY <1>1, <2>1, <3>1 DEF Absent, Legacy
  <2>8. kind # "json" => \A a \in ImportedBefore(Serving) : rows'[a] # Absent
    <3> SUFFICES ASSUME kind # "json", NEW a \in LegacyAudits PROVE rows'[a] # Absent
      BY DEF ImportedBefore
    <3>1. rows[a] # Absent /\ a \in Id
      BY <1>1, ProcessFacts, StoreAssumption DEF ImportedBefore, Id
    <3> QED BY <2>6, <3>1
  <2>9. Serving.step # "upsert" /\ kind' = kind /\ crashes' \in 0 .. MaxCrashes
        /\ acked' \in [Id -> 0 .. MaxVersion] /\ version' \in 1 .. MaxVersion
    BY <1>1, <2>1 DEF Serving, At
  <2> QED BY <1>1, <1>3, <2>3, <2>4, <2>5, <2>6, <2>7, <2>8, <2>9, StepKeepsStore
<1> QED BY <1>2, <1>3 DEF ImportCatalogue

\* A handler writes a new version of a row, and perhaps is told so.
LEMMA WriteKeepsStore ==
  ASSUME StoreCore, NEW p \in Process, HasStarted(pc[p]), pc[p].step # "upsert",
         NEW id \in Id, version < MaxVersion, version' = version + 1,
         NEW stored, rows' = [rows EXCEPT ![id] = stored],
         stored = version' \/ (kind = "json" /\ id \in Audit /\ stored = Torn),
         acked' \in {acked, [acked EXCEPT ![id] = version']},
         Goto(p, Serving), UNCHANGED <<kind, crashes>>,
         NoteOverlaps
  PROVE  StoreCore'
<1>1. /\ rows \in [Id -> {Torn} \cup 0 .. MaxVersion]
      /\ acked \in [Id -> 0 .. MaxVersion] /\ version \in 1 .. MaxVersion
      /\ MaxVersion \in Nat /\ crashes' \in 0 .. MaxCrashes
  BY StoreAssumption DEF StoreCore, StoreTypeOK
<1>2. version' \in 1 .. MaxVersion /\ version' > 1 /\ version < version'
      /\ version' \in Nat /\ stored <= version'
      /\ stored \in {Torn} \cup 0 .. MaxVersion
  BY <1>1 DEF Torn
<1>3. /\ rows'[id] = stored /\ \A k \in Id : k # id => rows'[k] = rows[k]
      /\ rows' \in [Id -> {Torn} \cup 0 .. MaxVersion]
      /\ acked' \in [Id -> 0 .. MaxVersion]
      /\ acked'[id] <= version' /\ \A k \in Id : k # id => acked'[k] = acked[k]
  <2>1. acked[id] <= version' /\ acked[id] \in Nat
    BY <1>1, <1>2 DEF StoreCore, RowsAreKnown
  <2> QED BY <1>1, <1>2, <2>1
<1>4. \A k \in Id : acked'[k] <= version' /\ rows'[k] <= version'
  <2>1. ASSUME NEW k \in Id, k # id PROVE acked'[k] <= version' /\ rows'[k] <= version'
    <3>1. acked[k] <= version /\ rows[k] <= version /\ acked[k] \in Int /\ rows[k] \in Int
      BY RowFacts DEF StoreCore, RowsAreKnown
    <3> QED BY <1>1, <1>2, <1>3, <2>1, <3>1
  <2> QED BY <1>2, <1>3, <2>1
<1>5. /\ rows'[id] # Absent /\ rows'[id] # Legacy
  BY <1>2, <1>3 DEF Absent, Legacy, Torn
<1>6. \A k \in Id : rows[k] # Absent => rows'[k] # Absent
  BY <1>3, <1>5
<1>7. \A r \in LegacyRequests : rows'[r] # Absent
  <2>1. \A r \in LegacyRequests : rows[r] # Absent /\ r \in Id
    BY ProcessFacts, StoreAssumption DEF Id
  <2> QED BY <1>6, <2>1
<1>8. kind # "json" => \A a \in ImportedBefore(Serving) : rows'[a] # Absent
  <2> SUFFICES ASSUME kind # "json", NEW a \in LegacyAudits PROVE rows'[a] # Absent
    BY DEF ImportedBefore
  <2>1. rows[a] # Absent /\ a \in Id
    BY ProcessFacts, StoreAssumption DEF ImportedBefore, Id
  <2> QED BY <1>6, <2>1
<1>9. /\ Serving \in Places /\ Serving.step # "upsert" /\ kind' = kind
       /\ pc[p] # Down
  BY DEF Serving, At, Places, HasStarted, Down
<1>10. \A k \in Id : \/ rows'[k] = rows[k] /\ acked'[k] = acked[k]
                     \/ rows'[k] >= acked'[k]
                     \/ kind = "json" /\ k \in Audit /\ rows'[k] = Torn
  BY <1>2, <1>3
<1> QED BY <1>1, <1>2, <1>3, <1>4, <1>6, <1>7, <1>8, <1>9, <1>10, StepKeepsStore

LEMMA HandlersKeepStore ==
  ASSUME StoreCore, NEW p \in Process, NEW id \in Id,
         SqliteWrite(p, id) \/ PostgresWrite(p, id) \/ JsonTruncate(p, id),
         NoteOverlaps
  PROVE  StoreCore'
<1>1. /\ pc[p] = Serving /\ version < MaxVersion /\ UNCHANGED <<kind, crashes>>
      /\ pc \in [Process -> Places] /\ crashes' \in 0 .. MaxCrashes
      /\ HasStarted(pc[p]) /\ pc[p].step # "upsert" /\ pc[p] # Down
      /\ (pc' = pc => Goto(p, Serving))
  BY ProcessFacts DEF SqliteWrite, PostgresWrite, JsonTruncate, Serving, Down, At,
     HasStarted, Goto
<1>2. /\ rows \in [Id -> {Torn} \cup 0 .. MaxVersion]
      /\ acked \in [Id -> 0 .. MaxVersion] /\ version \in 1 .. MaxVersion
      /\ MaxVersion \in Nat
  BY StoreAssumption DEF StoreCore, StoreTypeOK
<1>3. CASE SqliteWrite(p, id)
  <2>1. /\ version' = version + 1 /\ rows' = [rows EXCEPT ![id] = version']
        /\ acked' = [acked EXCEPT ![id] = version'] /\ pc' = pc
    BY <1>3 DEF SqliteWrite
  <2> QED BY <1>1, <2>1, WriteKeepsStore
<1>4. CASE PostgresWrite(p, id)
  <2>1. version' = version + 1 /\ pc' = pc
    BY <1>4 DEF PostgresWrite
  <2>2. CASE rows' = [rows EXCEPT ![id] = version']
    <3>1. acked' \in {acked, [acked EXCEPT ![id] = version']}
            \/ UNCHANGED <<rows, acked>>
      BY <1>4 DEF PostgresWrite
    <3>2. acked' \in {acked, [acked EXCEPT ![id] = version']}
      BY <3>1
    <3> QED BY <1>1, <2>1, <2>2, <3>2, WriteKeepsStore
  <2>3. CASE UNCHANGED <<rows, acked>>
    <3>1. \A k \in Id : acked'[k] <= version' /\ rows'[k] <= version'
      <4> SUFFICES ASSUME NEW k \in Id
                   PROVE  acked[k] <= version + 1 /\ rows[k] <= version + 1
        BY <2>1, <2>3
      <4>1. acked[k] <= version /\ rows[k] <= version /\ acked[k] \in Int /\ rows[k] \in Int
        BY RowFacts DEF StoreCore, RowsAreKnown
      <4> QED BY <1>2, <4>1
    <3>2. version' \in 1 .. MaxVersion
      BY <1>1, <1>2, <2>1
    <3>3. /\ kind # "json" => \A a \in ImportedBefore(Serving) : rows'[a] # Absent
          /\ \A r \in LegacyRequests : rows'[r] # Absent
          /\ Serving \in Places /\ Serving.step # "upsert"
      BY <1>1, <2>3, ProcessFacts DEF Serving, At
    <3>4. /\ rows' = rows /\ acked' = acked /\ kind' = kind
          /\ \A k \in Id : rows[k] # Absent => rows'[k] # Absent
      BY <1>1, <2>3
    <3> QED BY <1>1, <1>2, <2>1, <3>1, <3>2, <3>3, <3>4, StepKeepsStore
  <2> QED BY <1>4, <2>2, <2>3 DEF PostgresWrite
<1>5. CASE JsonTruncate(p, id)
  <2> DEFINE place == At("write", id, "none")
  <2>1. /\ kind = "json" /\ id \in Audit /\ rows' = [rows EXCEPT ![id] = Torn]
        /\ Goto(p, place) /\ UNCHANGED <<acked, version>>
    BY <1>5 DEF JsonTruncate
  <2>2. place \in Places /\ place.step = "write"
    BY <2>1 DEF Places, At
  <2> HIDE DEF place
  <2>3. /\ rows'[id] = Torn /\ \A k \in Id : k # id => rows'[k] = rows[k]
        /\ rows' \in [Id -> {Torn} \cup 0 .. MaxVersion]
    BY <1>2, <2>1
  <2>4. \A k \in Id : acked'[k] <= version' /\ rows'[k] <= version'
    BY <1>2, <2>1, <2>3 DEF StoreCore, RowsAreKnown, Torn
  <2>5. \A k \in Id : rows[k] # Absent => rows'[k] # Absent
    BY <2>3 DEF Torn, Absent
  <2>6. \A r \in LegacyRequests : rows'[r] # Absent
    <3>1. \A r \in LegacyRequests : rows[r] # Absent /\ r \in Id
      BY <1>1, ProcessFacts, StoreAssumption DEF Id
    <3> QED BY <2>5, <3>1
  <2>7. /\ kind' = kind /\ acked' \in [Id -> 0 .. MaxVersion]
        /\ version' \in 1 .. MaxVersion
    BY <1>1, <1>2, <2>1
  <2>8. \A k \in Id : \/ rows'[k] = rows[k] /\ acked'[k] = acked[k]
                      \/ kind = "json" /\ k \in Audit /\ rows'[k] = Torn
    BY <2>1, <2>3
  <2> QED BY <1>1, <2>1, <2>2, <2>3, <2>4, <2>5, <2>6, <2>7, <2>8, StepKeepsStore
<1> QED BY <1>3, <1>4, <1>5

LEMMA JsonWriteKeepsStore ==
  ASSUME StoreCore, NEW p \in Process, JsonWrite(p),
         NoteOverlaps
  PROVE  StoreCore'
<1> DEFINE id == pc[p].id
<1>1. /\ pc[p].step = "write" /\ HasStarted(pc[p]) /\ id \in Id
      /\ kind = "json" /\ id \in Audit
  BY ProcessFacts, PlaceFacts DEF JsonWrite, HasStarted, Id
<1>2. /\ version < MaxVersion /\ version' = version + 1
      /\ \/ rows' = [rows EXCEPT ![id] = version']
         \/ rows' = [rows EXCEPT ![id] = Torn]
      /\ acked' = [acked EXCEPT ![id] = version']
      /\ Goto(p, Serving) /\ UNCHANGED <<kind, crashes>>
  BY DEF JsonWrite
<1> HIDE DEF id
<1> QED BY <1>1, <1>2, WriteKeepsStore

LEMMA ReadKeepsStore ==
  ASSUME StoreCore, NEW p \in Process, ReadImportsAgain(p),
         NoteOverlaps
  PROVE  StoreCore'
<1>1. /\ pc[p] = Serving /\ pc[p] # Down /\ kind # "json"
      /\ ImportFrom(p, LegacyAudits, "serving") /\ LegacyAudits \subseteq LegacyAudits
      /\ UNCHANGED <<kind, rows, acked, version>> /\ crashes' \in 0 .. MaxCrashes
      /\ HasStarted(pc[p])
  BY ProcessFacts DEF ReadImportsAgain, Serving, Down, At, HasStarted
<1>2. PICK place \in Places :
        Goto(p, place) /\ place.step # "upsert" /\ place # Down
        /\ (HasStarted(place) <=> "serving" = "serving")
  BY <1>1, NextFile
<1>3. \A a \in ImportedBefore(place) : rows[a] # Absent
  BY <1>1, <1>2, ProcessFacts DEF ImportedBefore
<1>4. \A r \in LegacyRequests : rows[r] # Absent
  BY <1>1, ProcessFacts
<1> QED BY <1>1, <1>2, <1>3, <1>4, MoveKeepsStore

LEMMA CrashKeepsStore ==
  ASSUME StoreCore, NEW p \in Process, Crash(p),
         NoteOverlaps
  PROVE  StoreCore'
<1>1. /\ Goto(p, Down) /\ pc[p] # Down /\ UNCHANGED <<kind, rows, acked, version>>
      /\ Down \in Places
      /\ ImportedBefore(Down) = {} /\ ~HasStarted(Down) /\ Down.step # "upsert"
  BY DEF Crash, Places, ImportedBefore, HasStarted, Down, At
<1>2. crashes' \in 0 .. MaxCrashes
  BY ProcessFacts, StoreAssumption DEF Crash
<1> QED BY <1>1, <1>2, MoveKeepsStore

LEMMA StoreCoreInductive == StoreCore /\ [StoreNext]_storeVars => StoreCore'
<1>1. ASSUME StoreCore, StoreNext PROVE StoreCore'
  <2>1. NoteOverlaps
    BY <1>1 DEF StoreNext
  <2>2. PICK p \in Process :
          \/ Start(p) \/ CheckFile(p) \/ ImportFile(p) \/ ImportCatalogue(p)
          \/ \E id \in Id : SqliteWrite(p, id) \/ PostgresWrite(p, id) \/ JsonTruncate(p, id)
          \/ JsonWrite(p) \/ ReadImportsAgain(p) \/ Crash(p)
    BY <1>1 DEF StoreNext
  <2> QED BY <1>1, <2>1, <2>2, StartKeepsStore, CheckKeepsStore, ImportKeepsStore,
          CatalogueKeepsStore, HandlersKeepStore, JsonWriteKeepsStore, ReadKeepsStore,
          CrashKeepsStore
<1>2. ASSUME StoreCore, UNCHANGED storeVars PROVE StoreCore'
  BY <1>2 DEF storeVars, StoreCore, StoreTypeOK, PlacesAreKept, Places, RowsAreKnown,
     FilesAreImported, UpsertIsAlone, CatalogueFirst, AcknowledgedIsKept
<1> QED BY <1>1, <1>2

\* Whatever processes start, import, write and crash, and in whatever order: a
\* record that a handler was told is stored is not replaced by an older one, but
\* for a file cut short and an import that overlapped another; and the
\* catalogue is there as a whole before a process serves (store.py).
THEOREM StoreKeepsItsRecords == StoreSpec => []StoreInvariant
<1>1. StoreCore => StoreInvariant
  <2> SUFFICES ASSUME StoreCore PROVE CatalogueIsWhole
    BY DEF StoreCore, StoreInvariant
  <2> QED BY DEF StoreCore, CatalogueFirst, CatalogueIsWhole, HasStarted
<1> QED BY <1>1, StoreInitCore, StoreCoreInductive, PTL DEF StoreSpec

-----------------------------------------------------------------------------
(***************************************************************************)
(* The registries.  The books add up because a hash is recorded once, as   *)
(* the claim of one agent, and resolved once: what a bridge reads back of  *)
(* its own write is there for good, except for a response.                 *)
(***************************************************************************)
RegistrySpec == RegistryInit /\ [][RegistryNext]_registryVars

ClaimRecord ==
  [agent : {0} \cup DOMAIN owners, stake : Nat, resolved : BOOLEAN, confirmed : BOOLEAN]
RequestRecord ==
  [validator : Account \cup {"none"}, agent : {0} \cup DOMAIN owners,
   response : 0 .. 100, answered : BOOLEAN]
StatsRecord ==
  [totalClaims : Nat, totalStake : Nat, resolved : Nat, rejected : Nat, upheld : Nat]

RegistryTyped ==
  /\ owners \in Seq(Account) /\ Len(owners) <= MaxAgents
  /\ balances \in [Account -> Nat]
  /\ claimStatus \in [Hash -> ClaimRecord]
  /\ stats \in [Agent -> StatsRecord]
  /\ agentClaims \in [Agent -> Seq(Hash)]
  /\ validations \in [Hash -> RequestRecord]
  /\ responses \in 0 .. MaxResponses
  /\ \A h \in Hash : claimStatus[h].agent = 0 => claimStatus[h] = NoClaim
  /\ \A h \in Hash : validations[h].agent = 0 => validations[h] = NoRequest

\* A bridge that has to read its write back.
WritesAreKept ==
  \/ bridge.call \notin {"claim", "resolution", "request", "response"}
  \/ /\ bridge.call = "claim"
     /\ bridge.hash \in Hash /\ bridge.value \in Agent
     /\ claimStatus[bridge.hash].agent = bridge.value
  \/ /\ bridge.call = "resolution"
     /\ bridge.hash \in Hash /\ claimStatus[bridge.hash] # NoClaim
     /\ claimStatus[bridge.hash].resolved
     /\ claimStatus[bridge.hash].confirmed <=> bridge.value = 1
  \/ /\ bridge.call = "request"
     /\ bridge.hash \in Hash /\ bridge.value # 0
     /\ validations[bridge.hash].agent = bridge.value
  \/ /\ bridge.call = "response"
     /\ bridge.hash \in Hash /\ responses > 0
     /\ validations[bridge.hash].response = bridge.value \/ responses > 1

\* The books of an agent, and of an owner.
ClaimsOf(g) == {h \in Hash : claimStatus[h].agent = g}
EndedWith(g, c) ==
  {h \in ClaimsOf(g) : claimStatus[h].resolved /\ claimStatus[h].confirmed = c}
StakeOf == [h \in Hash |-> claimStatus[h].stake]
BookIsKept(g) ==
  /\ stats[g].totalClaims = Cardinality(ClaimsOf(g))
  /\ stats[g].totalStake = SumFunctionOnSet(StakeOf, ClaimsOf(g))
  /\ stats[g].rejected = Cardinality(EndedWith(g, TRUE))
  /\ stats[g].upheld = Cardinality(EndedWith(g, FALSE))
  /\ stats[g].resolved = stats[g].rejected + stats[g].upheld
  /\ ToSet(agentClaims[g]) = ClaimsOf(g)
  /\ Len(agentClaims[g]) = Cardinality(ClaimsOf(g))

BalanceIsKept(a) == balances[a] = Cardinality({g \in DOMAIN owners : owners[g] = a})

RegistryBooks ==
  /\ RegistryTyped
  /\ \A g \in Agent : BookIsKept(g)
  /\ \A a \in Account : BalanceIsKept(a)

RegistryCore == RegistryBooks /\ WritesAreKept

LEMMA RegistryFacts ==
  /\ Admin \in Account /\ Operator \in Account
  /\ Response \subseteq Nat /\ Stake \subseteq Nat
  /\ IsFiniteSet(Hash) /\ MaxAgents \in Nat /\ MaxResponses \in Nat
BY RegistryAssumption

\* What an agent's book is made of.
LEMMA BookFacts ==
  ASSUME RegistryTyped, NEW g
  PROVE  /\ ClaimsOf(g) \subseteq Hash /\ IsFiniteSet(ClaimsOf(g))
         /\ \A c \in BOOLEAN : IsFiniteSet(EndedWith(g, c))
         /\ \A h \in Hash : claimStatus[h] \in ClaimRecord /\ StakeOf[h] \in Nat
<1>1. ClaimsOf(g) \subseteq Hash /\ \A c : EndedWith(g, c) \subseteq Hash
  BY DEF ClaimsOf, EndedWith
<1>2. \A h \in Hash : claimStatus[h] \in ClaimRecord
  BY DEF RegistryTyped
<1>3. \A h \in Hash : StakeOf[h] \in Nat
  BY <1>2 DEF StakeOf, ClaimRecord
<1>4. \A S \in SUBSET Hash : IsFiniteSet(S)
  BY RegistryFacts, FS_Subset
<1> QED BY <1>1, <1>2, <1>3, <1>4

LEMMA BooksStand ==
  ASSUME UNCHANGED reputationVars
  PROVE  \A g \in Agent : BookIsKept(g) => BookIsKept(g)'
BY DEF reputationVars, BookIsKept, ClaimsOf, EndedWith, StakeOf

LEMMA BalancesStand ==
  ASSUME UNCHANGED identityVars
  PROVE  \A a \in Account : BalanceIsKept(a) => BalanceIsKept(a)'
BY DEF identityVars, BalanceIsKept

LEMMA RegistryInitBooks == RegistryInit => RegistryBooks
<1> SUFFICES ASSUME RegistryInit PROVE RegistryBooks
  OBVIOUS
<1>1. RegistryTyped
  <2>1. NoClaim \in ClaimRecord /\ NoStats \in StatsRecord /\ NoRequest \in RequestRecord
    BY DEF NoClaim, NoStats, NoRequest, ClaimRecord, StatsRecord, RequestRecord
  <2>2. owners \in Seq(Account) /\ Len(owners) <= MaxAgents /\ responses \in 0 .. MaxResponses
    BY RegistryFacts DEF RegistryInit
  <2>3. NoClaim.agent = 0 /\ NoRequest.agent = 0
    BY DEF NoClaim, NoRequest
  <2> QED BY <2>1, <2>2, <2>3 DEF RegistryInit, RegistryTyped
<1>2. ASSUME NEW g \in Agent PROVE BookIsKept(g)
  <2>1. ClaimsOf(g) = {}
    BY DEF RegistryInit, ClaimsOf, NoClaim, Agent
  <2>2. \A c : EndedWith(g, c) = {}
    BY <2>1 DEF EndedWith
  <2>3. Cardinality({}) = 0 /\ SumFunctionOnSet(StakeOf, {}) = 0
    BY FS_EmptySet, SumEmpty
  <2>4. agentClaims[g] = <<>> /\ ToSet(<<>>) = {} /\ Len(<<>>) = 0
    BY DEF RegistryInit, ToSet
  <2>5. /\ stats[g].totalClaims = 0 /\ stats[g].totalStake = 0
        /\ stats[g].rejected = 0 /\ stats[g].upheld = 0 /\ stats[g].resolved = 0
    BY DEF RegistryInit, NoStats
  <2>6. stats[g].resolved = stats[g].rejected + stats[g].upheld
    BY <2>5
  <2>7. /\ stats[g].rejected = Cardinality(EndedWith(g, TRUE))
        /\ stats[g].upheld = Cardinality(EndedWith(g, FALSE))
    BY <2>2, <2>3, <2>5
  <2>8. /\ stats[g].totalClaims = Cardinality(ClaimsOf(g))
        /\ stats[g].totalStake = SumFunctionOnSet(StakeOf, ClaimsOf(g))
        /\ ToSet(agentClaims[g]) = ClaimsOf(g)
        /\ Len(agentClaims[g]) = Cardinality(ClaimsOf(g))
    BY <2>1, <2>3, <2>4, <2>5
  <2> QED BY <2>6, <2>7, <2>8 DEF BookIsKept
<1>3. ASSUME NEW a \in Account PROVE BalanceIsKept(a)
  <2>1. {g \in DOMAIN owners : owners[g] = a} = {}
    BY DEF RegistryInit
  <2> QED BY <2>1, FS_EmptySet DEF RegistryInit, BalanceIsKept
<1> QED BY <1>1, <1>2, <1>3 DEF RegistryBooks

LEMMA RegisterKeepsBooks ==
  ASSUME RegistryBooks, NEW sender, NEW owner \in Account, RegisterAgent(sender, owner)
  PROVE  RegistryBooks'
<1>1. /\ owners \in Seq(Account) /\ Len(owners) < MaxAgents
      /\ owners' = Append(owners, owner)
      /\ balances \in [Account -> Nat]
      /\ balances' = [balances EXCEPT ![owner] = @ + 1]
      /\ UNCHANGED <<reputationVars, validations, responses>>
  BY DEF RegistryBooks, RegistryTyped, RegisterAgent
<1>2. /\ owners' \in Seq(Account) /\ Len(owners') = Len(owners) + 1
      /\ DOMAIN owners' = 1 .. Len(owners) + 1 /\ DOMAIN owners = 1 .. Len(owners)
      /\ \A g \in DOMAIN owners : owners'[g] = owners[g]
      /\ owners'[Len(owners) + 1] = owner
      /\ Len(owners) \in Nat
  BY <1>1, ElementsOfSeq, ElementsOfLonger
<1>3. RegistryTyped'
  <2>1. DOMAIN owners \subseteq DOMAIN owners'
    BY <1>2
  <2>2. \A r \in ClaimRecord : r \in ClaimRecord'
    BY <2>1 DEF ClaimRecord
  <2>3. \A r \in RequestRecord : r \in RequestRecord'
    BY <2>1 DEF RequestRecord
  <2>4. claimStatus' \in [Hash -> ClaimRecord'] /\ validations' \in [Hash -> RequestRecord']
    BY <1>1, <2>2, <2>3 DEF RegistryBooks, RegistryTyped, reputationVars
  <2>5. owners' \in Seq(Account) /\ Len(owners') <= MaxAgents
    BY <1>1, <1>2, RegistryFacts
  <2>6. balances' \in [Account -> Nat]
    BY <1>1
  <2>7. /\ stats' \in [Agent -> StatsRecord] /\ agentClaims' \in [Agent -> Seq(Hash)]
        /\ responses' \in 0 .. MaxResponses
        /\ \A h \in Hash : claimStatus[h]'.agent = 0 => claimStatus[h]' = NoClaim
        /\ \A h \in Hash : validations[h]'.agent = 0 => validations[h]' = NoRequest
    BY <1>1 DEF RegistryBooks, RegistryTyped, reputationVars
  <2> QED BY <2>4, <2>5, <2>6, <2>7 DEF RegistryTyped, StatsRecord
<1>4. \A g \in Agent : BookIsKept(g)'
  BY <1>1, BooksStand DEF RegistryBooks
<1>5. ASSUME NEW a \in Account PROVE BalanceIsKept(a)'
  <2> DEFINE own == {g \in DOMAIN owners : owners[g] = a}
             next == {g \in DOMAIN owners' : owners'[g] = a}
             new == Len(owners) + 1
  <2>1. IsFiniteSet(own) /\ new \notin own
    <3>1. own \subseteq 1 .. Len(owners)
      BY <1>2
    <3>2. IsFiniteSet(1 .. Len(owners))
      BY <1>2, FS_Interval
    <3>3. new \notin own
      BY <1>2, <3>1
    <3> HIDE DEF own
    <3>4. IsFiniteSet(own)
      BY <3>1, <3>2, FS_Subset
    <3> QED BY <3>3, <3>4
  <2>2. balances[a] = Cardinality(own)
    BY DEF RegistryBooks, BalanceIsKept
  <2>3. CASE a = owner
    <3>1. next = own \cup {new}
      BY <1>2, <2>3
    <3> HIDE DEF own, next
    <3>2. Cardinality(next) = Cardinality(own) + 1
      BY <2>1, <3>1, FS_AddElement
    <3>3. balances'[a] = balances[a] + 1
      BY <1>1, <2>3
    <3>4. balances'[a] = Cardinality(next)
      BY <2>2, <3>2, <3>3
    <3> QED BY <3>4 DEF BalanceIsKept, next
  <2>4. CASE a # owner
    <3>1. next = own
      BY <1>2, <2>4
    <3>2. balances'[a] = balances[a]
      BY <1>1, <2>4
    <3> QED BY <2>2, <3>1, <3>2 DEF BalanceIsKept
  <2> QED BY <2>3, <2>4
<1> QED BY <1>3, <1>4, <1>5 DEF RegistryBooks

LEMMA SpeakerFacts ==
  ASSUME RegistryTyped, NEW sender, NEW g \in Agent, MaySpeakFor(sender, g)
  PROVE  g \in DOMAIN owners /\ g # 0
BY DEF MaySpeakFor, Registered, Agent

LEMMA RecordClaimKeepsBooks ==
  ASSUME RegistryBooks, NEW sender, NEW g \in Agent, NEW h \in Hash, NEW stake \in Stake,
         RecordClaim(sender, g, h, stake)
  PROVE  RegistryBooks'
<1> DEFINE record == [NoClaim EXCEPT !.agent = g, !.stake = stake]
           next == [stats[g] EXCEPT !.totalClaims = stats[g].totalClaims + 1,
                                    !.totalStake = stats[g].totalStake + stake]
<1>2. RegistryTyped /\ g \in DOMAIN owners /\ g # 0
  BY SpeakerFacts DEF RegistryBooks, RecordClaim
<1>0. stats \in [Agent -> StatsRecord] /\ stats[g] \in StatsRecord
  BY <1>2 DEF RegistryTyped
<1>1. /\ claimStatus[h] = NoClaim
      /\ claimStatus' = [claimStatus EXCEPT ![h] = record]
      /\ stats' = [stats EXCEPT ![g] = next]
      /\ agentClaims' = [agentClaims EXCEPT ![g] = Append(@, h)]
      /\ UNCHANGED <<identityVars, validations, responses>>
  <2>1. stats' = [stats EXCEPT ![g] = next]
    BY <1>0 DEF RecordClaim, StatsRecord
  <2> HIDE DEF next
  <2> QED BY <2>1 DEF RecordClaim
<1>3. /\ record \in ClaimRecord /\ record.agent = g /\ record.stake = stake
      /\ record.resolved = FALSE /\ stake \in Nat
  BY <1>2, RegistryFacts DEF ClaimRecord, NoClaim
<1>4. /\ next \in StatsRecord
      /\ next.totalClaims = stats[g].totalClaims + 1
      /\ next.totalStake = stats[g].totalStake + stake
      /\ next.resolved = stats[g].resolved
      /\ next.rejected = stats[g].rejected /\ next.upheld = stats[g].upheld
  <2>1. stats[g].totalClaims + 1 \in Nat /\ stats[g].totalStake + stake \in Nat
    BY <1>0, <1>3 DEF StatsRecord
  <2>2. PICK n \in Nat, k \in Nat :
          n = stats[g].totalClaims + 1 /\ k = stats[g].totalStake + stake
    BY <2>1
  <2>3. next = [stats[g] EXCEPT !.totalClaims = n, !.totalStake = k]
    BY <2>2
  <2> HIDE DEF record, next
  <2>4. /\ next \in StatsRecord
        /\ next.totalClaims = n /\ next.totalStake = k
        /\ next.resolved = stats[g].resolved
        /\ next.rejected = stats[g].rejected /\ next.upheld = stats[g].upheld
    BY <1>0, <2>3 DEF StatsRecord
  <2> QED BY <2>2, <2>4
<1> HIDE DEF record, next
<1>5. /\ claimStatus'[h] = record
      /\ \A i \in Hash \ {h} : claimStatus'[i] = claimStatus[i]
      /\ stats'[g] = next /\ \A a \in Agent \ {g} : stats'[a] = stats[a]
      /\ agentClaims'[g] = Append(agentClaims[g], h)
      /\ \A a \in Agent \ {g} : agentClaims'[a] = agentClaims[a]
      /\ agentClaims[g] \in Seq(Hash)
  BY <1>1, <1>2 DEF RegistryTyped
<1>6. RegistryTyped'
  <2>1. owners' = owners /\ balances' = balances
    BY <1>1 DEF identityVars
  <2>2. claimStatus' \in [Hash -> ClaimRecord] /\ stats' \in [Agent -> StatsRecord]
    BY <1>1, <1>2, <1>3, <1>4 DEF RegistryTyped
  <2>3. agentClaims' \in [Agent -> Seq(Hash)]
    BY <1>1, <1>2, ElementsOfLonger DEF RegistryTyped
  <2>4. \A i \in Hash : claimStatus'[i].agent = 0 => claimStatus'[i] = NoClaim
    BY <1>2, <1>3, <1>5 DEF RegistryTyped
  <2> QED
    BY <1>1, <1>2, <2>1, <2>2, <2>3, <2>4
    DEF RegistryTyped, ClaimRecord, RequestRecord, StatsRecord
<1>7. \A i \in Hash : /\ StakeOf'[i] = claimStatus'[i].stake
                      /\ StakeOf[i] = claimStatus[i].stake
  BY DEF StakeOf
<1>8. claimStatus[h].agent = 0 /\ claimStatus[h].resolved = FALSE
  BY <1>1 DEF NoClaim
<1>9. ASSUME NEW a \in Agent PROVE BookIsKept(a)'
  <2>0. BookIsKept(a) /\ a # 0
    BY DEF RegistryBooks, Agent
  <2>1. /\ ClaimsOf(a) \subseteq Hash /\ IsFiniteSet(ClaimsOf(a))
        /\ \A i \in Hash : StakeOf[i] \in Nat
        /\ h \notin ClaimsOf(a)
    BY <1>2, <1>8, <2>0, BookFacts DEF ClaimsOf
  <2>2. \A c \in BOOLEAN : EndedWith(a, c)' = EndedWith(a, c)
    BY <1>3, <1>5, <1>8 DEF EndedWith, ClaimsOf
  <2>3. CASE a = g
    <3> DEFINE claimed == ClaimsOf(g)
               claimedNow == ClaimsOf(g)'
    <3>1. claimedNow = claimed \cup {h}
      BY <1>3, <1>5 DEF ClaimsOf
    <3>2. claimed \subseteq Hash /\ IsFiniteSet(claimed) /\ h \notin claimed
      BY <2>1, <2>3
    <3>3. /\ Cardinality(claimed) = stats[g].totalClaims
          /\ SumFunctionOnSet(StakeOf, claimed) = stats[g].totalStake
          /\ ToSet(agentClaims[g]) = claimed
          /\ Len(agentClaims[g]) = Cardinality(claimed)
      BY <2>0, <2>3 DEF BookIsKept
    <3> HIDE DEF claimed, claimedNow
    <3>4. IsFiniteSet(claimedNow) /\ Cardinality(claimedNow) = Cardinality(claimed) + 1
      BY <3>1, <3>2, FS_AddElement
    <3>5. SumFunctionOnSet(StakeOf', claimedNow) = stake + SumFunctionOnSet(StakeOf, claimed)
      <4>1. \A i \in claimedNow : StakeOf'[i] \in Int
        BY <1>3, <1>5, <1>7, <2>1, <3>1, <3>2
      <4>2. claimedNow \ {h} = claimed /\ h \in claimedNow
        BY <3>1, <3>2
      <4>3. StakeOf'[h] = stake
        BY <1>3, <1>5, <1>7
      <4>4. SumFunctionOnSet(StakeOf', claimedNow) = stake + SumFunctionOnSet(StakeOf', claimed)
        BY <3>4, <4>1, <4>2, <4>3, SumSplit
      <4>5. \A i \in claimed : StakeOf'[i] = StakeOf[i]
        BY <1>5, <1>7, <3>2
      <4>6. SumFunctionOnSet(StakeOf', claimed) = SumFunctionOnSet(StakeOf, claimed)
        BY <3>2, <4>5, SumSame
      <4> QED BY <4>4, <4>6
    <3>6. /\ Len(agentClaims'[g]) = Len(agentClaims[g]) + 1
          /\ ToSet(agentClaims'[g]) = claimedNow
      <4>1. /\ Len(Append(agentClaims[g], h)) = Len(agentClaims[g]) + 1
            /\ DOMAIN Append(agentClaims[g], h) = 1 .. Len(agentClaims[g]) + 1
            /\ DOMAIN agentClaims[g] = 1 .. Len(agentClaims[g])
            /\ Len(agentClaims[g]) \in Nat
            /\ \A i \in 1 .. Len(agentClaims[g]) :
                 Append(agentClaims[g], h)[i] = agentClaims[g][i]
            /\ Append(agentClaims[g], h)[Len(agentClaims[g]) + 1] = h
        BY <1>5, ElementsOfSeq, ElementsOfLonger
      <4>2. ToSet(Append(agentClaims[g], h)) = ToSet(agentClaims[g]) \cup {h}
        BY <4>1 DEF ToSet
      <4> QED BY <1>5, <3>1, <3>3, <4>1, <4>2
    <3>7. SumFunctionOnSet(StakeOf, claimed) \in Nat
      BY <2>1, <3>2, SumNat
    <3>8. /\ stats'[g].totalClaims = Cardinality(claimedNow)
          /\ stats'[g].totalStake = SumFunctionOnSet(StakeOf', claimedNow)
          /\ Len(agentClaims'[g]) = Cardinality(claimedNow)
      BY <1>3, <1>4, <1>5, <3>3, <3>4, <3>5, <3>6, <3>7
    <3>9. /\ stats'[g].rejected = stats[g].rejected /\ stats'[g].upheld = stats[g].upheld
          /\ stats'[g].resolved = stats[g].resolved
      BY <1>4, <1>5
    <3>10. /\ stats'[g].rejected = Cardinality(EndedWith(g, TRUE)')
           /\ stats'[g].upheld = Cardinality(EndedWith(g, FALSE)')
           /\ stats'[g].resolved = stats'[g].rejected + stats'[g].upheld
      BY <2>0, <2>2, <2>3, <3>9 DEF BookIsKept
    <3> QED BY <2>3, <3>6, <3>8, <3>10 DEF BookIsKept, claimedNow
  <2>4. CASE a # g
    <3>1. ClaimsOf(a)' = ClaimsOf(a)
      BY <1>3, <1>5, <1>8, <2>0, <2>4 DEF ClaimsOf
    <3>2. stats'[a] = stats[a] /\ agentClaims'[a] = agentClaims[a]
      BY <1>5, <2>4
    <3>3. \A i \in ClaimsOf(a) : StakeOf[i] = StakeOf'[i]
      BY <1>5, <1>7, <2>1
    <3>4. SumFunctionOnSet(StakeOf, ClaimsOf(a)) = SumFunctionOnSet(StakeOf', ClaimsOf(a))
      BY <2>1, <3>3, SumSame
    <3> QED BY <2>0, <2>2, <3>1, <3>2, <3>4 DEF BookIsKept
  <2> QED BY <2>3, <2>4
<1>10. \A a \in Account : BalanceIsKept(a)'
  BY <1>1, BalancesStand DEF RegistryBooks
<1> QED BY <1>6, <1>9, <1>10 DEF RegistryBooks

LEMMA ResolutionKeepsBooks ==
  ASSUME RegistryBooks, NEW sender, NEW h \in Hash, NEW confirmed \in BOOLEAN,
         RecordResolution(sender, h, confirmed)
  PROVE  RegistryBooks'
<1>1. RegistryTyped /\ claimStatus[h] \in ClaimRecord
      /\ claimStatus[h].agent # 0 /\ claimStatus[h].resolved = FALSE
  BY DEF RegistryBooks, RegistryTyped, RecordResolution, ClaimRecord
<1>2. PICK g \in Agent : g = claimStatus[h].agent
  <2>1. claimStatus[h].agent \in DOMAIN owners /\ owners \in Seq(Account)
        /\ Len(owners) <= MaxAgents
    BY <1>1 DEF RegistryTyped, ClaimRecord
  <2>2. DOMAIN owners = 1 .. Len(owners) /\ Len(owners) \in Nat
    BY <2>1, ElementsOfSeq
  <2> QED BY <2>1, <2>2, RegistryFacts DEF Agent
<1> DEFINE record == [claimStatus[h] EXCEPT !.resolved = TRUE, !.confirmed = confirmed]
           rejected == IF confirmed THEN stats[g].rejected + 1 ELSE stats[g].rejected
           upheld == IF confirmed THEN stats[g].upheld ELSE stats[g].upheld + 1
           next == [stats[g] EXCEPT !.resolved = stats[g].resolved + 1,
                                    !.rejected = rejected, !.upheld = upheld]
<1>0. stats \in [Agent -> StatsRecord] /\ stats[g] \in StatsRecord
  BY <1>1 DEF RegistryTyped
<1>3. /\ claimStatus' = [claimStatus EXCEPT ![h] = record]
      /\ stats' = [stats EXCEPT ![g] = next]
      /\ UNCHANGED <<identityVars, agentClaims, validations, responses>>
  <2>1. /\ claimStatus' = [claimStatus EXCEPT ![h].resolved = TRUE, ![h].confirmed = confirmed]
        /\ stats' = [stats EXCEPT ![g] = next]
        /\ UNCHANGED <<identityVars, agentClaims, validations, responses>>
    BY <1>0, <1>2 DEF RecordResolution
  <2>2. claimStatus' = [claimStatus EXCEPT ![h] = record]
    BY <1>1, <2>1 DEF RegistryTyped
  <2> QED BY <2>1, <2>2
<1>4. /\ record \in ClaimRecord /\ record.agent = g
      /\ record.stake = claimStatus[h].stake
      /\ record.resolved = TRUE /\ record.confirmed = confirmed
  BY <1>1, <1>2 DEF ClaimRecord
<1>5. /\ next \in StatsRecord
      /\ next.totalClaims = stats[g].totalClaims
      /\ next.totalStake = stats[g].totalStake
      /\ next.resolved = stats[g].resolved + 1
      /\ next.rejected = IF confirmed THEN stats[g].rejected + 1 ELSE stats[g].rejected
      /\ next.upheld = IF confirmed THEN stats[g].upheld ELSE stats[g].upheld + 1
      /\ stats[g] \in StatsRecord
  <2>1. /\ stats[g].resolved + 1 \in Nat /\ rejected \in Nat /\ upheld \in Nat
    BY <1>0 DEF StatsRecord
  <2>2. stats[g] \in StatsRecord
    BY <1>0
  <2> HIDE DEF record
  <2>3. /\ next \in StatsRecord
        /\ next.totalClaims = stats[g].totalClaims
        /\ next.totalStake = stats[g].totalStake
        /\ next.resolved = stats[g].resolved + 1
        /\ next.rejected = rejected /\ next.upheld = upheld
    <3>1. PICK n \in Nat, k \in Nat, l \in Nat :
            n = stats[g].resolved + 1 /\ k = rejected /\ l = upheld
      BY <2>1
    <3>2. next = [stats[g] EXCEPT !.resolved = n, !.rejected = k, !.upheld = l]
      BY <3>1
    <3> HIDE DEF rejected, upheld, next
    <3>3. /\ next \in StatsRecord
          /\ next.totalClaims = stats[g].totalClaims
          /\ next.totalStake = stats[g].totalStake
          /\ next.resolved = n /\ next.rejected = k /\ next.upheld = l
      BY <2>2, <3>2 DEF StatsRecord
    <3> QED BY <3>1, <3>3
  <2> QED BY <2>2, <2>3
<1> HIDE DEF record, next
<1>6. /\ claimStatus'[h] = record
      /\ \A i \in Hash \ {h} : claimStatus'[i] = claimStatus[i]
      /\ stats'[g] = next /\ \A a \in Agent \ {g} : stats'[a] = stats[a]
      /\ agentClaims' = agentClaims
  BY <1>1, <1>3 DEF RegistryTyped
<1>7. RegistryTyped'
  <2>1. owners' = owners /\ balances' = balances
    BY <1>3 DEF identityVars
  <2>2. claimStatus' \in [Hash -> ClaimRecord] /\ stats' \in [Agent -> StatsRecord]
    BY <1>1, <1>3, <1>4, <1>5 DEF RegistryTyped
  <2>3. \A i \in Hash : claimStatus'[i].agent = 0 => claimStatus'[i] = NoClaim
    BY <1>1, <1>2, <1>4, <1>6 DEF RegistryTyped
  <2> QED
    BY <1>1, <1>3, <2>1, <2>2, <2>3
    DEF RegistryTyped, ClaimRecord, RequestRecord, StatsRecord
<1>8. \A a : ClaimsOf(a)' = ClaimsOf(a)
  BY <1>2, <1>4, <1>6 DEF ClaimsOf
<1>9. \A i \in Hash : StakeOf'[i] = StakeOf[i]
  BY <1>4, <1>6 DEF StakeOf
<1>10. ASSUME NEW a \in Agent PROVE BookIsKept(a)'
  <2>1. BookIsKept(a) /\ ClaimsOf(a) \subseteq Hash /\ IsFiniteSet(ClaimsOf(a))
        /\ \A c \in BOOLEAN : IsFiniteSet(EndedWith(a, c))
    BY <1>1, BookFacts DEF RegistryBooks
  <2>2. SumFunctionOnSet(StakeOf, ClaimsOf(a)) = SumFunctionOnSet(StakeOf', ClaimsOf(a))
    BY <1>9, <2>1, SumSame
  <2>3. stats'[a].totalClaims = stats[a].totalClaims
        /\ stats'[a].totalStake = stats[a].totalStake
    BY <1>5, <1>6
  <2>4. CASE a = g
    <3> DEFINE ended == EndedWith(g, confirmed)
               endedNow == EndedWith(g, confirmed)'
    <3>1. endedNow = ended \cup {h} /\ h \notin ended
      BY <1>1, <1>2, <1>4, <1>6, <1>8 DEF EndedWith, ClaimsOf
    <3>2. EndedWith(g, ~confirmed)' = EndedWith(g, ~confirmed)
      BY <1>1, <1>2, <1>4, <1>6, <1>8 DEF EndedWith, ClaimsOf
    <3>3. IsFiniteSet(ended)
      BY <2>1, <2>4
    <3> HIDE DEF ended, endedNow
    <3>4. Cardinality(endedNow) = Cardinality(ended) + 1
      BY <3>1, <3>3, FS_AddElement
    <3>5. /\ stats'[g].rejected = Cardinality(EndedWith(g, TRUE)')
          /\ stats'[g].upheld = Cardinality(EndedWith(g, FALSE)')
      <4>1. /\ stats[g].rejected = Cardinality(EndedWith(g, TRUE))
            /\ stats[g].upheld = Cardinality(EndedWith(g, FALSE))
        BY <2>1, <2>4 DEF BookIsKept
      <4>2. CASE confirmed = TRUE
        BY <1>5, <1>6, <3>2, <3>4, <4>1, <4>2 DEF ended, endedNow
      <4>3. CASE confirmed = FALSE
        BY <1>5, <1>6, <3>2, <3>4, <4>1, <4>3 DEF ended, endedNow
      <4> QED BY <4>2, <4>3
    <3>6. stats'[g].resolved = stats'[g].rejected + stats'[g].upheld
      <4>1. stats[g].resolved = stats[g].rejected + stats[g].upheld
        BY <2>1, <2>4 DEF BookIsKept
      <4> QED BY <1>5, <1>6, <4>1 DEF StatsRecord
    <3> QED BY <1>6, <1>8, <2>1, <2>2, <2>3, <2>4, <3>5, <3>6 DEF BookIsKept
  <2>5. CASE a # g
    <3>1. \A c \in BOOLEAN : EndedWith(a, c)' = EndedWith(a, c)
      BY <1>2, <1>4, <1>6, <1>8, <2>5 DEF EndedWith, ClaimsOf
    <3>2. stats'[a] = stats[a]
      BY <1>6, <2>5
    <3> QED BY <1>6, <1>8, <2>1, <2>2, <3>1, <3>2 DEF BookIsKept
  <2> QED BY <2>4, <2>5
<1>11. \A a \in Account : BalanceIsKept(a)'
  BY <1>3, BalancesStand DEF RegistryBooks
<1> QED BY <1>7, <1>10, <1>11 DEF RegistryBooks

LEMMA RequestKeepsBooks ==
  ASSUME RegistryBooks, NEW sender, NEW validator \in Account, NEW g \in Agent,
         NEW h \in Hash, ValidationRequest(sender, validator, g, h)
  PROVE  RegistryBooks'
<1> DEFINE record == [NoRequest EXCEPT !.validator = validator, !.agent = g]
<1>1. /\ UNCHANGED <<identityVars, reputationVars, responses>>
      /\ validations' = [validations EXCEPT ![h] = record]
      /\ RegistryTyped
  BY DEF ValidationRequest, RegistryBooks
<1>2. g \in DOMAIN owners /\ g # 0
  BY <1>1, SpeakerFacts DEF ValidationRequest
<1>3. record \in RequestRecord /\ record.agent = g
  <2>1. NoRequest \in RequestRecord
    BY DEF NoRequest, RequestRecord
  <2>2. PICK r \in RequestRecord : r = NoRequest
    BY <2>1
  <2>3. record = [r EXCEPT !.validator = validator, !.agent = g]
    BY <2>2
  <2> HIDE DEF record
  <2> QED BY <1>2, <2>3 DEF RequestRecord
<1> HIDE DEF record
<1>4. RegistryTyped'
  <2>1. owners' = owners /\ balances' = balances
        /\ claimStatus' = claimStatus /\ stats' = stats /\ agentClaims' = agentClaims
    BY <1>1 DEF identityVars, reputationVars
  <2>2. validations' \in [Hash -> RequestRecord]
        /\ \A i \in Hash : validations'[i].agent = 0 => validations'[i] = NoRequest
    BY <1>1, <1>2, <1>3 DEF RegistryTyped
  <2> QED
    BY <1>1, <2>1, <2>2 DEF RegistryTyped, ClaimRecord, RequestRecord, StatsRecord
<1> QED BY <1>1, <1>4, BooksStand, BalancesStand DEF RegistryBooks

LEMMA ResponseKeepsBooks ==
  ASSUME RegistryBooks, NEW sender, NEW h \in Hash, NEW response \in Response,
         ValidationResponse(sender, h, response)
  PROVE  RegistryBooks'
<1> DEFINE record == [validations[h] EXCEPT !.response = response, !.answered = TRUE]
<1>1. RegistryTyped /\ validations[h] \in RequestRecord /\ validations[h].agent # 0
  BY DEF ValidationResponse, RegistryBooks, RegistryTyped
<1>2. /\ UNCHANGED <<identityVars, reputationVars>>
      /\ validations' = [validations EXCEPT ![h] = record]
      /\ response \in 0 .. 100 /\ responses' \in 0 .. MaxResponses
  <2>1. /\ UNCHANGED <<identityVars, reputationVars>>
        /\ validations' = [validations EXCEPT ![h].response = response, ![h].answered = TRUE]
        /\ response <= 100 /\ responses < MaxResponses /\ responses' = responses + 1
    BY DEF ValidationResponse
  <2>2. response \in 0 .. 100 /\ responses' \in 0 .. MaxResponses
    <3>1. responses \in 0 .. MaxResponses
      BY <1>1 DEF RegistryTyped
    <3>2. response \in Nat
      BY RegistryFacts
    <3>3. responses' \in 0 .. MaxResponses
      BY <2>1, <3>1, RegistryFacts
    <3> QED BY <2>1, <3>2, <3>3
  <2>3. validations' = [validations EXCEPT ![h] = record]
    BY <1>1, <2>1 DEF RegistryTyped
  <2> QED BY <2>1, <2>2, <2>3
<1>3. record \in RequestRecord /\ record.agent # 0
  BY <1>1, <1>2 DEF RequestRecord
<1> HIDE DEF record
<1>4. RegistryTyped'
  <2>1. owners' = owners /\ balances' = balances
        /\ claimStatus' = claimStatus /\ stats' = stats /\ agentClaims' = agentClaims
    BY <1>2 DEF identityVars, reputationVars
  <2>2. validations' \in [Hash -> RequestRecord]
        /\ \A i \in Hash : validations'[i].agent = 0 => validations'[i] = NoRequest
    BY <1>1, <1>2, <1>3 DEF RegistryTyped
  <2> QED
    BY <1>1, <1>2, <2>1, <2>2 DEF RegistryTyped, ClaimRecord, RequestRecord, StatsRecord
<1> QED BY <1>2, <1>4, BooksStand, BalancesStand DEF RegistryBooks

\* One transaction of anyone.
LEMMA TransactKeepsBooks ==
  ASSUME RegistryBooks, NEW sender \in Account, Transact(sender)
  PROVE  RegistryBooks'
<1>1. CASE \E owner \in Account : RegisterAgent(sender, owner)
  BY <1>1, RegisterKeepsBooks
<1>2. CASE \E g \in Agent, h \in Hash, stake \in Stake : RecordClaim(sender, g, h, stake)
  BY <1>2, RecordClaimKeepsBooks
<1>3. CASE \E g \in Agent, h \in Hash, v \in Account : ValidationRequest(sender, v, g, h)
  BY <1>3, RequestKeepsBooks
<1>4. CASE \E h \in Hash, confirmed \in BOOLEAN : RecordResolution(sender, h, confirmed)
  BY <1>4, ResolutionKeepsBooks
<1>5. CASE \E h \in Hash, response \in Response : ValidationResponse(sender, h, response)
  BY <1>5, ResponseKeepsBooks
<1> QED BY <1>1, <1>2, <1>3, <1>4, <1>5 DEF Transact

\* What a transaction leaves alone of what is recorded.
RecordsStand ==
  /\ responses' \in Nat /\ responses \in Nat /\ responses <= responses'
  /\ \A h \in Hash :
       /\ claimStatus[h].agent # 0 => claimStatus'[h].agent = claimStatus[h].agent
       /\ claimStatus[h] # NoClaim /\ claimStatus[h].resolved
            => claimStatus'[h] = claimStatus[h]
       /\ validations[h].agent # 0 => validations'[h].agent = validations[h].agent
       /\ \/ validations'[h].response = validations[h].response
          \/ responses < responses'

LEMMA TransactLeavesRecords ==
  ASSUME RegistryTyped, NEW sender \in Account, Transact(sender)
  PROVE  RecordsStand
<1>0. responses \in Nat /\ claimStatus \in [Hash -> ClaimRecord]
      /\ validations \in [Hash -> RequestRecord]
  BY RegistryFacts DEF RegistryTyped
<1>1. CASE \E owner \in Account : RegisterAgent(sender, owner)
  BY <1>0, <1>1 DEF RegisterAgent, RecordsStand, reputationVars
<1>2. ASSUME NEW g \in Agent, NEW h \in Hash, NEW stake \in Stake,
             RecordClaim(sender, g, h, stake)
      PROVE  RecordsStand
  <2>1. validations' = validations /\ responses' = responses
        /\ claimStatus[h] = NoClaim /\ claimStatus[h].agent = 0
    BY <1>2 DEF RecordClaim, NoClaim
  <2>2. \A i \in Hash \ {h} : claimStatus'[i] = claimStatus[i]
    BY <1>0, <1>2 DEF RecordClaim
  <2> QED BY <1>0, <2>1, <2>2 DEF RecordsStand
<1>3. ASSUME NEW g \in Agent, NEW h \in Hash, NEW v \in Account,
             ValidationRequest(sender, v, g, h)
      PROVE  RecordsStand
  <2>1. claimStatus' = claimStatus /\ responses' = responses
    BY <1>3 DEF ValidationRequest, reputationVars
  <2>2. /\ \A i \in Hash \ {h} : validations'[i] = validations[i]
        /\ validations[h].agent = 0
        /\ validations'[h].response = validations[h].response
    BY <1>0, <1>3 DEF ValidationRequest, NoRequest
  <2> QED BY <1>0, <2>1, <2>2 DEF RecordsStand
<1>4. ASSUME NEW h \in Hash, NEW confirmed \in BOOLEAN,
             RecordResolution(sender, h, confirmed)
      PROVE  RecordsStand
  <2>1. validations' = validations /\ responses' = responses /\ ~claimStatus[h].resolved
    BY <1>4 DEF RecordResolution
  <2>2. /\ \A i \in Hash \ {h} : claimStatus'[i] = claimStatus[i]
        /\ claimStatus'[h].agent = claimStatus[h].agent
    <3>1. claimStatus[h] \in ClaimRecord
      BY <1>0
    <3> QED BY <1>0, <1>4, <3>1 DEF RecordResolution, ClaimRecord
  <2> QED BY <1>0, <2>1, <2>2 DEF RecordsStand
<1>5. ASSUME NEW h \in Hash, NEW response \in Response,
             ValidationResponse(sender, h, response)
      PROVE  RecordsStand
  <2>1. claimStatus' = claimStatus /\ responses' = responses + 1
    BY <1>5 DEF ValidationResponse, reputationVars
  <2>2. /\ \A i \in Hash \ {h} : validations'[i] = validations[i]
        /\ validations'[h].agent = validations[h].agent
    <3>1. validations[h] \in RequestRecord
      BY <1>0
    <3> QED BY <1>0, <1>5, <3>1 DEF ValidationResponse, RequestRecord
  <2> QED BY <1>0, <2>1, <2>2 DEF RecordsStand
<1> QED BY <1>1, <1>2, <1>3, <1>4, <1>5 DEF Transact

LEMMA WritesStand ==
  ASSUME RegistryTyped, WritesAreKept, RecordsStand, UNCHANGED bridge
  PROVE  WritesAreKept'
<1>1. CASE bridge.call \notin {"claim", "resolution", "request", "response"}
  BY <1>1 DEF WritesAreKept
<1>2. CASE bridge.call = "claim"
  <2>1. /\ bridge.hash \in Hash /\ bridge.value \in Agent
        /\ claimStatus[bridge.hash].agent = bridge.value /\ bridge.value # 0
    BY <1>2 DEF WritesAreKept, Agent
  <2>2. claimStatus'[bridge.hash].agent = bridge.value
    BY <2>1 DEF RecordsStand
  <2> QED BY <1>2, <2>1, <2>2 DEF WritesAreKept
<1>3. CASE bridge.call = "resolution"
  <2>1. /\ bridge.hash \in Hash /\ claimStatus[bridge.hash] # NoClaim
        /\ claimStatus[bridge.hash].resolved
        /\ claimStatus[bridge.hash].confirmed <=> bridge.value = 1
    BY <1>3 DEF WritesAreKept
  <2>2. claimStatus'[bridge.hash] = claimStatus[bridge.hash]
    BY <2>1 DEF RecordsStand
  <2> QED BY <1>3, <2>1, <2>2 DEF WritesAreKept, NoClaim
<1>4. CASE bridge.call = "request"
  <2>1. /\ bridge.hash \in Hash /\ bridge.value # 0
        /\ validations[bridge.hash].agent = bridge.value
    BY <1>4 DEF WritesAreKept
  <2>2. validations'[bridge.hash].agent = bridge.value
    BY <2>1 DEF RecordsStand
  <2> QED BY <1>4, <2>1, <2>2 DEF WritesAreKept
<1>5. CASE bridge.call = "response"
  <2>1. /\ bridge.hash \in Hash /\ responses > 0
        /\ validations[bridge.hash].response = bridge.value \/ responses > 1
    BY <1>5 DEF WritesAreKept
  <2>2. /\ responses' > 0
        /\ validations'[bridge.hash].response = bridge.value \/ responses' > 1
    BY <2>1 DEF RecordsStand
  <2> QED BY <1>5, <2>1, <2>2 DEF WritesAreKept
<1> QED BY <1>1, <1>2, <1>3, <1>4, <1>5 DEF WritesAreKept

\* A bridge's own transaction, right after it was mined.
LEMMA SubmitKeepsCore ==
  ASSUME RegistryBooks, NEW sender \in Account, BridgeSubmits(sender)
  PROVE  RegistryCore'
<1>0. RegistryTyped /\ claimStatus \in [Hash -> ClaimRecord]
      /\ validations \in [Hash -> RequestRecord] /\ responses \in Nat
  BY RegistryFacts DEF RegistryBooks, RegistryTyped
<1>1. ASSUME NEW g \in Agent, NEW h \in Hash, NEW stake \in Stake,
             SubmitClaim(sender, g, h, stake)
      PROVE  RegistryCore'
  <2>1. RegistryBooks'
    BY <1>1, RecordClaimKeepsBooks DEF SubmitClaim
  <2>2. bridge' = [call |-> "claim", hash |-> h, value |-> g]
    BY <1>1 DEF SubmitClaim, Wait
  <2>3. claimStatus'[h].agent = g
    BY <1>0, <1>1 DEF SubmitClaim, RecordClaim, NoClaim
  <2> QED BY <2>1, <2>2, <2>3 DEF RegistryCore, WritesAreKept
<1>2. ASSUME NEW g \in Agent, NEW h \in Hash, NEW v \in Account,
             SubmitRequest(sender, v, g, h)
      PROVE  RegistryCore'
  <2>1. RegistryBooks'
    BY <1>2, RequestKeepsBooks DEF SubmitRequest
  <2>2. bridge' = [call |-> "request", hash |-> h, value |-> g]
    BY <1>2 DEF SubmitRequest, Wait
  <2>3. validations'[h].agent = g /\ g # 0
    BY <1>0, <1>2 DEF SubmitRequest, ValidationRequest, NoRequest, Agent
  <2> QED BY <2>1, <2>2, <2>3 DEF RegistryCore, WritesAreKept
<1>3. ASSUME NEW h \in Hash, NEW confirmed \in BOOLEAN, SubmitResolution(h, confirmed)
      PROVE  RegistryCore'
  <2>1. RegistryBooks'
    BY <1>3, ResolutionKeepsBooks DEF SubmitResolution
  <2>2. bridge' = [call |-> "resolution", hash |-> h, value |-> IF confirmed THEN 1 ELSE 0]
    BY <1>3 DEF SubmitResolution, Wait
  <2>3. claimStatus[h] \in ClaimRecord /\ claimStatus[h].agent # 0
    BY <1>0, <1>3 DEF SubmitResolution, RecordResolution, RegistryTyped
  <2>4. claimStatus'[h].resolved = TRUE /\ claimStatus'[h].confirmed = confirmed
        /\ claimStatus'[h].agent # 0
    BY <1>0, <1>3, <2>3 DEF SubmitResolution, RecordResolution, ClaimRecord
  <2>5. claimStatus'[h] # NoClaim
    BY <2>4 DEF NoClaim
  <2>6. claimStatus'[h].confirmed <=> bridge'.value = 1
    BY <2>2, <2>4
  <2>7. bridge'.call = "resolution" /\ bridge'.hash = h
    BY <2>2
  <2> QED BY <2>1, <2>4, <2>5, <2>6, <2>7 DEF RegistryCore, WritesAreKept, NoClaim
<1>4. ASSUME NEW h \in Hash, NEW response \in Response,
             SubmitResponse(sender, h, response)
      PROVE  RegistryCore'
  <2>1. RegistryBooks'
    BY <1>4, ResponseKeepsBooks DEF SubmitResponse
  <2>2. bridge' = [call |-> "response", hash |-> h, value |-> response]
    BY <1>4 DEF SubmitResponse, Wait
  <2>3. validations'[h].response = response /\ responses' > 0
    <3>1. validations[h] \in RequestRecord
      BY <1>0
    <3> QED
      BY <1>0, <1>4, <3>1 DEF SubmitResponse, ValidationResponse, RequestRecord
  <2> QED BY <2>1, <2>2, <2>3 DEF RegistryCore, WritesAreKept
<1> QED BY <1>1, <1>2, <1>3, <1>4, RegistryFacts DEF BridgeSubmits

LEMMA RegistryCoreInductive ==
  RegistryCore /\ [RegistryNext]_registryVars => RegistryCore'
<1> SUFFICES ASSUME RegistryCore, [RegistryNext]_registryVars PROVE RegistryCore'
  OBVIOUS
<1>0. RegistryBooks /\ RegistryTyped /\ WritesAreKept
  BY DEF RegistryCore, RegistryBooks
<1>1. ASSUME NEW sender \in Account, Transact(sender), UNCHANGED bridge
      PROVE  RegistryCore'
  BY <1>0, <1>1, TransactKeepsBooks, TransactLeavesRecords, WritesStand DEF RegistryCore
<1>2. ASSUME NEW sender \in Account, BridgeSubmits(sender)
      PROVE  RegistryCore'
  BY <1>0, <1>2, SubmitKeepsCore
<1>3. CASE UNCHANGED <<identityVars, reputationVars, validations, responses>>
           /\ (bridge' = Idle \/ UNCHANGED bridge)
  <2>1. RegistryTyped'
    BY <1>0, <1>3
    DEF RegistryTyped, ClaimRecord, RequestRecord, StatsRecord, identityVars, reputationVars
  <2>2. RegistryBooks'
    BY <1>0, <1>3, <2>1, BooksStand, BalancesStand DEF RegistryBooks
  <2>3. WritesAreKept'
    BY <1>0, <1>3 DEF WritesAreKept, Idle, NoClaim, identityVars, reputationVars
  <2> QED BY <2>2, <2>3 DEF RegistryCore
<1>4. CASE ReadBack
  BY <1>3, <1>4 DEF ReadBack
<1>5. CASE UNCHANGED registryVars
  BY <1>3, <1>5 DEF registryVars, identityVars, reputationVars
<1> QED BY <1>1, <1>2, <1>4, <1>5 DEF RegistryNext

\* A mean of responses lies between them, and so does its floor.
LEMMA AverageBetween ==
  ASSUME RegistryTyped, NEW g \in Agent, NEW validators,
         Counted(g, validators) # {}
  PROVE  /\ SummaryAverage(g, validators) \in 0 .. 100
         /\ \E h \in Counted(g, validators) :
              validations[h].response <= SummaryAverage(g, validators)
         /\ \E h \in Counted(g, validators) :
              SummaryAverage(g, validators) <= validations[h].response
<1> DEFINE S == Counted(g, validators)
           total == SumFunctionOnSet(ResponseOf, S)
           n == Cardinality(S)
           mean == total \div n
<1>1. S \subseteq Hash /\ IsFiniteSet(S) /\ S # {}
  <2>1. S \subseteq Hash
    BY DEF Counted
  <2> HIDE DEF S
  <2> QED BY <2>1, RegistryFacts, FS_Subset DEF S
<1>2. SummaryAverage(g, validators) = mean % 2^8
  BY DEF SummaryAverage
<1>3. \A h \in S : ResponseOf[h] = validations[h].response /\ ResponseOf[h] \in 0 .. 100
  <2>1. \A h \in Hash : validations[h] \in RequestRecord
    BY DEF RegistryTyped
  <2> QED BY <1>1, <2>1 DEF ResponseOf, RequestRecord
<1> HIDE DEF S
<1>4. n \in Nat \ {0}
  BY <1>1, FS_CardinalityType, FS_EmptySet
<1>5. total \in Nat
  BY <1>1, <1>3, SumNat
<1>6. total <= 100 * n
  <2>1. \A h \in S : ResponseOf[h] \in Int /\ 0 <= ResponseOf[h] /\ ResponseOf[h] <= 100
    BY <1>3
  <2> QED BY <1>1, <2>1, SumBetween
<1> HIDE DEF n, total
<1>7. mean \in 0 .. 100
  BY <1>4, <1>5, <1>6
<1>8. n * mean <= total /\ total < n * (mean + 1)
  BY <1>4, <1>5
<1> HIDE DEF mean
<1>9. ASSUME \A h \in S : mean + 1 <= ResponseOf[h] PROVE FALSE
  <2>0. \A h \in S : /\ ResponseOf[h] \in Int
                     /\ mean + 1 <= ResponseOf[h] /\ ResponseOf[h] <= 100
    BY <1>3, <1>9
  <2>1. (mean + 1) * n <= total
    BY <1>1, <1>7, <2>0, SumBetween DEF n, total
  <2> QED BY <1>4, <1>5, <1>7, <1>8, <2>1
<1>10. ASSUME \A h \in S : ResponseOf[h] <= mean - 1 PROVE FALSE
  <2>0. \A h \in S : /\ ResponseOf[h] \in Int
                     /\ 0 <= ResponseOf[h] /\ ResponseOf[h] <= mean - 1
    BY <1>3, <1>10
  <2>1. total <= (mean - 1) * n
    BY <1>1, <1>7, <2>0, SumBetween DEF n, total
  <2>2. (mean - 1) * n = n * mean - n /\ n * mean \in Int
    BY <1>4, <1>7
  <2> QED BY <1>4, <1>5, <1>8, <2>1, <2>2
<1>11. mean % 2^8 = mean
  BY <1>7
<1>12. (\E h \in S : ResponseOf[h] <= mean) /\ (\E h \in S : mean <= ResponseOf[h])
  <2>1. mean \in Int /\ \A h \in S : ResponseOf[h] \in Int
    BY <1>3, <1>7
  <2>2. \E h \in S : ResponseOf[h] <= mean
    BY <1>9, <2>1
  <2>3. \E h \in S : mean <= ResponseOf[h]
    BY <1>10, <2>1
  <2> QED BY <2>2, <2>3
<1> QED BY <1>2, <1>3, <1>7, <1>11, <1>12 DEF S

LEMMA PercentageFits ==
  ASSUME NEW x \in Nat, NEW y \in Nat \ {0}, x <= y
  PROVE  (x * 100) \div y \in 0 .. 100
OBVIOUS

LEMMA CoreFitsScores ==
  ASSUME RegistryBooks
  PROVE  ScoresFit
<1>0. RegistryTyped
  BY DEF RegistryBooks
<1>1. ASSUME NEW g \in Agent PROVE ReputationScore(g) \in 0 .. 100
  <2>1. /\ stats[g].resolved \in Nat /\ stats[g].rejected \in Nat /\ stats[g].upheld \in Nat
        /\ stats[g].resolved = stats[g].rejected + stats[g].upheld
    <3>1. stats[g] \in StatsRecord
      BY <1>0 DEF RegistryTyped
    <3> QED BY <3>1 DEF RegistryBooks, BookIsKept, StatsRecord
  <2>2. CASE stats[g].resolved = 0
    BY <2>2 DEF ReputationScore
  <2>3. CASE stats[g].resolved # 0
    <3>1. PICK x \in Nat, y \in Nat \ {0} :
            x = stats[g].rejected /\ y = stats[g].resolved /\ x <= y
      BY <2>1, <2>3
    <3>2. (x * 100) \div y \in 0 .. 100
      BY <3>1, PercentageFits
    <3>3. \A score \in 0 .. 100 : score % 2^8 = score
      OBVIOUS
    <3> QED BY <2>3, <3>1, <3>2, <3>3 DEF ReputationScore
  <2> QED BY <2>2, <2>3
<1>2. ASSUME NEW g \in Agent, NEW validators \in SUBSET Account,
             Counted(g, validators) # {}
      PROVE  /\ SummaryAverage(g, validators) \in 0 .. 100
             /\ \E r \in {validations[h].response : h \in Counted(g, validators)} :
                  r <= SummaryAverage(g, validators)
             /\ \E r \in {validations[h].response : h \in Counted(g, validators)} :
                  SummaryAverage(g, validators) <= r
  BY <1>0, <1>2, AverageBetween
<1> QED BY <1>1, <1>2 DEF ScoresFit

LEMMA CoreKeepsInvariant == RegistryCore => RegistryInvariant
<1> SUFFICES ASSUME RegistryCore PROVE RegistryInvariant
  OBVIOUS
<1>0. RegistryBooks /\ RegistryTyped /\ WritesAreKept
  BY DEF RegistryCore, RegistryBooks
<1>1. RegistryTypeOK
  <2>1. \A h \in Hash : claimStatus[h] \in ClaimRecord /\ validations[h] \in RequestRecord
    BY <1>0 DEF RegistryTyped
  <2> QED BY <1>0, <2>1 DEF RegistryTypeOK, RegistryTyped, ClaimRecord, RequestRecord
<1>2. TotalsMatchRecords
  <2>1. \A g \in Agent : BookIsKept(g)
    BY <1>0 DEF RegistryBooks
  <2>2. \A a \in Account : BalanceIsKept(a)
    BY <1>0 DEF RegistryBooks
  <2>3. \A g \in Agent :
          /\ ClaimsOf(g) = {h \in Hash : claimStatus[h].agent = g}
          /\ \A c : EndedWith(g, c) = {h \in {h \in Hash : claimStatus[h].agent = g} :
                      claimStatus[h].resolved /\ claimStatus[h].confirmed = c}
    BY DEF ClaimsOf, EndedWith
  <2> QED
    BY <2>1, <2>2, <2>3 DEF TotalsMatchRecords, BookIsKept, BalanceIsKept, StakeOf
<1>3. ScoresFit
  BY <1>0, CoreFitsScores
<1>4. BridgeReadsItsOwnWrite
  <2>1. CASE bridge.call = "claim"
    <3>1. /\ bridge.hash \in Hash /\ bridge.value \in Agent
          /\ claimStatus[bridge.hash].agent = bridge.value
      BY <1>0, <2>1 DEF WritesAreKept
    <3>2. ToSet(agentClaims[bridge.value]) = ClaimsOf(bridge.value)
      BY <1>0, <3>1 DEF RegistryBooks, BookIsKept
    <3>3. bridge.hash \in ToSet(agentClaims[bridge.value])
      BY <3>1, <3>2 DEF ClaimsOf
    <3> QED BY <2>1, <3>3 DEF BridgeReadsItsOwnWrite, ReadBackAgrees
  <2>2. CASE bridge.call = "resolution"
    BY <1>0, <2>2 DEF WritesAreKept, BridgeReadsItsOwnWrite, ReadBackAgrees
  <2>3. CASE bridge.call = "request"
    BY <1>0, <2>3 DEF WritesAreKept, BridgeReadsItsOwnWrite, ReadBackAgrees
  <2>4. CASE bridge.call = "response"
    BY <1>0, <2>4 DEF WritesAreKept, BridgeReadsItsOwnWrite, ReadBackAgrees
  <2>5. CASE bridge.call \notin {"claim", "resolution", "request", "response"}
    BY <2>5 DEF BridgeReadsItsOwnWrite, ReadBackAgrees
  <2> QED BY <2>1, <2>2, <2>3, <2>4, <2>5
<1> QED BY <1>1, <1>2, <1>3, <1>4 DEF RegistryInvariant

\* The registries' books are right in every run, whatever the order of the
\* calls (recordClaim and recordResolution of ReputationRegistryAdapter.sol,
\* registerAgent of AgentIdentityRegistry.sol, validationRequest and
\* validationResponse of ValidationRegistryAdapter.sol): totals are those of
\* the records, scores and averages fit their uint8, and a bridge reads back
\* what it wrote unless the validator answered again.
THEOREM RegistryBooksAreRight == RegistrySpec => []RegistryInvariant
<1>1. RegistryInit => RegistryCore
  <2>1. RegistryInit => WritesAreKept
    BY DEF RegistryInit, WritesAreKept, Idle
  <2> QED BY <2>1, RegistryInitBooks DEF RegistryCore
<1> QED BY <1>1, RegistryCoreInductive, CoreKeepsInvariant, PTL DEF RegistrySpec
=============================================================================
