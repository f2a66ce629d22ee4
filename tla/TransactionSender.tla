-------------------------- MODULE TransactionSender --------------------------
(***************************************************************************)
(* ProofOfAuditPublisher: how the handlers of the API turn a call into a   *)
(* transaction, wait for its receipt and check the chain afterwards.       *)
(*                                                                         *)
(* Every operation runs through _submit_transaction with the key of one of *)
(* two accounts: read the account's nonce at the latest block, estimate    *)
(* gas, sign, send, wait two minutes.  No lock is held, so the handlers    *)
(* that share an account race for its nonce.  The node, the pool of        *)
(* pending transactions and the contract are the environment: the contract *)
(* is reduced to the stage each operation moves an object from and to      *)
(* (DirectAudit and RequestSettlement hold its rules).                     *)
(***************************************************************************)
EXTENDS Integers, Sequences, FiniteSets, SequencesExt

CONSTANTS
  Handler,        \* the calls the API serves, a retry being a call of its own
  OperationName   \* the operations the calls may make

VARIABLES
  call,           \* call[h]: how far handler h got
  pool,           \* the handlers whose transaction waits in the node's pool
  mined,          \* mined[a]: the handlers whose transactions account a mined
  world           \* the stage of each object of the contract

senderVars == <<call, pool, mined, world>>

Payer == {"publisher", "challenger"}
Object == {"new", "audit", "claim", "settlement"}

\* A row for an operation: the account that signs it, the object it moves and
\* the stages it moves it from and to, how often the result is read back from
\* the contract (0: never), and whether that read compares the stage the object
\* is in now with the one the call moved it to.  The events of an executed
\* call are in its receipt, so the checks of their presence and arguments hold.
Row(payer, object, from, to, reads, stageNow) ==
  [payer |-> payer, object |-> object, from |-> from, to |-> to,
   reads |-> reads, stageNow |-> stageNow]

\* A publication and a request open a record of their own ("new" has one
\* stage only).  A published record is read back four times before the call
\* gives up, every other result once.
VerificationAttempts == 4
PublishAudit == Row("publisher", "new", 0, 0, VerificationAttempts, FALSE)
ChallengeAudit == Row("challenger", "audit", 0, 1, 1, TRUE)
ResolveChallenge == Row("publisher", "audit", 1, 2, 1, TRUE)
CreateAuditRequest == Row("publisher", "new", 0, 0, 1, FALSE)

\* An identity claims a request once; the new claim is read by its own id.
SubmitAuditRequestClaim == Row("publisher", "claim", 0, 1, 1, FALSE)
ChallengeAuditRequestClaim == Row("publisher", "claim", 1, 2, 1, TRUE)
ResolveAuditRequestClaimChallenge == Row("publisher", "claim", 2, 3, 1, TRUE)

\* The settlement calls trust the receipt and its event.
ClassifyAuditRequestClaims == Row("publisher", "settlement", 0, 1, 0, FALSE)
FinalizeAuditRequestSettlement == Row("publisher", "settlement", 1, 2, 0, FALSE)
WithdrawAuditRequestClaimSettlement == Row("publisher", "settlement", 2, 3, 0, FALSE)
WithdrawAuditRequestRefund == Row("publisher", "settlement", 3, 4, 0, FALSE)

Operation ==
  [publish |-> PublishAudit, challenge |-> ChallengeAudit,
   resolve |-> ResolveChallenge, request |-> CreateAuditRequest,
   claim |-> SubmitAuditRequestClaim,
   challengeClaim |-> ChallengeAuditRequestClaim,
   resolveClaim |-> ResolveAuditRequestClaimChallenge,
   classify |-> ClassifyAuditRequestClaims,
   finalize |-> FinalizeAuditRequestSettlement,
   withdraw |-> WithdrawAuditRequestClaimSettlement,
   refund |-> WithdrawAuditRequestRefund]

ASSUME OperationAssumption == OperationName \subseteq DOMAIN Operation
ASSUME HandlerAssumption == IsFiniteSet(Handler)

Answer == {"done", "reverted", "failed", "timed out", "inconsistent"}
Step == {"idle", "priced", "signed", "sent", "confirmed"} \cup Answer

\* "seen" is history: what the account had mined when the nonce was read.
NoCall ==
  [op |-> "none", step |-> "idle", nonce |-> 0, seen |-> {}, status |-> "none",
   reads |-> 0]

\* The calls find the objects of the contract in some stage.
SenderInit ==
  /\ call = [h \in Handler |-> NoCall]
  /\ pool = {}
  /\ mined = [a \in Payer |-> <<>>]
  /\ \E s \in 0 .. 3 : world = [o \in Object |-> IF o = "new" THEN 0 ELSE s]

Op(h) == Operation[call[h].op]
PayerOf(h) == Op(h).payer
Allowed(h) == world[Op(h).object] = Op(h).from

MoveTo(h, step) == call' = [call EXCEPT ![h].step = step]

\* Mutant: the pending transactions are counted as well.
MutatedNonce(account) ==
  Len(mined[account])
    + Cardinality({h \in pool : Operation[call[h].op].payer = account})

\* The nonce is the number of the account's mined transactions: those that
\* still wait in the pool are not counted.
Nonce(account) == Len(mined[account])

\* The nonce the chain takes next.
NextNonce(account) == Len(mined[account])

BeginCall(h, op) ==
  /\ call[h].step = "idle"
  /\ LET payer == Operation[op].payer
     IN call' = [call EXCEPT ![h] =
          [NoCall EXCEPT !.op = op, !.step = "priced",
                         !.nonce = Nonce(payer),
                         !.seen = ToSet(mined[payer]),
                         !.reads = Operation[op].reads]]
  /\ UNCHANGED <<pool, mined, world>>

\* The estimate runs the call against the latest state; a call the contract
\* would reject is never signed.  A node that fails ends the call as well.
EstimateAndSign(h) ==
  /\ call[h].step = "priced"
  /\ \/ Allowed(h) /\ MoveTo(h, "signed")
     \/ ~Allowed(h) /\ MoveTo(h, "reverted")
     \/ MoveTo(h, "failed")
  /\ UNCHANGED <<pool, mined, world>>

\* The pending transactions that claim the same nonce of the same account.
Rivals(h) ==
  {k \in pool : PayerOf(k) = PayerOf(h) /\ call[k].nonce = call[h].nonce}

\* The node takes the transaction, in place of a rival when it pays enough
\* more; or refuses it (nonce too low, already known, underpriced); or takes
\* it and its answer is lost, which the handler cannot tell from a refusal.
SendRawTransaction(h) ==
  /\ call[h].step = "signed"
  /\ \/ /\ call[h].nonce >= NextNonce(PayerOf(h))
        /\ pool' = (pool \ Rivals(h)) \cup {h}
        /\ MoveTo(h, "sent") \/ MoveTo(h, "failed")
     \/ /\ MoveTo(h, "failed")
        /\ UNCHANGED pool
  /\ UNCHANGED <<mined, world>>

\* The chain includes the transaction that has the account's next nonce and
\* executes it in the state of that moment.
Mine(h) ==
  /\ h \in pool
  /\ call[h].nonce = NextNonce(PayerOf(h))
  /\ pool' = pool \ {h}
  /\ mined' = [mined EXCEPT ![PayerOf(h)] = Append(@, h)]
  /\ world' = IF Allowed(h) THEN [world EXCEPT ![Op(h).object] = Op(h).to]
                            ELSE world
  /\ call' = [call EXCEPT ![h].status = IF Allowed(h) THEN "ok" ELSE "reverted"]

\* Someone else's transaction moves an object that a call is about to move.
OthersMove(h) ==
  /\ call[h].step \in {"priced", "signed", "sent"}
  /\ Allowed(h)
  /\ Op(h).object # "new"
  /\ world' = [world EXCEPT ![Op(h).object] = Op(h).to]
  /\ UNCHANGED <<call, pool, mined>>

IsMined(h) == h \in ToSet(mined[PayerOf(h)])

\* Mutant: the status of the receipt is not looked at.
MutatedTakeReceipt(h) ==
  /\ call[h].step = "sent" /\ IsMined(h)
  /\ MoveTo(h, IF call[h].reads = 0 THEN "done" ELSE "confirmed")
  /\ UNCHANGED <<pool, mined, world>>

\* The receipt is asked for by the hash of the handler's own transaction; a
\* status other than 1 is an error.
TakeReceipt(h) ==
  /\ call[h].step = "sent" /\ IsMined(h)
  /\ \/ call[h].status = "reverted" /\ MoveTo(h, "reverted")
     \/ call[h].status = "ok" /\ call[h].reads = 0 /\ MoveTo(h, "done")
     \/ call[h].status = "ok" /\ call[h].reads > 0 /\ MoveTo(h, "confirmed")
  /\ UNCHANGED <<pool, mined, world>>

\* wait_for_transaction_receipt gives up after 120 s; the transaction may
\* still be pending, or replaced.
TimeOut(h) ==
  /\ call[h].step = "sent" /\ ~IsMined(h)
  /\ MoveTo(h, "timed out")
  /\ UNCHANGED <<pool, mined, world>>

\* The result is read back.  A node that lags behind shows the old state; the
\* checks of a stage also fail when the next operation already moved it on.
Matches(h) == Op(h).stageNow => world[Op(h).object] = Op(h).to

ReadResult(h) ==
  /\ call[h].step = "confirmed"
  /\ \/ Matches(h) /\ MoveTo(h, "done")
     \/ /\ call[h].reads > 1
        /\ call' = [call EXCEPT ![h].reads = @ - 1]
     \/ call[h].reads = 1 /\ MoveTo(h, "inconsistent")
  /\ UNCHANGED <<pool, mined, world>>

HandlerStep(h) ==
  \/ EstimateAndSign(h)
  \/ SendRawTransaction(h)
  \/ TakeReceipt(h)
  \/ TimeOut(h)
  \/ ReadResult(h)

SenderNext ==
  \E h \in Handler :
    \/ \E op \in OperationName : BeginCall(h, op)
    \/ HandlerStep(h)
    \/ Mine(h)
    \/ OthersMove(h)

-----------------------------------------------------------------------------
(***************************************************************************)
(* Properties                                                              *)
(***************************************************************************)

SenderTypeOK ==
  /\ call \in [Handler -> [op : OperationName \cup {"none"}, step : Step,
                           nonce : 0 .. Cardinality(Handler),
                           seen : SUBSET Handler,
                           status : {"none", "ok", "reverted"},
                           reads : 0 .. VerificationAttempts]]
  /\ pool \subseteq Handler
  /\ world \in [Object -> 0 .. 4]

\* Two transactions of an account take effect only when the second one read
\* its nonce after the first was mined: calls that overlap, and a retry made
\* while the first attempt is still pending, exclude each other.  A stake is
\* paid twice only by a retry that starts after the first one was mined.
OverlappingCallsExclude ==
  \A a \in Payer : \A i, j \in DOMAIN mined[a] :
    i < j => mined[a][i] \in call[mined[a][j]].seen

\* A call that reports success had its own transaction mined and executed, and
\* one that reports a revert changed nothing, whatever other calls of the
\* account did meanwhile.
AnswersAreTrue ==
  \A h \in Handler :
    /\ call[h].step = "done" => IsMined(h) /\ call[h].status = "ok"
    /\ call[h].step = "reverted" => h \notin pool /\ call[h].status # "ok"

\* The answers of the API can be trusted: SenderTypeOK and AnswersAreTrue.
SenderInvariant == SenderTypeOK /\ AnswersAreTrue
=============================================================================
