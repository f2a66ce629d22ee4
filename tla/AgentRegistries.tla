--------------------------- MODULE AgentRegistries ---------------------------
(***************************************************************************)
(* The registries beside the escrow: AgentIdentityRegistry (who owns an    *)
(* agent), ReputationRegistryAdapter (the claims of an agent and how their *)
(* challenges ended) and ValidationRegistryAdapter (requests an owner puts *)
(* to a validator), and the two bridges of the API that write to them.     *)
(*                                                                         *)
(* Each call is one transaction: an action whose guard is what the         *)
(* contract requires.  A bridge reads the registry again after its         *)
(* transaction, and other transactions may come in between.                *)
(***************************************************************************)
EXTENDS Integers, Sequences, SequencesExt, FiniteSets, Functions

CONSTANTS
  Account,       \* addresses other than zero
  Admin,         \* the admin of the identity registry
  Operator,      \* the reputation operator
  Hash,          \* claim and request hashes
  Stake,         \* stakes a claim may be recorded with
  Response,      \* responses a validator may give
  MaxAgents,     \* bound on the registered agents
  MaxResponses   \* bound on the responses, and so on the overwrites

ASSUME RegistryAssumption ==
  /\ Admin \in Account /\ Operator \in Account
  /\ Response \subseteq Nat /\ Stake \subseteq Nat
  /\ IsFiniteSet(Hash) /\ MaxAgents \in Nat /\ MaxResponses \in Nat

VARIABLES
  owners,        \* owners[agent]; agents are numbered from 1
  balances,      \* balances[a]: the identities an account owns
  claimStatus,   \* claimStatus[h], NoClaim if none was recorded
  stats,         \* stats[agent]: the totals of the reputation registry
  agentClaims,   \* agentClaims[agent]: the hashes, in order
  validations,   \* validations[h], NoRequest if none
  bridge,        \* the call of a bridge that has to be read back
  responses

registryVars == <<owners, balances, claimStatus, stats, agentClaims, validations,
                  bridge, responses>>
identityVars == <<owners, balances>>
reputationVars == <<claimStatus, stats, agentClaims>>

Agent == 1 .. MaxAgents
NoClaim == [agent |-> 0, stake |-> 0, resolved |-> FALSE, confirmed |-> FALSE]
NoRequest == [validator |-> "none", agent |-> 0, response |-> 0, answered |-> FALSE]
NoStats == [totalClaims |-> 0, totalStake |-> 0, resolved |-> 0, rejected |-> 0, upheld |-> 0]
Idle == [call |-> "none", hash |-> "none", value |-> 0]

RegistryInit ==
  /\ owners = <<>>
  /\ balances = [a \in Account |-> 0]
  /\ claimStatus = [h \in Hash |-> NoClaim]
  /\ stats = [g \in Agent |-> NoStats]
  /\ agentClaims = [g \in Agent |-> <<>>]
  /\ validations = [h \in Hash |-> NoRequest]
  /\ bridge = Idle
  /\ responses = 0

Registered(g) == g \in DOMAIN owners

\* Only the admin registers; an owner may have several agents, and there is
\* no transfer.
RegisterAgent(sender, owner) ==
  /\ sender = Admin
  /\ Len(owners) < MaxAgents
  /\ owners' = Append(owners, owner)
  /\ balances' = [balances EXCEPT ![owner] = @ + 1]
  /\ UNCHANGED <<reputationVars, validations, responses>>

\* The identity registry knows no approvals, so the caller is the owner.
MaySpeakFor(sender, g) == Registered(g) /\ sender = owners[g]

\* Mutant: a claim that exists is recorded again.
MutatedRecordClaim(sender, g, h, stake) ==
  /\ MaySpeakFor(sender, g)
  /\ claimStatus' = [claimStatus EXCEPT ![h] = [NoClaim EXCEPT !.agent = g, !.stake = stake]]
  /\ stats' = [stats EXCEPT ![g].totalClaims = @ + 1, ![g].totalStake = @ + stake]
  /\ agentClaims' = [agentClaims EXCEPT ![g] = Append(@, h)]
  /\ UNCHANGED <<identityVars, validations, responses>>

RecordClaim(sender, g, h, stake) ==
  /\ claimStatus[h] = NoClaim
  /\ MaySpeakFor(sender, g)
  /\ claimStatus' = [claimStatus EXCEPT ![h] = [NoClaim EXCEPT !.agent = g, !.stake = stake]]
  /\ stats' = [stats EXCEPT ![g].totalClaims = @ + 1, ![g].totalStake = @ + stake]
  /\ agentClaims' = [agentClaims EXCEPT ![g] = Append(@, h)]
  /\ UNCHANGED <<identityVars, validations, responses>>

\* A confirmed claim is a rejected challenge.
RecordResolution(sender, h, confirmed) ==
  /\ sender = Operator
  /\ claimStatus[h] # NoClaim /\ ~claimStatus[h].resolved
  /\ claimStatus' = [claimStatus EXCEPT ![h].resolved = TRUE, ![h].confirmed = confirmed]
  /\ LET g == claimStatus[h].agent
     IN stats' = [stats EXCEPT ![g].resolved = @ + 1,
                               ![g].rejected = IF confirmed THEN @ + 1 ELSE @,
                               ![g].upheld = IF confirmed THEN @ ELSE @ + 1]
  /\ UNCHANGED <<identityVars, agentClaims, validations, responses>>

\* The owner of an agent puts a request to a validator of his choice.
ValidationRequest(sender, validator, g, h) ==
  /\ validations[h] = NoRequest
  /\ MaySpeakFor(sender, g)
  /\ validations' = [validations EXCEPT ![h] =
       [NoRequest EXCEPT !.validator = validator, !.agent = g]]
  /\ UNCHANGED <<identityVars, reputationVars, responses>>

\* The validator answers, and may answer again.
ValidationResponse(sender, h, response) ==
  /\ validations[h] # NoRequest
  /\ sender = validations[h].validator
  /\ response <= 100
  /\ responses < MaxResponses /\ responses' = responses + 1
  /\ validations' = [validations EXCEPT ![h].response = response, ![h].answered = TRUE]
  /\ UNCHANGED <<identityVars, reputationVars>>

\* getReputation: 50 until a challenge is resolved; uint8 of a percentage.
ReputationScore(g) ==
  IF stats[g].resolved = 0 THEN 50
  ELSE ((stats[g].rejected * 100) \div stats[g].resolved) % 2^8

\* getSummary over the given validators (all of them if none is given); the
\* tag is one more filter of the same kind.
Counted(g, validators) ==
  {h \in Hash : /\ validations[h].agent = g
                /\ validations[h].answered
                /\ validators = {} \/ validations[h].validator \in validators}

ResponseOf == [h \in Hash |-> validations[h].response]

SummaryAverage(g, validators) ==
  LET total == SumFunctionOnSet(ResponseOf, Counted(g, validators))
  IN IF Counted(g, validators) = {} THEN 0
     ELSE (total \div Cardinality(Counted(g, validators))) % 2^8

\* Transactions of anyone, the bridges' signers among them.
Transact(sender) ==
  \/ \E owner \in Account : RegisterAgent(sender, owner)
  \/ \E g \in Agent, h \in Hash :
       \/ \E stake \in Stake : RecordClaim(sender, g, h, stake)
       \/ \E v \in Account : ValidationRequest(sender, v, g, h)
  \/ \E h \in Hash :
       \/ \E confirmed \in BOOLEAN : RecordResolution(sender, h, confirmed)
       \/ \E response \in Response : ValidationResponse(sender, h, response)

Wait(call, h, value) == bridge' = [call |-> call, hash |-> h, value |-> value]

\* A bridge submits with the auditor's owner, the operator or the validator.
SubmitClaim(sender, g, h, stake) ==
  bridge = Idle /\ RecordClaim(sender, g, h, stake) /\ Wait("claim", h, g)

SubmitResolution(h, confirmed) ==
  /\ bridge = Idle
  /\ RecordResolution(Operator, h, confirmed)
  /\ Wait("resolution", h, IF confirmed THEN 1 ELSE 0)

SubmitRequest(sender, v, g, h) ==
  bridge = Idle /\ ValidationRequest(sender, v, g, h) /\ Wait("request", h, g)

SubmitResponse(sender, h, response) ==
  /\ bridge = Idle
  /\ ValidationResponse(sender, h, response)
  /\ Wait("response", h, response)

BridgeSubmits(sender) ==
  \/ \E g \in Agent, h \in Hash :
       \/ \E stake \in Stake : SubmitClaim(sender, g, h, stake)
       \/ \E v \in Account : SubmitRequest(sender, v, g, h)
  \/ \E h \in Hash, confirmed \in BOOLEAN : SubmitResolution(h, confirmed)
  \/ \E h \in Hash, response \in Response : SubmitResponse(sender, h, response)

\* What a bridge checks after its transaction.
ReadBackAgrees ==
  LET h == bridge.hash
  IN CASE bridge.call = "claim" -> h \in ToSet(agentClaims[bridge.value])
       [] bridge.call = "resolution" ->
            claimStatus[h].resolved /\ (claimStatus[h].confirmed <=> bridge.value = 1)
       [] bridge.call = "request" -> validations[h].agent = bridge.value
       [] bridge.call = "response" -> validations[h].response = bridge.value
       [] OTHER -> TRUE

ReadBack ==
  /\ bridge # Idle
  /\ bridge' = Idle
  /\ UNCHANGED <<identityVars, reputationVars, validations, responses>>

RegistryNext ==
  \/ \E sender \in Account : Transact(sender) /\ UNCHANGED bridge
  \/ \E sender \in Account : BridgeSubmits(sender)
  \/ ReadBack

-----------------------------------------------------------------------------
(***************************************************************************)
(* Properties                                                              *)
(***************************************************************************)

RegistryTypeOK ==
  /\ owners \in Seq(Account)
  /\ \A h \in Hash : claimStatus[h].agent \in {0} \cup DOMAIN owners
  /\ \A h \in Hash : validations[h].agent \in {0} \cup DOMAIN owners
  /\ responses \in 0 .. MaxResponses

\* The totals of every agent are those of its claims: no order of claims and
\* resolutions by several signers counts one twice or for another agent; and
\* each owner's balance is the number of its agents.
TotalsMatchRecords ==
  /\ \A g \in Agent :
       LET mine == {h \in Hash : claimStatus[h].agent = g}
           ended(c) == Cardinality({h \in mine : claimStatus[h].resolved
                                                 /\ claimStatus[h].confirmed = c})
       IN /\ stats[g].totalClaims = Cardinality(mine)
          /\ stats[g].totalStake = SumFunctionOnSet([h \in Hash |-> claimStatus[h].stake], mine)
          /\ stats[g].rejected = ended(TRUE)
          /\ stats[g].upheld = ended(FALSE)
          /\ stats[g].resolved = ended(TRUE) + ended(FALSE)
          /\ ToSet(agentClaims[g]) = mine /\ Len(agentClaims[g]) = Cardinality(mine)
  /\ \A a \in Account :
       balances[a] = Cardinality({g \in DOMAIN owners : owners[g] = a})

\* Scores and averages fit their uint8, and an average lies between the
\* lowest and the highest response it counts.
ScoresFit ==
  \A g \in Agent :
    /\ ReputationScore(g) \in 0 .. 100
    /\ \A validators \in SUBSET Account :
         LET given == {validations[h].response : h \in Counted(g, validators)}
         IN given # {} => /\ SummaryAverage(g, validators) \in 0 .. 100
                          /\ \E r \in given : r <= SummaryAverage(g, validators)
                          /\ \E r \in given : SummaryAverage(g, validators) <= r

\* What a bridge reads back contradicts its transaction only when the same
\* validator answered the same request again in between.
BridgeReadsItsOwnWrite ==
  ReadBackAgrees \/ (bridge.call = "response" /\ responses > 1)

\* The registries' books are right: RegistryTypeOK, TotalsMatchRecords,
\* ScoresFit and BridgeReadsItsOwnWrite.
RegistryInvariant ==
  RegistryTypeOK /\ TotalsMatchRecords /\ ScoresFit /\ BridgeReadsItsOwnWrite
=============================================================================
