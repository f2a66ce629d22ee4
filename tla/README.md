# Proof-of-Audit: a verification project

TLA+ modules, TLC configurations and TLAPS proofs kept beside the
Proof-of-Audit code: the escrow contract, and the services around it.

## 1. Inventory

| part | state it keeps | operations | hard behaviour | what makes it correct |
|---|---|---|---|---|
| `contracts/src/ProofOfAudit.sol`, direct audits | audit records, the ether balance | publishAudit, challengeAudit, resolveChallenge, releaseStake | any interleaving of callers, window boundaries, payouts in the middle of a call | stake and bond leave exactly once, verdicts follow a timely challenge, a settled record never changes |
| the same contract, marketplace requests | requests, claims, claim lists, settlement totals, used identities, bond refunds, fee accruals | createAuditRequest ... withdrawFees (13 calls) | batches that read what other calls may still change, expiry racing resolution, rounding, refusing receivers, identity transfers | conservation of escrow, final classification, shares that fit, everybody is eventually paid |
| `AgentIdentityRegistry.sol`, `ReputationRegistryAdapter.sol`, `ValidationRegistryAdapter.sol` and the API's two bridges | agents and owners; claims, outcomes and totals per agent; requests and responses | registerAgent, recordClaim, recordResolution, validationRequest, validationResponse and their reads | several signers, repeated resolutions, overwritten responses, a read-back after other transactions | every claim counts once and for one agent, averages and scores fit, who may speak for whom |
| `api/.../service.py`, life of an audit | audit records in the store | create, publish, submit claim, challenge, resolve, refresh | handlers run in a thread pool with no locks; slow chain calls between a read and a write; crashes between a transaction and its record | the record never runs ahead of the chain; nothing is staked twice |
| `service.py` and `worker.py`, making an audit | snapshots, the worker's shared backend | create_audit_submission, run_submission, the publish check | a snapshot made of several reads of a moving chain; one backend swapped under concurrent requests | a report belongs to its service; what is published still stands |
| `service.py`, challenge policy, and `agent/...` verifiers | the challenge of a claim | policy, materialisation, run, comparison, advice | evidence fetched twice, absent backends, abstention | what is judged is what was committed; advice follows policy |
| `service.py`, reputation index | none: computed from the records | one pass per read | counts that must follow the records in any order | a reputation moves only with its owner's verdicts |
| `service.py`, request marketplace | request records, drafts | preview, create request, drafts, claims, lists, eligibility | a transaction and a later write of a copy read before it, reads that write back, drafts tied to no request, stale reads, identities sold after the rules were made | the listing never shows what is not staked, and omits what is only after a failure or an overlap; who is called eligible is admitted |
| `api/.../publisher.py` | nonces (kept by the node) | one method per transaction, receipt waits, verification retry | two handlers with one nonce, timeouts after which a transaction is still mined | an answer is true, overlapping calls exclude each other |
| `api/.../store.py` | one record per id, one catalogue of requests | write, read, lists, legacy imports | file writes that are neither atomic nor exclusive, imports that check and then write | an acknowledged record is never replaced by an older one |
| `api/.../app.py`, `config.py`, `security.py` | signers and keys, hits per caller | start, guard of mutating calls | eviction at a full table | the window counts right, for every caller |
| `agent/.../request_participation.py` | JSONL decision log | run_once | a crash between submission and log line, capacity, unreadable log | a request is decided once; capacity holds |
| `agent/.../claim_watcher.py`, `scripts/cross_agent_watcher.py` | seen events, results | poll, re-analyse, challenge | a claim marked seen before it is processed; a bounded feed; a challenge that outlives its caller | every claim seen gets one result, and results are true |
| `web/`, `scripts/`, `infra/`, schemas, source bundles | none | presentation, deployment, parsing | | (not modelled, section 6) |

The parts meet at the contract: the API sends transactions to it and mirrors
its state in the store; the mirrors (validation and reputation) are further
contracts written after the audit contract; the agents poll the API and send
their own submissions through it.

## 2. The modules

| module | models | extends or instantiates |
|---|---|---|
| `EscrowCommon` | what both flows of the contract share: the constructor's parameters with its checks as assumptions, block time, the ether balance, `_sendValue`, fee arithmetic | |
| `DirectAudit` | the single-audit flow, one action per call | `EscrowCommon`; `AuditLifecycle` (refinement) |
| `RequestSettlement` | the marketplace flow, one action per call | `EscrowCommon`; `AuditLifecycle` (refinement) |
| `ProofOfAudit` | the whole contract: both flows over one clock and one balance | `DirectAudit`, `RequestSettlement` |
| `AuditLifecycle` | the abstract life of one published report: published, challenged, upheld or rejected, never back from a verdict | |
| `AuditService` | the handlers of `service.py` as interleaving threads over the store, the contract and its two mirrors, with crashes, lost answers and late transactions | `AuditLifecycle` (as the contract) |
| `TransactionSender` | `_submit_transaction` and the read-backs of every publisher operation, by handlers that share two accounts | |
| `RecordStore` | JSON, SQLite and Postgres stores, their imports and crashes | |
| `AgentRegistries` | the three registries and the two bridges | |
| `RequestEligibility` | operators: the filters of a request and the rules made of them, the contract's test of a claim, the preview and the eligibility answer | |
| `RequestMarketplace` | the API's request and claim records over a reduced contract | `RequestEligibility` |
| `RequestParticipation` | the participation agent | `RequestMarketplace` |
| `ClaimWatcher` | the challenger feed and the watchers that poll it | |
| `AuditSubmission` | snapshots, scoped runs of the shared worker, the publish check | |
| `ChallengePolicy` | operators: how a policy is normalised, what it admits, how open it is | |
| `SemanticComparison` | operators: an executable claim against the findings of a report, and the abstention-first policy | |
| `ChallengeVerification` | one challenge from commitment to advice and verdict | `ChallengePolicy`, `SemanticComparison` |
| `ReputationIndex` | the records of auditors and the scores computed from them | `ChallengePolicy` |
| `ApiGuard` | start-up checks, the key of a call, the sliding window | |
| `SumFacts` | facts about `SumFunctionOnSet` (types, splitting, changing one term, bounds) and the least element of a set of naturals | |
| `RequestInvariantProofs` | proofs: the inductive invariant of the marketplace flow, windows, identities, classification, its refinement, and that the reduced contract of `RequestMarketplace` admits the same claims | `RequestSettlement`, `SumFacts`, `RequestEligibility` |
| `RequestEscrowProofs` | proofs: what the amounts of the marketplace flow add up to | `RequestInvariantProofs` |
| `ProofOfAuditProofs` | proofs: the direct flow, and the whole contract | `ProofOfAudit`, `RequestEscrowProofs` |
| `AuditServiceProofs` | proofs: the life of an audit in the API, and that its chain keeps to `AuditLifecycle` | `AuditService` |
| `SubmissionProofs` | proofs: making an audit, challenges and policies, reputation | `AuditSubmission`, `ChallengeVerification`, `ReputationIndex`, `SumFacts` |
| `AgentProofs` | proofs: the marketplace in the API and both agents | `RequestParticipation`, `ClaimWatcher`, `SumFacts` |
| `OperationsProofs` | proofs: sender, store, guard and registries | `TransactionSender`, `RecordStore`, `ApiGuard`, `AgentRegistries`, `SumFacts` |
| `MC...` | the accounts, agents, rules, threads and inputs of the runs; `MCAgents` puts the two agents side by side, `MCOperations` the seven parts of the API that share no state | |

`AuditLifecycle` is the hinge. `DirectAudit` and `RequestSettlement` are proved
to implement it, and `AuditService` uses it in place of the contract: what the
API is checked against is what the contract is proved to do. That the chain of
`AuditService` takes the steps of `AuditLifecycle` and no others, with its faults, late
transactions and other accounts, is proved as well.

### How state and actions correspond to the code

Each definition's lines are listed in `PROJECT.json` under `map`.

*Contract.* A mapping of the contract is a function over the ids `1..Max...`, a
struct a record, `address(0)` is `NoAddress`, and a struct that was never written
is `NoAudit`, `NoClaim` and so on, with `0` in `publishedAt` or `createdAt` as in
the code. An action takes the caller, the value sent and the call's arguments;
its guards are the function's revert conditions in their order, so a call that
would revert is an action that is not enabled. Report hashes, evidence hashes,
URIs and events are stored or emitted and never read by the contract; they are left
out. `uint96(msg.value)` is exact, because the supply of ether is below 2^96
wei. `_sendValue` needs a receiver that accepts ether (`Refusers` do not). Every
function finishes its own writes before it sends, so a receiver that calls back
runs on the finished state: the nested call is the same as a later one, and one
action per call loses no behaviour. Ether that is forced into the contract by other
means is left out, which is why solvency is stated as an equality.

*External code.* The block time (`AdvanceTime`), the credit of `msg.value`
(`Accept`) and the owners of agent identities (`TransferIdentity`: an ERC-721
identity registry may move an identity between two calls) are modelled from how
the contract uses them. So are the pool and the nonces of a node, the chain an
audit reads, the server of the evidence, and the clock of the limiter.

*Life of an audit (`AuditService`).* `store` is the table of audit records,
`handlers` what each thread of the API process is doing, with the copy of the
record it holds. A handler is cut into steps at every store, transaction and
verifier call, and nothing else separates them: there is no lock in
`service.py`. `stage`, `author` and `opened` are the contract and its log,
`registry` the validation and reputation mirrors, `late` the transactions whose
receipt timed out, `faults` the kinds of failure that this behaviour has.

- `get_audit` and the lists put every record through `_normalize_stored_record`,
  which may store it again. `normal` says whether a record is a fixed point of
  that function: a fresh draft lacks `normalized_findings`, and the first stored
  form of a challenge lacks the dossier and admissibility keys, so the
  first read of each writes back. A list is several reads, one thread per record.
- A transaction is confirmed, refused, lost (mined, its sender told otherwise)
  or late. A crash between sending and the receipt is a late transaction and a
  crash. `TransactionSender` shows where these outcomes come from.
- The mirrors are assumed to be configured. Their keys contain the published id
  and transaction, so each on-chain id has an entry of its own. Request claims
  are not mirrored. A record is tied to no request, so it may be claimed again for
  another one that wants the same target.
- After a transaction the code catches the bridge's own errors and notes them in the
  record; a raw error of the node's RPC is no such error (`service.py:2312`, `:2984`,
  `:3031`, `:3061`, `:3110`). It escapes, and the handler ends with the record as it was
  stored last: `Raised`, a fault of the kind "read".
- Chain reads may fail; `_refresh` then keeps what the record said.

*Publisher (`TransactionSender`).* `call` is one `_submit_transaction` per handler,
step by step: nonce, gas estimate, signature, submission, receipt or timeout, and
up to `VerificationAttempts` reads of the result. `pool` holds what the node took
and has not mined, `world` the stage of each object of the contract. Two
transactions with one nonce compete in the pool, and the node mines one (`mined`).

*Store (`RecordStore`).* A row is a version number: `Legacy` for what an old file
holds, higher for later writes, `Torn` for a file cut short or mixed of two writes.
Handlers of one process may write the same JSON file at once (`mixed`). `pc` is where each API
process stands between its start and serving. Writes of SQL rows are one step,
those of files two. `acked` is what callers were told is stored. Nothing keeps
two processes from starting together: `overlapped` remembers that they did, and only
then may the import of one bring a legacy file back over an acknowledged record
(its check and its write take no lock, `store.py:364`).

*Registries (`AgentRegistries`).* One action per transaction, its guard the
`require`s and custom errors; `bridge` is an API call that has sent its
transaction and not yet read the registry back.

*Marketplace and participation agent.* `directory` is the configured services
with their identities, `owner` the external identity registry, which sells tokens
behind the API's back. `chain`, `rules`, `claims` are the reduced contract, `asked`
the filters a request was opened with, `creating` the requests opened and not yet
indexed, `index` and `audits` the store. A draft is of a target and not of a request:
`BeginClaim` compares only the address (`service.py:754`, `:761`), and the requests of
the runs share a target. `job` is each handler's place in `submit_audit_request_claim`,
in `publish_audit` of the same draft, or between the read of a record and its
write-back (`ReadAudit`, `NormalizeAudit`), with the copy of the record that it holds
and stores as a whole. `contended` remembers the audits that two handlers had hold of
at once. The agent is a place in `run_once`; its JSONL file is `log`, everything else
is lost with the process. An exception is not caught in the loop, so it is a death.

*Watchers.* One process runs its watchers in turn (`turn`, `place`, `fresh`).
`order` has the events by their stamps, `stored` those that are visible;
`late` are challenges that the watcher gave up on and the API still carries out,
`told` what the watcher reported as done.

*Making an audit (`AuditSubmission`).* `forge` is the one backend of the shared
worker, given by its detector families. A request reads the block, the code, the proxy
slots, the beacon and the implementation's code in steps of their own, each of the
chain's latest block, remembers the worker's runtime, installs the scoped backend,
runs, filters and restores; in between `NewBlock` may redeploy or upgrade the target
or redeploy its implementation. `history` is what the chain held at each block. A beacon
only names the kind of the proxy; the code reads no implementation behind it. A publication repeats the reads. `SameIdentity` compares
what the code compares: nothing at all without a stored code hash
(`service.py:476`), and no part that is unknown now (`:481`). `setup.client` says whether the
process has a connection to the chain; a restart may come with other settings, so a
draft made without a connection may be published by a process that has one.

*Challenges.* `served` is what the evidence's URI serves now, `commitment` the hash
put on the chain, `place` how far `challenge_audit` is, `ran` the run the verdict rests on.
A remote text is fetched once; of a local file the text is read first and the bytes that
are hashed later (`executable_evidence_resolver.py:94`, `:101`, `:388`), so `ran` holds
the version and the hash apart. A text is a set of words, a
bundle a version number with its tests and its manifest; whether a version's test
passes at a block is a constant. What an extractor answers, whether a container
answers at all and whether the tool fails for a reason of its own, which counts as a
failed test (`executable_evidence_runner.py:223`), are nondeterministic.

*Guard.* `config` is the environment of the process, which its start checks once: a
predicate on a constant, so no property is stated of it. `hits` is the table of sliding windows, `admitted` what was let through
in the last window, which the properties compare with it. A bucket loses its expired
times from the left, as `popleft` does, and only when its caller calls. The clock is
read just before the lock is taken; reading and check are one step of the model, so
the limiter is exact up to the time a thread may wait between the two.

## 3. What each run checks

| run | instance | checks | shows |
|---|---|---|---|
| `direct_audit` | 3 overlapping audits, 3 accounts, one of which refuses ether | types, `DirectSolvency`, `VerdictsAreEarned`, `AuditHistoryIsKept`, `DirectAuditsFollowLifecycle`, `UnchallengedStakeReturns` | stakes and bonds leave once; the last block of the window belongs to challengers and the next to the auditor; settled audits never change; the flow implements `AuditLifecycle`; an unchallenged stake comes back |
| `request_settlement` | 1 request under every rule, 2 claims, fees of 25% so that every fee and remainder is non-zero, an account that refuses ether | types, `RequestSolvency`, `TotalsMatchClaims`, `WindowsAreKept`, `RequiredIdentityIsUnchallenged`, `ClassifiedClaimsAreFinal`, `ClaimsFollowLifecycle`, `EverybodyIsPaid` | escrow is conserved through challenge, resolution, expiry, re-challenge, batches and withdrawals; a classified claim can never change again; a silent arbiter or a refusing account does not block a request or the others; what a refusing claimant does block is the requester's dust |
| `request_shares` | 3 claims, unequal stakes, a bounty that does not divide, an identity that moves | `SharesAreSettled`, `OneClaimPerIdentity`, `FinalizedFiguresAreFixed` | rounded shares fit the bounty in every order of withdrawal; the dust is the requester's and comes last; identities cannot claim twice by changing hands |
| `whole_contract` | 1 audit, 1 request, 2 claims | `EscrowIsSound`, `DuesStand` | no flow is ever paid from the other's escrow, every payout that may be asked for is covered; a stake, share, refund or bond that is due stays due, to the same account and for the same amount, until it is paid in full |
| `service_serial` | 1 thread; two records without faults, one with every fault | `OneStakePerReport`, `QuietRecordsMatchChain`, `StatusAdvances` | what the service guarantees when requests do not overlap: without faults the record tells the truth and a report is staked once; a status never goes back, whatever crashes, is lost or comes late |
| `service_threads` | 2 threads, crashes, lost answers, errors of the node that escape after a transaction, failing verifiers, other callers | `NothingRunsAhead` | what is left when requests overlap: no crash, lost answer, escaping error, late transaction or stale copy makes a record or a mirror claim what the chain does not hold |
| `agents` | 2 requests for one target, a draft of each service, 2 handlers, 3 directories, 5 kinds of filters, 1 identity sold; 1 agent that may die; 3 watchers, 2 claims, a feed of 2 events | `MarketInvariant`, `ParticipationInvariant`, `ChallengesAreTrue`, `WatchInvariant`, `OpenRequestsAreDecided`, `FeedIsActedOn` | handlers that race, write back what they read or die never list a claim that is not staked, and a staked claim is hidden only by a failure or by two handlers that had hold of its record at once; eligibility answers are the contract's, whoever owns the identities by then; a request is decided once, drafted again only after a death, and within capacity; every claim a watcher sees gets one result, and one reported as challenged is; with a loop that runs, open requests are decided, unless the answer for a newer one is an error, and the feed is acted on |
| `operations` | two handlers of one account; three kinds of store; two agents in the registries; two auditors; six bundles of evidence; one request thread on a chain of two blocks; six environments | `SenderInvariant`, `OverlappingCallsExclude`, `StoreInvariant`, `RegistryInvariant`, `ReputationFollowsVerdicts`, `VerdictsKeepTheCommitment`, `PermissivePoliciesAdmitMore`, `ScopeInvariant`, `PublishedStandsAtPublish`, `GuardInvariant` | answers are true and overlapping calls of an account exclude each other; no import or crash replaces an acknowledged record, but for a file cut short, for one that two writes mixed, and for two processes that import at once; totals are those of the claims; a reputation moves only with its verdicts; what is judged is what was committed, but for the text of a local file; what is published stood, part by part, since the publication began; one service's scope is not another's, as long as submissions do not overlap; the guard counts every caller's window exactly |
| `status_overwritten` | 2 threads, no faults | `StatusAdvances` is violated | finding 1 |
| `verdict_before_policy` | 2 threads, no faults | `PolicyBeforeVerdict` is violated | finding 2 |
| `scope_leak` | 2 submissions at a time | `ReportsKeepTheirScope` is violated | finding 3 |
| `other_block` | one challenge | `RunsAtTheSnapshot` is violated | finding 4 |

`RequiredIdentityIsUnchallenged` deserves a word. `challengeAuditRequestClaim`
applies the request's eligibility rules to the *challenger*. If a request requires
one identity, its only possible challenger is the owner of that identity, who is
also its only possible claimant, and nobody may challenge himself. So such claims
cannot be challenged at all (short of moving the identity after the claim). The
source states no intention here, so it is a property and not a finding.

### Bounds

- Time. `LastOpening` is the last block in which an audit or request is opened,
  and `MaxTime` lets every window that may be open then run out with one block to
  spare, so both sides of every boundary are reached for everything opened. Windows
  of 1 or 2 blocks have a first, a last and an after-last block.
- Ids. Three audits, or three claims of one request, are enough for any two to overlap while a third
  comes later; batches of 1 and 2 over 2 or 3 claims split in every way.
- Amounts are small integers chosen so that fees and shares leave remainders, and
  so that `MsgValues` holds right and wrong values for every payable call.
- Accounts: an auditor, another, and the arbiter, who is also the treasury and may
  act as a user. Everybody may call everything.
- `service_serial`: two records and two on-chain ids per flow without faults, so
  that a report may be published twice and records may meet. With faults
  `SmallerSpec` keeps one record and the two ids of the direct flow, and one late
  transaction at a time (`MaxLate`). `service_threads` has one id of each flow,
  as a second thread multiplies the states by a hundred.
- `agents` and `operations` run one part per behaviour (`part`): the parts share no
  variable, so nothing is lost, and their states add up instead of multiplying.
  Within a part two actors are enough for a race and one fault (`MaxApiFaults`,
  `MaxAgentCrashes`, `MaxWatchFaults`, two crashes of the store) for each place a
  fault may fall.
- The marketplace of `agents` has three parts, and the watchers are the fourth.
  `requests`: all filters, directories and sales of one identity (`MaxTransfers`, while
  there is one request), with one handler at a time. `races`: one kind of request and
  two handlers, each reading, publishing or claiming the drafts of two services that
  share an identity, with a failed read (`TwoHandlers`). `participation`: the agent, and
  beside it one handler that reads or publishes one draft (`OneOfEach`). Which filters
  meet which directory (`FewInputs`) keeps each rule once.
- In `operations` two audits, and two implementations of the proxy, are alike for the
  code, so they are a symmetry set (`Alike`); its properties are invariants and action
  properties only. `MaxServed` of two lets a text, and then the bytes that are hashed, be
  replaced. The feed of two entries is shorter than the events of the two claims, so
  events are pushed out of it; the limiter's table of one caller is smaller than the
  callers, so every eviction happens; the capacity of one is smaller than the requests.
  `MaxBlock`, `MaxRecords`, `MaxVersion`, `MaxResponses` bound how often
  chain, records, rows and responses change: once or twice is
  what two reads can tell apart.
- `CHECK_DEADLOCK FALSE` stands in every run: at `MaxTime`, and when the ids are
  given out, the bounded system stops.

### Fairness

In the contract only calls that anyone may make and someone waits for are fair:
`releaseStake`, `expireAuditRequestClaimChallenge`, `expireAuditRequest`,
classification, finalization and the withdrawals; and time. They are pull payments
and permissionless steps, so the party that is owed can always make them, and since
none of them can be disabled for ever by others except as the properties say, weak
fairness is enough. Nothing is assumed of the arbiter, of challengers, of
requesters who might open requests, or of the API, whose runs check safety only.

The agents are loops: `LoopRuns` and `WatchersRun` are the bodies of a `while True`
with a sleep, `PostEnds` the end of a call that has a timeout, and `IsRestarted` the
operator or supervisor who starts a dead agent again. Each is weakly fair.
Nothing is assumed of the other clients of the API or of the chain.

## 4. What is proved

Every invariant and action property of the passing runs is a theorem, for every value
of the constants that satisfies the named assumptions. The order of work was the same
each time: state the inductive invariant, let TLC check it on a run's instance, prove
that the initial states satisfy it, that every action preserves it, and that it implies
the property. The specifications of these theorems have no fairness.

### Assumptions

- The contract: accounts are finitely many and not `address(0)`; stakes, bonds,
  bounties and windows are natural numbers, positive where the constructor demands it;
  fees are at most 100% (`AddressAssumption`, `ParameterAssumption`, `BoundAssumption`,
  `MaxAuditsAssumption`, `RequestConstantsAssumption`).
- `ServiceAssumption`, `EntriesAssumption`: on-chain ids are positive and the two flows'
  differ. `OperationAssumption`, `HandlerAssumption` (finitely many handlers),
  `SlotsAssumption`, `StoreAssumption`, `RegistryAssumption`,
  `GuardAssumption`, `ScopeAssumption`, `CaseAssumption`, `ReputationAssumption`,
  `MarketAssumption`, `ParticipationAssumption`, `WatcherAssumption`: the types of the
  constants (a published policy is a normalised one, a capacity a natural number, a
  window at least one tick). TLC evaluates all of them in the runs.
- Two hypotheses are no typing. `OneThread` (at most one request thread) stands in
  front of `OneThreadAdvances`, `OneThreadStakesOnce` and `OneThreadMatchesChain`, and
  `OneRequest` in front of `OneRequestKeepsScopes`. The runs that check these properties
  have one thread, and the runs `status_overwritten` and `scope_leak` show that two
  threads violate `StatusAdvances` and `ReportsKeepTheirScope`: the code needs the
  hypothesis. What holds with any number of threads (`NothingRunsAhead`,
  `PublishedStandsAtPublish`) is proved without it.

### The contract

| theorem | states | inductive invariant, and why it is needed |
|---|---|---|
| `DirectTypesHold`, `DirectIsSolvent` | `DirectSystemTypeOK`, `DirectSolvency` | `DirectInv`: types, blank slots, solvency. `publishAudit` adds a stake to the sum and must not overwrite one that is counted: the slots above `nextAuditId` are blank |
| `DirectVerdictsAreEarned` | `VerdictsAreEarned` | `VerdictsInv` adds that no audit is younger than the clock and that a challenged one has a challenger |
| `DirectHistoryIsKept` | `AuditHistoryIsKept` | types are enough: one step per call |
| `DirectImplementsLifecycle`, `RequestImplementsLifecycle` | the refinement of `AuditLifecycle` | each call is the abstract step of its id or a stutter; `expireAuditRequestClaimChallenge` is the abstract `Expire` |
| `RequestWindowsAreKept`, `RequestHasOneClaimPerIdentity`, `RequiredIdentityBlocksChallenges`, `ClassificationIsFinal` | `WindowsAreKept`, `OneClaimPerIdentity`, `RequiredIdentityIsUnchallenged`, `ClassifiedClaimsAreFinal` | `RequestCore`: the shape of records, which ids are given out, that the claim lists index the claims without repetition, what each stage of a request implies, windows, used identities, and that the claims behind the cursor can no longer be challenged or ruled on. The cursor argument needs the lists, the lists need the ids |
| `RequestTypesHold`, `RequestTotalsMatch`, `RequestSharesAreSettled`, `RequestIsSolvent`, `FinalizedFiguresStand` | `RequestSystemTypeOK`, `TotalsMatchClaims`, `SharesAreSettled`, `RequestSolvency`, `FinalizedFiguresAreFixed` | `RequestInvariant` adds `RequestTotals` (what classification has counted so far is what one pass over the cursor's claims gives) and `RequestFigures` (what has been withdrawn is the sum of the shares of those who withdrew, the requester's refund last). That amounts do not go below zero, which the types demand, is a consequence: it rests on the lemma that rounded shares fit the bounty, in any order of withdrawal |
| `ContractEscrowIsSound` | `EscrowIsSound` | `ContractInvariant`: both flows' invariants over one balance. A call of one flow leaves the other's records and moves the balance by what it moves in its own escrow |
| `ContractKeepsPromises`, `ContractKeepsHistory`, `ContractImplementsLifecycle` | the invariants, action properties and refinements of both flows, for their composition | `ContractInvariant`; a call of one flow is a stutter of the other, but for the clock and the balance |
| `ContractDuesStand` | `DuesStand` | `ContractInvariant`. Each kind of debt has one call that pays it, and the proof shows for every other call that it neither changes the record the debt is read from nor moves its condition back: a finalized request keeps its figures and its time, an expired challenge its bond, and a refund waits for the last share. An account's bond refunds only grow until it withdraws them all |
| `ReducedContractAgrees` | `EligibleAuditor` and the minimum stake of `RequestSettlement` against `ContractAdmits` of `RequestEligibility` | none: the rules of a request of the one are read as those of the other (`AsRules`), and the two tests agree for every claimant, stake and ownership. The API asks for a whole identity or none, which is the hypothesis |

### The API

| theorem | states | inductive invariant, and why it is needed |
|---|---|---|
| `ServiceNeverRunsAhead` | `NothingRunsAhead` | `ServiceCore`: what a record says is on the chain, for the stored record, for the copy that a thread holds at each step, and for each transaction that may still be mined. Since the chain takes nothing back that a record may say (`ChainGrows`), a stale copy is still true |
| `ServiceImplementsLifecycle` | `LifecycleSpec`, the specification of `AuditLifecycle` | types. The transactions that a thread sends, those that are mined late and those of other accounts are its steps; everything else leaves the chain alone. Any number of threads |
| `OneThreadAdvances` | `StatusAdvances` | `StatusCore`: at each step the thread holds the stored status, or the next one when it has something to save |
| `OneThreadStakesOnce`, `OneThreadMatchesChain` | `OneStakePerReport`, `QuietRecordsMatchChain` | `QuietCore`: without faults each record matches the chain, or the one thread is about to save it |
| `PublicationStandsAtPublish` | `PublishedStandsAtPublish` | `SubmissionCore`: the history holds the head, and each part that a publishing thread has read of the target was the head's at some block since it began |
| `OneRequestKeepsScopes` | `ScopeInvariant` | `ScopeCore`: what the worker's backend is at each step of the one thread |
| `VerdictsRestOnTheCommitment` | `VerdictsKeepTheCommitment` | `CaseCore`: the submission is pinned to the commitment until the verdict, only a local file's text may be another version than its hash, and advice follows the admission |
| `OpenPoliciesAdmitMore` | `PermissivePoliciesAdmitMore` | none: a fact about the operators of `ChallengePolicy`, for all policies and results |
| `ReputationFollowsTheRecord` | `ReputationFollowsVerdicts` | types; the argument is that rounding half to even is monotone (`RoundingIsMonotone`: two fractions that round past each other would both be halves, with two even neighbours one apart) |
| `SenderCallsExclude`, `SenderAnswersAreTrue` | `OverlappingCallsExclude`, `SenderInvariant` | `SenderCore`: an account's transactions are mined in the order of their nonces, and a call with the nonce n has seen exactly the first n |
| `StoreKeepsItsRecords` | `StoreInvariant` | `StoreCore`: where the processes are. An import may write an old file only because the row was absent when it looked, and unless two starts overlapped the process that writes is alone. Two writes of one JSON file mark it until neither is under way |
| `RegistryBooksAreRight` | `RegistryInvariant` | `RegistryCore`: totals per agent are sums over its claims, balances count agents, and a bridge's write stands until it is read back |
| `LimiterIsExact` | `GuardInvariant` | `WindowCore`: the times in a bucket are in order, and what is left of it once cleaned is what the caller was admitted in the window. Cleaning late is cleaning at every tick (`FreshAgain`), and a caller whose last time has expired has nothing left (`StaleIsEmpty`) |

### The agents

| theorem | states | inductive invariant, and why it is needed |
|---|---|---|
| `MarketBooksAreTrue` | `MarketInvariant` | `MarketCore`: a claim that is shown, in the store or in any handler's copy, or that a handler is about to show, is on the chain once; and without faults the other way round: a staked claim of a record that no two handlers had hold of at once is shown or about to be |
| `AgentKeepsItsLimits` | `ParticipationInvariant` | `AgentCore`: the request in hand has no line in the log, the agent's counter is what the log holds plus the line about to be written, and every draft has its line, waits for it or cost a death |
| `WatchersChallengeTruly`, `WatchersLoseNoClaim` | `ChallengesAreTrue`, `WatchInvariant` | `WatchCore`: what is left of a poll was not acted on, everything else seen was, and a challenge in flight is by a watcher told to challenge |

### Lemmas

`SumFacts` rests on one induction over finite sets, stated with a set of good
subsets in place of a predicate (an induction theorem with an operator parameter
cannot be instantiated by the provers) and proved from the well-foundedness of
strict inclusion. From it follow that a sum does not depend on the order
of its terms, that one term can be split off, what changing one term does, and the
bounds from which shares and averages are bounded. `CallFrames` (what each call of the
marketplace leaves alone) and `CursorFacts` (the settlement cursor moves forward and
stays inside the list of claims) are the two facts that most proofs of that flow use.

### What the proofs changed in the models

- `ReputationIndex`: a rejected challenge was said to give scores none of which is
  below an old one. That is false where 0.35 x openness + 0.65 x accuracy is a half and
  the accuracy stays the same: a float half may fall on either side, before and after.
  The property now says that the scores stay or none is below an old one.
- `ApiGuard`: buckets dropped every expired time; they drop the expired prefix, as the
  code does. That this is the same rests on the order of the times, which is now part
  of the invariant.
- Feeds and the requests of an agent's poll are sets, since nothing depends on their
  representation; the constants of the agents have their assumptions.

### Only model-checked

`UnchallengedStakeReturns`, `EverybodyIsPaid`, `OpenRequestsAreDecided` and
`FeedIsActedOn` are liveness under fairness, which is outside the proof system's reach,
as is ENABLED: TLC checks them on the instances of section 3. That a retry loop or a
batch ends follows from these runs only. The safety half of the contract's two, that a
payout which is due cannot be lost while its owner waits, is `DuesStand` and is proved;
what these runs add is that it becomes due and is made.

## 5. Findings

1. *A stored status can go back* (`status_overwritten`, `service.py:2588`). A read
   that overlaps a publish or a verdict stores the record it read before, and
   `challenge_audit` stores the record it has held since before its verifier ran
   (`service.py:2347`). The documented state machine
   (`docs/TECHNICAL_DOCUMENTATION.md:107-111`) has no way back.
2. *A verdict may precede the policy* (`verdict_before_policy`,
   `service.py:2123`). The audit is stored as challenged before the challenge
   policy is evaluated; a manual upheld verdict in between is accepted.
   `docs/CHALLENGE_POLICY.md:75-76` says that the policy runs before resolution.
3. *A report may be scoped to another service* (`scope_leak`, `worker.py:84`).
   `run_submission` swaps the backend of the one shared worker; a second submission
   swaps it again, or back, while the first is running, and
   `_apply_detector_scope` (`worker.py:122`) filters the first report with the
   detectors it finds there. `docs/MULTI_AGENT_DEMO.md:34` promises each agent its
   own scope.
4. *A test may run at another block than the claim's* (`other_block`,
   `executable_evidence_runner.py:138`). The pinned block of a manifest that comes
   with the request is compared with the snapshot (`service.py:2033-2043`); the
   one of a manifest inside the bundle (`executable_evidence_resolver.py:281-289`)
   is not. `docs/AUDIT_SNAPSHOT_SEMANTICS.md:84-85` says that it must be rejected.

More disagreements have no run of their own. Most are the exceptions that properties
of the passing runs make, and dropping the exception makes TLC show them.

- *An eligibility answer may be an error, and the participation agent dies of it.*
  For a request that requires an identity, `_request_eligibility_reasons` normalises
  the registry of the service before it compares it (`service.py:1587`), and
  `_normalize_target_key` raises on the empty one of a service without an identity:
  `GET /requests/{id}/eligibility` fails, where `docs/AGENT_API.md:65-66` promises an
  answer and the marketplace preview gives one. The agent's loop catches nothing, so
  it dies in every poll that reaches the request, and decides no older one as long as
  that is shown as open: the last disjunct of `OpenRequestsAreDecided`. Without the
  disjunct TLC finds the loop of deaths.
- *Two previews.* `docs/AGENT_REQUEST_PARTICIPATION.md:12` says that the eligibility
  endpoint applies "the same preview filter logic used by the marketplace view". The
  marketplace goes by the names of the services, the endpoint by the accounts that
  the rules hold, so a service outside the named ones is eligible if its identity has
  an owner in common with them. `PreviewCarriesOver` therefore goes one way only, and
  `EligibilityIsTrue` says which of the two is the contract's.
- *A staked claim may be hidden although nothing failed.* A draft is tied to no request:
  `submit_audit_request_claim` compares its address only (`service.py:754`, `:761`),
  reads the record at its start and stores all of that copy at its end
  (`service.py:829`). Two overlapping handlers may stake one draft on two requests for
  the same target, and the second write hides the first claim; a `publish_audit` of the
  draft, or any read that puts its copy back (`service.py:2587-2588`, as in finding 1),
  hides it as well. `docs/AGENT_API.md:62-63` says that the claims of a request are those that the
  instance has indexed, and names no such loss. In `NothingIsLostWithoutFault` it is `contended`: without an overlap, or
  with handlers of different records only, nothing is lost.
- *Reads are unguarded and write.* `app.py:381`, `:422`, `:475`, `:589` and `:649` have no
  key and no limit, and what they read goes through `_normalize_stored_record`, which may
  store it (`service.py:2588`). `docs/DEPLOYMENT.md:372-375` calls the `POST` endpoints the
  mutating ones and the `GET` endpoints read-only. What such a write may and may not do is what `AuditService` and
  `RequestMarketplace` check.
- *A snapshot may mix two blocks.* `docs/AUDIT_SNAPSHOT_SEMANTICS.md:27-33` says that a
  claim is about the code identity at snapshot block B. The code takes the number
  of the latest block and then reads code, slots and implementation of whatever "latest"
  is by then (`service.py:296-323`, `:304`), so an upgrade in between gives a snapshot that
  no block had; with three blocks TLC finds one. `PublishedStandsAtPublish` therefore
  speaks of each part by itself, and of a claim without a stored code hash not at all: it
  is published unchecked (`service.py:476`).
- *An error of the node is not recorded.* `docs/AGENT_API.md:515-520` lists
  `request_failed` and `response_failed` among what becomes of a validation. A raw RPC
  error in a bridge is not one of the bridge's own errors and escapes the except
  clauses (`service.py:2984`, `:3031`, `:3061`, `:3110`, and `:2312` for a verdict): the
  handler ends after an irreversible transaction and no record of it is stored. It is the fault
  "read" of `AuditService`; `NothingRunsAhead` and `StatusAdvances` hold with it,
  `QuietRecordsMatchChain` is stated without faults.
- *The text of a local file is not the committed one.* For a `file://` URI or an absolute
  path the text is read once (`executable_evidence_resolver.py:94`) and the bytes that are hashed
  again (`:101`, `:388`). If the file changes in between, and changes back, a verdict rests
  on a text that was never committed: the exemption of local files in
  `VerdictsKeepTheCommitment`.
- *A challenge whose verification never ended counts as admissible* in a reputation
  (`service.py:2755-2762`: whatever is not called inadmissible is), while
  `docs/REPUTATION_MODEL.md:62` says that only admissible resolved challenges feed the
  accuracy score. `ReputationIndex` has it as the code does.

## 6. What is not modelled

- What an audit finds: language models, Slither and other tools. `AuditSubmission`
  leaves it open, except for fixtures, whose findings are fixed.
- Words: the parsing of submissions and configuration, the schemas, the wording of
  claims. `SemanticComparison` has sets of words, `ChallengePolicy` the few spellings
  the code tells apart.
- Read-only documents: discovery views, agent registrations, dashboards, the
  API's views of settlements. They change nothing.
- The fee and settlement calls of the API's operators, which are the contract's
  own calls through `TransactionSender`.
- Source bundles: immutable archives named by their digest. The web workbench,
  deployment and demo scripts keep no state of the system.
- The limiter's `Retry-After` header is truncated to whole seconds, which has no
  property, since no document says what it promises.
- That a real network has a key and separate signers is the check of the start on a
  configuration that never changes (`MayStart`): a run has nothing to add to it.

## 7. Plan

Done: all components of section 2 are modelled and checked; every invariant and action
property of the passing runs is proved, and so are the refinements of `AuditLifecycle`
by both flows, by their composition and by the chain of `AuditService`, and the agreement of
the two models of the contract's eligibility test.

Dropped: a weaker form of `StatusAdvances` for two threads. A stale save may go back and
the next read then skips a stage, so what survives of the order of a record's stages is only that each is
on the chain, which is `NothingRunsAhead`.

Left for a later extension: the parsing of the configuration and the fee calls of the API's
operators (section 6), neither of which has state of its own.
