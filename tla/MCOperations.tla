---------------------------- MODULE MCOperations ----------------------------
(***************************************************************************)
(* The parts of the API beside its records' life, for TLC: the sender of   *)
(* transactions, the store, the registries, the reputation index, the      *)
(* verification of challenges, the creation of audits and the guard of the *)
(* endpoints.  They share no state: a behaviour runs one of them and the   *)
(* others stay in one initial state.                                       *)
(***************************************************************************)
EXTENDS TransactionSender, RecordStore, AgentRegistries, ReputationIndex,
        ChallengeVerification, AuditSubmission, ApiGuard

CONSTANT Parts
VARIABLE part   \* the one that runs

operationsVars == <<part, senderVars, storeVars, registryVars, records, caseVars,
                    submissionVars, guardVars>>

-----------------------------------------------------------------------------
\* Every operation of the publisher.
EveryOperation == DOMAIN Operation

\* A policy that asks nothing of a challenge and one that asks a lot.
Strict == [allowed |-> {"executable_test"}, threshold |-> "critical",
           informational |-> FALSE, material |-> TRUE, mode |-> "strict"]
TwoPolicies == {DefaultPolicy, Strict}

\* A report of two findings that calls itself free of critical ones.
Finding(id, severity, class, surface, precondition) ==
  [id |-> id, severity |-> severity, classes |-> {class}, surfaces |-> {surface},
   preconditions |-> precondition, keywords |-> {class, surface}]
TwoFindings ==
  [findings |-> <<Finding("f1", "low", "reentrancy", "withdraw", {"re-entrant call path"}),
                  Finding("f2", "critical", "upgrade", "setadmin", {})>>,
   saysClean |-> FALSE, saysNoCritical |-> TRUE]

\* Policies as publishers send them: with no field set, a demanding one, one
\* with an unknown type, one with the long word, and one that is rejected.
Blank == [allowed |-> {}, threshold |-> "", informational |-> TRUE,
          material |-> FALSE, mode |-> ""]
SentPolicies ==
  {Blank,
   [Blank EXCEPT !.allowed = {"executable_test"}, !.threshold = "medium",
                 !.mode = "strict", !.informational = FALSE],
   [Blank EXCEPT !.allowed = {"deterministic_fixture", "unknown"}, !.material = TRUE],
   [Blank EXCEPT !.threshold = "informational"],
   [Blank EXCEPT !.mode = "weak"]}

\* Bundles: four versions of the test, one pinned to a block, one that names
\* another version than its own, one with two tests.
Bundle(v, m) ==
  [version |-> v, tests |-> {"t"}, manifest |-> m, admitted |-> TRUE, reachable |-> TRUE]
Bundles ==
  {Bundle(1, NoManifest), Bundle(2, NoManifest), Bundle(3, NoManifest),
   Bundle(1, [NoManifest EXCEPT !.pinned = 5]),
   Bundle(4, [NoManifest EXCEPT !.entrypoint = "t", !.version = 3]),
   [Bundle(2, NoManifest) EXCEPT !.tests = {"t", "u"}]}
PassingBlocks == <<{7}, {5, 7}, {5, 7}, {5}>>
Words == <<{"reentrancy", "withdraw"}, {"rotateowner"}, {"setadmin"}, {}>>
Answers == {HeuristicClaim({"unchecked"}), HeuristicClaim({})}

\* A URI alone, a local file, a bundle alone, and bundles with a manifest: for
\* the block of the claim, for one of their own, for another chain, for other
\* files.
Given == [NoManifest EXCEPT !.given = TRUE, !.entrypoint = "t", !.chain = ChainId]
Executable(manifest) ==
  [type |-> "executable_test", env |-> "foundry", local |-> FALSE, manifest |-> manifest]
LocalFile(manifest) == [Executable(manifest) EXCEPT !.local = TRUE]
SentChallenges ==
  {[NoSubmission EXCEPT !.type = "deterministic_fixture"], LocalFile(NoManifest),
   LocalFile([Given EXCEPT !.version = 2])}
    \cup {Executable(m) : m \in
            {NoManifest, Given, [Given EXCEPT !.pinned = 5],
             [Given EXCEPT !.pinned = 7, !.chain = 2], [Given EXCEPT !.version = 2]}}
Local == [name |-> "local_subprocess", executable |-> TRUE, image |-> FALSE,
          url |-> FALSE, auth |-> "none"]
ThreeBackends ==
  {Local, [Local EXCEPT !.name = "docker"],
   [Local EXCEPT !.name = "gcp_cloud_run", !.url = TRUE, !.auth = "audience"]}

\* The primary service runs every detector, the other one a single family.
Families == {"reentrancy", "access"}
Scopes == [primary |-> {}, hawk |-> {"reentrancy"}]
Deployment(mode, hosted, storage, fallback, local) ==
  [mode |-> mode, hosted |-> hosted, storage |-> storage, fallback |-> fallback,
   local |-> local, client |-> TRUE]
Demo == Deployment("deterministic", FALSE, "local", TRUE, TRUE)
Deployments ==
  {Demo, [Deployment("hybrid", FALSE, "local", FALSE, FALSE) EXCEPT !.client = FALSE],
   Deployment("hybrid", TRUE, "gcs", TRUE, FALSE),
   Deployment("agent_forge", TRUE, "local", TRUE, TRUE)}
Fixture(service) ==
  [kind |-> "demo_fixture", service |-> service, benchmark |-> TRUE, legacy |-> FALSE]
SentAudits ==
  {Fixture("primary"), Fixture("hawk")}
    \cup [kind : {"deployed_address", "repository_url", "source_bundle"},
          service : {"hawk"}, benchmark : {FALSE}, legacy : {FALSE}]
\* Nothing tells two audits, or two contracts of a proxy, apart.
Alike == Permutations(AuditId) \cup Permutations(Implementation)
TwoFixtures == {Fixture("primary"), Fixture("hawk")}
DemoOnly == {Demo}

\* A local network, and others: with four signers, with a role that falls back
\* to the owner's key, with a shared signer, open to every origin, without keys.
Environment(local, keys, cors, owner, validator) ==
  [local |-> local, keys |-> keys, cors |-> cors, publisher |-> 1, arbiter |-> 2,
   owner |-> owner, validator |-> validator, reputation |-> 4]
LocalNetwork ==
  [Environment(TRUE, {}, "unset", 0, 0) EXCEPT !.arbiter = 0, !.reputation = 0]
SixEnvironments ==
  {LocalNetwork, Environment(FALSE, {"k1"}, "unset", 0, 3),
   Environment(FALSE, {"k1"}, "named", 3, 0), Environment(FALSE, {"k1"}, "named", 0, 0),
   Environment(FALSE, {"k1"}, "wildcard", 0, 3), Environment(FALSE, {}, "named", 0, 3)}

-----------------------------------------------------------------------------
\* The part that runs starts anywhere, the others in one of their states.
OperationsInit ==
  /\ part \in Parts
  /\ SenderInit /\ (part # "sender" => world["audit"] = 0)
  /\ StoreInit /\ (part # "store" => kind = "json")
  /\ RegistryInit
  /\ ReputationInit
  /\ CaseInit /\ (part # "verification" =>
       /\ published = [policy |-> DefaultPolicy, inputKind |-> "source_bundle",
                       rpc |-> FALSE, backend |-> Local, snapshot |-> 0]
       /\ served = Bundle(1, NoManifest))
  /\ SubmissionInit /\ (part # "submissions" => setup = Demo /\ chain.slot = Nowhere)
  /\ GuardInit /\ (part # "guard" => config = LocalNetwork)

OperationsNext ==
  /\ UNCHANGED part
  /\ IF part = "sender" THEN SenderNext ELSE UNCHANGED senderVars
  /\ IF part = "store" THEN StoreNext ELSE UNCHANGED storeVars
  /\ IF part = "registries" THEN RegistryNext ELSE UNCHANGED registryVars
  /\ IF part = "reputation" THEN ReputationNext ELSE UNCHANGED records
  /\ IF part = "verification" THEN CaseNext ELSE UNCHANGED caseVars
  /\ IF part = "submissions" THEN SubmissionNext ELSE UNCHANGED submissionVars
  /\ IF part = "guard" THEN GuardNext ELSE UNCHANGED guardVars

OperationsSpec == OperationsInit /\ [][OperationsNext]_operationsVars
=============================================================================
