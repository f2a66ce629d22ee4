------------------------- MODULE RequestEligibility -------------------------
(***************************************************************************)
(* Who may claim an audit request: the filters a client sends and what the *)
(* API makes of them when it opens the request, what the contract requires *)
(* of a claim, and the two answers the API gives beforehand: the preview   *)
(* of the marketplace, from the filters alone, and the eligibility of one  *)
(* service for one request, from the rules on the chain.                   *)
(***************************************************************************)
EXTENDS Integers

CONSTANTS
  Service,         \* the auditor services of the directory
  RequiredStake    \* the contract's requiredStake

\* An on-chain identity; the one of a service without any; an agent id that a
\* filter leaves out; a total stake that the reputation registry did not tell.
Identity(agent, registry) == [agent |-> agent, registry |-> registry]
NoIdentity == Identity(0, "none")
NoAgent == -1
NoStake == -1

\* A negative minimum asks nothing, an unknown mode is an open one.
NormalizeFilters(f) ==
  [f EXCEPT !.minimumStake = IF @ < 0 THEN 0 ELSE @,
            !.mode = IF @ = "allowlist" THEN @ ELSE "open"]

\* The identity a request requires: of a named service, which the other two
\* fields must then not contradict, or given by both of them, or none.  The
\* set is empty when the filters are rejected.
RequiredIdentity(f, directory) ==
  {i \in {directory[s] : s \in Service \cap {f.service}} :
     /\ i # NoIdentity
     /\ f.agent \in {NoAgent, i.agent}
     /\ f.registry \in {"none", i.registry}}
  \cup {i \in {NoIdentity} :
          f.service = "none" /\ f.agent = NoAgent /\ f.registry = "none"}
  \cup {i \in {Identity(f.agent, f.registry)} :
          f.service = "none" /\ f.agent > 0 /\ f.registry # "none"}

\* The accounts of an allowlist: who owns the identities of its services now.
\* Empty, again, when it is rejected.
ResolvedAllowlist(f, directory, owner) ==
  LET known == {s \in f.allowed \cap Service : directory[s] # NoIdentity}
  IN {a \in {{owner[directory[s]] : s \in known}} :
        f.mode = "allowlist" => f.allowed # {} /\ f.allowed = known}

\* The rules a request is opened with, which its record repeats.
NoRules == [minimumStake |-> 0, allowlist |-> FALSE, allowlisted |-> {},
            required |-> NoIdentity]
Rules(f, directory, owner) ==
  {[minimumStake |-> f.minimumStake, allowlist |-> f.mode = "allowlist",
    allowlisted |-> IF f.mode = "allowlist" THEN a ELSE {}, required |-> i] :
      i \in RequiredIdentity(f, directory),
      a \in ResolvedAllowlist(f, directory, owner)}

\* submitAuditRequestClaim: what the contract asks of a claim in the name of an
\* identity, besides an open request and no earlier claim.
ContractAdmits(rules, identity, sender, value, owner) ==
  /\ identity # NoIdentity
  /\ rules.allowlist => sender \in rules.allowlisted
  /\ rules.required # NoIdentity => identity = rules.required
  /\ owner[identity] = sender
  /\ value >= RequiredStake /\ value >= rules.minimumStake

\* The preview of the stake: the total the registry has of the service.
StakeReasons(minimum, observed) ==
  IF minimum > 0 /\ observed < minimum THEN {"stake"} ELSE {}

\* _build_auditor_matches: the reasons against a service, by the filters.
MatchReasons(f, directory, s, observed) ==
  StakeReasons(f.minimumStake, observed)
    \cup {x \in {"allowlist"} : f.mode = "allowlist" /\ s \notin f.allowed}
    \cup {x \in {"service"} : f.service \notin {"none", s}}
    \cup {x \in {"agent"} :
            f.agent # NoAgent
              /\ (directory[s] = NoIdentity \/ f.agent # directory[s].agent)}
    \cup {x \in {"registry"} : f.registry \notin {"none", directory[s].registry}}

\* _request_eligibility_reasons normalises the registry of the service before
\* it compares it, and a service without one is an error instead of an answer.
EligibilityRaises(rules, directory, s) ==
  rules.required # NoIdentity /\ directory[s] = NoIdentity

\* The other reasons against a service, by the rules on the chain and the owner
\* of its identity now; an owner that cannot be read is a reason.
EligibilityReasons(rules, directory, owner, s, observed, resolved) ==
  StakeReasons(rules.minimumStake, observed)
    \cup {x \in {"allowlist"} :
            rules.allowlist /\ ~( /\ directory[s] # NoIdentity
                                  /\ resolved
                                  /\ owner[directory[s]] \in rules.allowlisted )}
    \cup {x \in {"identity"} : rules.required \notin {NoIdentity, directory[s]}}
=============================================================================
