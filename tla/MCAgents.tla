------------------------------ MODULE MCAgents ------------------------------
(***************************************************************************)
(* The two agents that work against the API, for TLC: the participation    *)
(* agent with the marketplace it serves, and the challenger watchers.      *)
(* They share no state, so a behaviour runs one of them and the other      *)
(* stays in its initial state.                                             *)
(***************************************************************************)
EXTENDS RequestParticipation, ClaimWatcher

\* Both services registered, both for one identity, or the agent for none.
Agents(me, you) == [s \in Service |-> IF s = Self THEN me ELSE you]
ThreeDirectories ==
  {Agents(Identity(1, "reg"), Identity(2, "reg")),
   Agents(Identity(1, "reg"), Identity(1, "reg")),
   Agents(NoIdentity, Identity(1, "reg"))}

\* Request 1 is for whoever owns the agent's identity now, for the agent by name
\* with more stake, or for identity 1; a client may also name a service and an
\* agent id that differ, or an empty allowlist.  Request 2 is for everybody.
Allowlist == [NoFilters EXCEPT !.mode = "allowlist", !.allowed = {Self}]
ByName == [NoFilters EXCEPT !.service = Self, !.minimumStake = 2]
ByIdentity == [NoFilters EXCEPT !.agent = 1, !.registry = "reg", !.mode = "odd"]
RequestFilters ==
  [r \in Request |->
     IF r = 2 THEN {[NoFilters EXCEPT !.minimumStake = -1]}
     ELSE {Allowlist, ByName, ByIdentity, [ByName EXCEPT !.agent = 3],
           [Allowlist EXCEPT !.allowed = {}]}]

\* Two requests for the audit of one contract.
OneTarget == [r \in Request |-> "vault"]

\* Both pay enough.
RequestTerms ==
  [r \in Request |->
     [inputKind |-> "deployed_address", bounty |-> 5, minimumBounty |-> 2,
      protocolFee |-> 0, opportunityCost |-> 1]]

\* One claim of a watcher's own service and one of a guest; both report one
\* finding.
Authors == [c \in PublishedClaim |-> IF c = 1 THEN "hawk" ELSE "guest"]
OneFinding == [c \in PublishedClaim |-> 1]
Manifest ==
  <<Config(Primary, "silent-monitor"), Config("hawk", "auto-challenge"),
    Config("owl", "auto-challenge")>>

VARIABLE part   \* the agent that runs

agentsVars == <<part, participationVars, watchVars>>

\* Request 1 names an account or a service where both services have an
\* identity of their own, and an identity where they do not.  An identity is
\* sold only while there is no second request.  A client's draft is of the one
\* target, whichever request it had in mind.
FewInputs ==
  /\ \A a \in DOMAIN audits' : audits'[a].submittedBy = "anonymous" => audits'[a].request = 1
  /\ chain'[2] # "none" => transfers' = 0
  /\ asked'[1] \in {NoFilters}
       \cup IF Cardinality(Identities) = 2 THEN {Allowlist, ByName} ELSE {NormalizeFilters(ByIdentity)}

FirstHandler == CHOOSE h \in Handler : TRUE
Others == Handler \ {FirstHandler}

OneHandler == \A h \in Others : job'[h] = NoJob

\* Each service makes one draft, while no handler works.
DraftEach ==
  /\ audits' # audits => job' # job \/ \A h \in Handler : job[h] = NoJob
  /\ \A a, b \in DOMAIN audits' : audits'[a].service = audits'[b].service => a = b

\* Handlers race for the drafts of two services when both requests are indexed,
\* the second request stays open, the fault is a failed read of one of them, and
\* it is the first that starts when none is at work.
TwoHandlers ==
  /\ transfers' = 0 /\ chain'[2] # "closed"
  /\ apiFaults' # apiFaults =>
       \E h \in Handler : job[h].step = "staked" /\ job' = [job EXCEPT ![h] = NoJob]
  /\ job' # job => creating = {} /\ \A r \in Request : index[r] # "absent"
  /\ \A h \in Others : job[h] = NoJob /\ job'[h] # NoJob => job[FirstHandler] # NoJob

\* Beside the agent one handler reads or publishes one audit, one client asks for
\* an audit of request 1, and no identity is sold.
OneOfEach ==
  /\ transfers' = 0 /\ asked'[1] # ByName
  /\ OneHandler /\ job'[FirstHandler].audit \in {0, 1} /\ job'[FirstHandler].request = 0
  /\ \A a \in DOMAIN audits' : audits'[a].submittedBy = "anonymous" =>
       a = 1 /\ audits'[a].service = Self

\* An agent that does not start: its log is torn.
NoProcess ==
  /\ submits = TRUE /\ agent = At("torn", 0, "none")
  /\ todo = {} /\ active = 0 /\ log = <<>> /\ agentCrashes = 0

\* The requests with all their filters and one handler at a time, or one kind
\* of request and handlers that race for the drafts of two services that share
\* an identity, or one of the agents.
AgentsInit ==
  /\ part \in {"requests", "races", "participation", "watchers"}
  /\ MarketInit
  /\ owner[Identity(1, "reg")] = Publisher
  /\ part \notin {"requests", "races"} => \A i \in Identities : owner[i] = Publisher
  /\ part = "races" => Cardinality(Identities) = 1 /\ directory[Self] # NoIdentity
  /\ part = "watchers" => Cardinality(Identities) = 2
  /\ part = "participation" => Cardinality(Identities) = 2 \/ directory[Self] = NoIdentity
  /\ IF part = "participation" THEN ParticipationInit ELSE NoProcess
  /\ WatchInit /\ (part # "watchers" => watchers = ResolveAllAgents("none"))

AgentsNext ==
  /\ UNCHANGED part
  /\ \/ /\ part \in {"requests", "races"}
        /\ MarketStep /\ UNCHANGED <<agentVars, submits, watchVars>>
        /\ FewInputs /\ DraftEach
        /\ IF part = "requests" THEN OneHandler ELSE TwoHandlers
     \/ /\ part = "participation"
        /\ ParticipationNext /\ UNCHANGED watchVars
        /\ FewInputs /\ OneOfEach
     \/ part = "watchers" /\ WatchNext /\ UNCHANGED participationVars

AgentsSpec ==
  /\ AgentsInit /\ [][AgentsNext]_agentsVars
  /\ WF_agentsVars(part = "participation" /\ LoopRuns /\ UNCHANGED <<part, watchVars>>)
  /\ WF_agentsVars(part = "participation" /\ PostEnds /\ UNCHANGED <<part, watchVars>>)
  /\ WF_agentsVars(part = "participation" /\ IsRestarted /\ UNCHANGED <<part, watchVars>>)
  /\ WF_agentsVars(part = "watchers" /\ WatchersRun /\ UNCHANGED <<part, participationVars>>)
=============================================================================
