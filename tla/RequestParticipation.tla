------------------------ MODULE RequestParticipation ------------------------
(***************************************************************************)
(* The participation agent: a process that polls the open requests of the  *)
(* API, decides once on each, posts a draft for those it accepts and       *)
(* appends its decision to a JSONL log, its only memory.                   *)
(*                                                                         *)
(* Nothing in the loop catches an error: a failed call of the API or a     *)
(* crash ends the process, which reads the log again when it is restarted. *)
(* A request keeps its fingerprint while it is shown as open (its stored   *)
(* and its refreshed fields agree), so a decision is known by the request. *)
(***************************************************************************)
EXTENDS RequestMarketplace

CONSTANTS
  Self,           \* the agent's service
  Terms,          \* Terms[r]: what the decision depends on
  Capacity,       \* max_concurrent_audits
  MaxAgentCrashes

ASSUME ParticipationAssumption ==
  Capacity \in Nat \ {0} /\ MaxAgentCrashes \in Nat /\ Self \in Service

VARIABLES
  submits,      \* submission_enabled: drafts are posted, or only logged
  agent,        \* where run_once is
  todo,         \* the requests of the poll that are still to be looked at, in
                \* the order of the list: the newest, of the largest id, first
  active,       \* active_audits of the poll
  log,          \* the lines of the JSONL file
  agentCrashes

agentVars == <<agent, todo, active, log, agentCrashes>>

\* "torn" is a process that cannot start: its log ends in half a line.
Place == {"sleeping", "looping", "deciding", "posting", "appending", "down", "torn"}

At(place, r, action) == [place |-> place, request |-> r, action |-> action]
Sleeping == At("sleeping", 0, "none")
Down == At("down", 0, "none")

ParticipationInit ==
  /\ submits \in BOOLEAN
  /\ agent = Sleeping
  /\ todo = {}
  /\ active = 0
  /\ log = <<>>
  /\ agentCrashes = 0

Accepting == {"would_submit", "submitted"}

\* Every line that ever accepted a request counts.
ActiveSubmissionCount ==
  Cardinality({i \in DOMAIN log : log[i].action \in Accepting})

\* A poll: count, then list the open requests as the API shows them.
Poll ==
  /\ agent = Sleeping
  /\ \E readable \in SUBSET Request : todo' = ListedOpen(readable)
  /\ active' = ActiveSubmissionCount
  /\ agent' = At("looping", 0, "none")
  /\ UNCHANGED <<log, agentCrashes>>

\* Mutant: the log is not asked.
MutatedHasDecision(r) == FALSE

HasDecision(r) == \E i \in DOMAIN log : log[i].request = r

Newest(r) == r \in todo /\ \A q \in todo : q <= r

\* Mutant: a request that has a decision ends the poll.
MutatedNextRequest ==
  /\ agent.place = "looping"
  /\ \E r \in Request :
       /\ Newest(r)
       /\ IF HasDecision(r) THEN agent' = Sleeping /\ todo' = {}
          ELSE agent' = At("deciding", r, "none") /\ todo' = todo \ {r}
  /\ UNCHANGED <<active, log, agentCrashes>>

\* The next request of the poll: one that has a decision is passed over.
NextRequest ==
  /\ agent.place = "looping"
  /\ \E r \in Request :
       /\ Newest(r)
       /\ todo' = todo \ {r}
       /\ IF HasDecision(r) THEN UNCHANGED agent
          ELSE agent' = At("deciding", r, "none")
  /\ UNCHANGED <<active, log, agentCrashes>>

EndPoll ==
  /\ agent.place = "looping" /\ todo = {}
  /\ agent' = Sleeping
  /\ active' = 0
  /\ UNCHANGED <<todo, log, agentCrashes>>

\* _decide: the kind of input, the API's eligibility answer, the bounty, the
\* capacity and what is left of the bounty, in this order.
Accepts(r, eligible) ==
  /\ Terms[r].inputKind = "deployed_address"
  /\ eligible
  /\ Terms[r].bounty >= Terms[r].minimumBounty
  /\ active < Capacity
  /\ Terms[r].bounty - Terms[r].protocolFee - Terms[r].opportunityCost > 0

\* The answer on eligibility is as good as the API's reading of the chain; the
\* registry's total of the agent is what a claim takes.
Decide ==
  /\ agent.place = "deciding"
  /\ ~EligibilityRaises(rules[agent.request], directory, Self)
  /\ \E resolved \in BOOLEAN, observed \in Stakes :
       IF ~Accepts(agent.request, Eligible(agent.request, Self, observed, resolved))
       THEN agent' = At("appending", agent.request, "skip") /\ UNCHANGED active
       ELSE IF submits
       THEN agent' = At("posting", agent.request, "would_submit") /\ UNCHANGED active
       ELSE /\ agent' = At("appending", agent.request, "would_submit")
            /\ active' = active + 1
  /\ UNCHANGED <<todo, log, agentCrashes>>

\* No answer but an error: the process dies, and will again at this request.
EligibilityFails ==
  /\ agent.place = "deciding"
  /\ EligibilityRaises(rules[agent.request], directory, Self)
  /\ agent' = Down
  /\ todo' = {}
  /\ active' = 0
  /\ UNCHANGED <<log, agentCrashes>>

\* POST /audits: the draft exists when the answer comes.
PostDraft ==
  /\ agent.place = "posting"
  /\ CreateDraft(agent.request, Self, "listener")
  /\ active' = active + 1
  /\ agent' = At("appending", agent.request, "submitted")
  /\ UNCHANGED <<todo, log, agentCrashes>>

AppendDecision ==
  /\ agent.place = "appending"
  /\ log' = Append(log, [request |-> agent.request, action |-> agent.action])
  /\ agent' = At("looping", 0, "none")
  /\ UNCHANGED <<todo, active, agentCrashes>>

\* The process dies: it is killed, or a call of the API failed.  A line that
\* was being written may be left unfinished.
CrashAgent ==
  /\ agent.place \notin {"down", "torn"}
  /\ agentCrashes < MaxAgentCrashes
  /\ agentCrashes' = agentCrashes + 1
  /\ agent' = Down \/ (agent.place = "appending" /\ agent' = At("torn", 0, "none"))
  /\ todo' = {}
  /\ active' = 0
  /\ UNCHANGED log

\* The answer of POST /audits is lost after the draft was created.
LoseAnswer ==
  /\ agent.place = "posting"
  /\ agentCrashes < MaxAgentCrashes
  /\ agentCrashes' = agentCrashes + 1
  /\ CreateDraft(agent.request, Self, "listener")
  /\ agent' = Down
  /\ todo' = {}
  /\ active' = 0
  /\ UNCHANGED log

\* The log is loaded; half a line is not JSON and stops the start for good.
Restart ==
  /\ agent = Down
  /\ agent' = Sleeping
  /\ UNCHANGED <<todo, active, log, agentCrashes>>

\* What the running loop does next.
AgentStep ==
  \/ Poll
  \/ NextRequest
  \/ EndPoll
  \/ Decide
  \/ EligibilityFails
  \/ AppendDecision

ParticipationNext ==
  /\ UNCHANGED submits
  /\ \/ MarketStep /\ UNCHANGED agentVars
     \/ (AgentStep \/ CrashAgent \/ Restart) /\ UNCHANGED marketVars
     \/ (PostDraft \/ LoseAnswer) /\ OnlyDrafts

participationVars == <<marketVars, agentVars, submits>>

\* What happens in the end, each weakly fair: the loop is a while TRUE with a
\* sleep, a posted draft is answered, and a process that is down is started
\* again by its operator.
LoopRuns == AgentStep /\ UNCHANGED <<marketVars, submits>>
PostEnds == PostDraft /\ OnlyDrafts /\ UNCHANGED submits
IsRestarted == Restart /\ UNCHANGED <<marketVars, submits>>

-----------------------------------------------------------------------------
(***************************************************************************)
(* Properties                                                              *)
(***************************************************************************)

ParticipationTypeOK ==
  /\ submits \in BOOLEAN
  /\ agent \in [place : Place, request : Request \cup {0},
                action : {"none", "skip", "would_submit", "submitted"}]
  /\ todo \subseteq Request
  /\ active \in Nat
  /\ log \in Seq([request : Request, action : {"skip", "would_submit", "submitted"}])

DraftsOf(requests) ==
  Cardinality({a \in DOMAIN audits :
    audits[a].submittedBy = "listener" /\ audits[a].request \in requests})

\* The agent takes on no more audits than its capacity: the log accepts no
\* more across all restarts, and a draft beyond it was paid for by a death of
\* the process between the draft and the line of the log.
CapacityHolds ==
  /\ ActiveSubmissionCount <= Capacity
  /\ DraftsOf(Request) <= Capacity + agentCrashes

\* A request is decided once, and drafted again only after a death.
DecidedOnce ==
  /\ \A i, j \in DOMAIN log : log[i].request = log[j].request => i = j
  /\ \A r \in Request : DraftsOf({r}) <= 1 + agentCrashes

\* The agent keeps to its limits: ParticipationTypeOK, CapacityHolds and
\* DecidedOnce.
ParticipationInvariant == ParticipationTypeOK /\ CapacityHolds /\ DecidedOnce

\* A request the API shows as open from some time on is decided in the end,
\* unless the log was torn: a skipped or unwanted request before it does not
\* hold it up.  Only a newer one whose eligibility is an error does, for good: the
\* agent dies of it in every poll that reaches it.
OpenRequestsAreDecided ==
  \A r \in Request :
    index[r] = "open" ~>
      \/ HasDecision(r) \/ chain[r] # "open" \/ agent.place = "torn"
      \/ \E q \in Request :
           q >= r /\ index[q] = "open" /\ EligibilityRaises(rules[q], directory, Self)
=============================================================================
