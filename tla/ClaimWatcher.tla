---------------------------- MODULE ClaimWatcher ----------------------------
(***************************************************************************)
(* The challenger watchers: one process that polls the challenger feed for *)
(* each of its watchers in turn, audits the target of every claim of       *)
(* another service again, and challenges the claim when it found more.     *)
(*                                                                         *)
(* The feed shows the newest events only, by the time stamped on them,     *)
(* which is earlier than the write that makes them visible.  The events    *)
(* seen live in the memory of the process.  A challenge the watcher gave   *)
(* up on after a minute may still be carried out by the API, which waits   *)
(* two minutes for its receipt.                                            *)
(***************************************************************************)
EXTENDS Integers, FiniteSets, Sequences, SequencesExt

CONSTANTS
  PublishedClaim,  \* published audits
  Author,          \* Author[c]: the service that claims c
  ReportedCount,   \* ReportedCount[c]: finding_count of claim c
  Overrides,       \* what --strategy may say, "none" if it is not given
  MaxFindings,     \* bound on what an audit of a watcher finds
  Personas,        \* the manifest: a sequence of [service, strategy]
  Limit,           \* feed items per poll
  MaxWatchFaults   \* bound on failed polls and deaths of the process

Strategy == {"auto-challenge", "flag-for-review", "silent-monitor"}
Primary == "proof-of-audit-auditor"

ASSUME WatcherAssumption ==
  /\ DOMAIN Personas \subseteq Nat
  /\ \A i \in DOMAIN Personas :
       Personas[i].service \notin {"none", "other"} /\ Personas[i].strategy \in Strategy
  /\ \A c \in PublishedClaim : Author[c] \notin {"none", "other"}
  /\ Overrides \subseteq Strategy \cup {"none"}

VARIABLES
  watchers,     \* the configurations of the process, numbered in the order of
                \* its loop
  order,        \* the events of all records, oldest timestamp first
  stored,       \* the events whose record is in the store
  challenger,   \* challenger[c]: who posted the bond, "none" if nobody
  late,         \* <<w, c>>: challenges the API still works on, unawaited
  turn,         \* the watcher whose poll it is
  place,        \* where the process is
  fresh,        \* the claims of this poll that are still to be processed
  seen,         \* seen[w]: seen_event_ids of watcher w
  results,      \* results[w][c]: the actions w took on c in this process
  told,         \* <<w, c>>: challenges that were ever reported as made
  faults

watchVars == <<watchers, order, stored, challenger, late, turn, place, fresh,
               seen, results, told, faults>>
apiVars == <<order, stored, challenger, late>>
processVars == <<turn, place, fresh, seen, results, told>>

Config(service, strategy) == [service |-> service, strategy |-> strategy]

\* --strategy replaces the strategy of the manifest.
FromPersona(persona, override) ==
  Config(persona.service, IF override = "none" THEN persona.strategy ELSE override)

\* One service: its first persona, or a silent monitor if it has none.
ResolveAgentConfig(service, override) ==
  LET own == {i \in DOMAIN Personas : Personas[i].service = service}
      first == CHOOSE i \in own : \A j \in own : i <= j
  IN IF own # {} THEN FromPersona(Personas[first], override)
     ELSE FromPersona(Config(service, "silent-monitor"), override)

\* --all-agents: every persona except the primary auditor.
ResolveAllAgents(override) ==
  [i \in {i \in DOMAIN Personas : Personas[i].service # Primary} |->
     FromPersona(Personas[i], override)]

IsFirst(w) == \A v \in DOMAIN watchers : w <= v

Published(c) == <<"audit_published", c>>

\* Of the other kinds one is enough: the watchers pass over all of them.
EventKind == {"audit_published", "challenge_opened"}

NoResults(ws) == [w \in DOMAIN ws |-> [c \in PublishedClaim |-> <<>>]]

\* The process starts when --service-id or --all-agents names a watcher.
WatchInit ==
  /\ \E override \in Overrides :
       \/ watchers = ResolveAllAgents(override)
       \/ \E c \in PublishedClaim : watchers = <<ResolveAgentConfig(Author[c], override)>>
  /\ order = <<>>
  /\ stored = {}
  /\ challenger = [c \in PublishedClaim |-> "none"]
  /\ late = {}
  /\ turn \in DOMAIN watchers /\ IsFirst(turn)
  /\ place = "polling"
  /\ fresh = {}
  /\ seen = [w \in DOMAIN watchers |-> {}]
  /\ results = NoResults(watchers)
  /\ told = {}
  /\ faults = 0

Happened(e) == e \in ToSet(order)

\* The API's side: events are stamped when they happen ...
PublishClaim(c) ==
  /\ ~Happened(Published(c))
  /\ order' = Append(order, Published(c))
  /\ UNCHANGED <<stored, challenger, late>>

\* ... and shown from the write of their record on.
StoreClaim(c) ==
  /\ Happened(Published(c)) /\ Published(c) \notin stored
  /\ stored' = stored \cup {Published(c)}
  /\ UNCHANGED <<order, challenger, late>>

\* A claim is challenged once: the record has to be published.
Challengeable(c) == Published(c) \in stored /\ challenger[c] = "none"

OpenChallenge(c, who) ==
  /\ challenger' = [challenger EXCEPT ![c] = who]
  /\ order' = Append(order, <<"challenge_opened", c>>)
  /\ stored' = stored \cup {<<"challenge_opened", c>>}

OthersChallenge(c) ==
  /\ Challengeable(c)
  /\ OpenChallenge(c, "other")
  /\ UNCHANGED late

\* A challenge nobody waits for ends, with or without effect.
LateChallenge ==
  \E l \in late :
    /\ late' = late \ {l}
    /\ \/ Challengeable(l[2]) /\ OpenChallenge(l[2], watchers[l[1]].service)
       \/ UNCHANGED <<challenger, order, stored>>

FeedStep ==
  \/ \E c \in PublishedClaim : PublishClaim(c) \/ StoreClaim(c) \/ OthersChallenge(c)
  \/ LateChallenge

\* list_challenger_events: of what is in the store, the newest Limit.
Feed ==
  LET shown == {i \in DOMAIN order : order[i] \in stored}
  IN {order[i] : i \in {i \in shown : Cardinality({j \in shown : j > i}) < Limit}}

\* filter_new_claims: of the events not seen yet, the claims of the others.
NewClaims(w) ==
  {c \in PublishedClaim : /\ Published(c) \in Feed \ seen[w]
                          /\ Author[c] # watchers[w].service}

\* Every event of the feed is seen from here on, before any is processed.
PollFeed ==
  /\ place = "polling"
  /\ fresh' = NewClaims(turn)
  /\ seen' = [seen EXCEPT ![turn] = @ \cup Feed]
  /\ place' = "processing"
  /\ UNCHANGED <<turn, results, told, faults>>

\* A feed that cannot be fetched is an empty one.
PollFails ==
  /\ place = "polling" /\ faults < MaxWatchFaults
  /\ faults' = faults + 1
  /\ place' = "processing"
  /\ UNCHANGED <<turn, fresh, seen, results, told>>

\* The claims of a poll are processed from the newest on.
Position(c) == CHOOSE i \in DOMAIN order : order[i] = Published(c)
NextClaim(c) == c \in fresh /\ \A d \in fresh \ {c} : Position(d) < Position(c)

Processing(c) == place = "processing" /\ NextClaim(c)

React(c, action) ==
  /\ results' = [results EXCEPT ![turn][c] = Append(@, action)]
  /\ fresh' = fresh \ {c}

\* A silent monitor looks no further.
Observe(c) ==
  /\ Processing(c)
  /\ watchers[turn].strategy = "silent-monitor"
  /\ React(c, "monitored")
  /\ UNCHANGED <<turn, place, seen, told, faults>>

\* Mutant: a claim whose target could not be audited is passed over.
MutatedReanalysisFails(c) ==
  /\ Processing(c)
  /\ watchers[turn].strategy # "silent-monitor"
  /\ fresh' = fresh \ {c}
  /\ UNCHANGED <<turn, place, seen, results, told, faults>>

\* The audit of the target fails: the claim is skipped, for good.
ReanalysisFails(c) ==
  /\ Processing(c)
  /\ watchers[turn].strategy # "silent-monitor"
  /\ React(c, "skipped")
  /\ UNCHANGED <<turn, place, seen, told, faults>>

\* compare_findings: more findings than the claim reports are a divergence.
Diverges(findings, c) == findings > ReportedCount[c]

\* The target is audited again, and the findings are counted.
Reanalyze(c) ==
  /\ Processing(c)
  /\ watchers[turn].strategy # "silent-monitor"
  /\ \E findings \in 0 .. MaxFindings :
       \/ /\ ~Diverges(findings, c)
          /\ React(c, "monitored") /\ UNCHANGED place
       \/ /\ Diverges(findings, c)
          /\ watchers[turn].strategy = "flag-for-review"
          /\ React(c, "flagged") /\ UNCHANGED place
       \/ /\ Diverges(findings, c)
          /\ watchers[turn].strategy = "auto-challenge"
          /\ place' = "challenging" /\ UNCHANGED <<results, fresh>>
  /\ UNCHANGED <<turn, seen, told, faults>>

\* Mutant: an answer without a transaction counts as a challenge.
MutatedSubmitChallenge(c) ==
  /\ place = "challenging" /\ NextClaim(c)
  /\ place' = "processing"
  /\ React(c, "challenged") /\ told' = told \cup {<<turn, c>>}
  /\ \/ Challengeable(c) /\ OpenChallenge(c, watchers[turn].service)
     \/ UNCHANGED <<challenger, order, stored>>
  /\ UNCHANGED <<late, turn, seen, faults>>

\* POST /audits/{id}/challenge: done and answered; refused or failed; or given
\* up on while the API works on it.
SubmitChallenge(c) ==
  /\ place = "challenging" /\ NextClaim(c)
  /\ place' = "processing"
  /\ \/ /\ Challengeable(c)
        /\ OpenChallenge(c, watchers[turn].service)
        /\ React(c, "challenged") /\ told' = told \cup {<<turn, c>>}
        /\ UNCHANGED late
     \/ /\ React(c, "skipped")
        /\ late' = late \/ late' = late \cup {<<turn, c>>}
        /\ UNCHANGED <<challenger, order, stored, told>>
  /\ UNCHANGED <<turn, seen, faults>>

\* run_watchers: the next watcher polls, after the last one the first.
Follows(w) ==
  LET later == {v \in DOMAIN watchers : v > turn}
  IN w \in DOMAIN watchers
     /\ IF later = {} THEN IsFirst(w) ELSE w \in later /\ \A v \in later : w <= v

\* Mutant: the first watchers poll once.
MutatedNextWatcher ==
  /\ place = "processing" /\ fresh = {}
  /\ \E w \in DOMAIN watchers :
       Follows(w) /\ turn' = IF w > turn THEN w ELSE turn
  /\ place' = "polling"
  /\ UNCHANGED <<fresh, seen, results, told, faults>>

NextWatcher ==
  /\ place = "processing" /\ fresh = {}
  /\ \E w \in DOMAIN watchers : Follows(w) /\ turn' = w
  /\ place' = "polling"
  /\ UNCHANGED <<fresh, seen, results, told, faults>>

\* The process dies and is started again with the same arguments; what it
\* had seen and done is gone.
DieAndRestart ==
  /\ faults < MaxWatchFaults
  /\ faults' = faults + 1
  /\ turn' \in DOMAIN watchers /\ IsFirst(turn')
  /\ place' = "polling"
  /\ fresh' = {}
  /\ seen' = [w \in DOMAIN watchers |-> {}]
  /\ results' = NoResults(watchers)
  /\ UNCHANGED told

WatcherStep ==
  \/ (PollFeed \/ NextWatcher) /\ UNCHANGED apiVars
  \/ \E c \in PublishedClaim :
       \/ (Observe(c) \/ ReanalysisFails(c) \/ Reanalyze(c)) /\ UNCHANGED apiVars
       \/ SubmitChallenge(c)

WatchNext ==
  /\ UNCHANGED watchers
  /\ \/ FeedStep /\ UNCHANGED <<processVars, faults>>
     \/ WatcherStep
     \/ (PollFails \/ DieAndRestart) /\ UNCHANGED apiVars

\* Weakly fair: the loop runs for ever.
WatchersRun == WatcherStep /\ UNCHANGED watchers

-----------------------------------------------------------------------------
(***************************************************************************)
(* Properties                                                              *)
(***************************************************************************)

WatchTypeOK ==
  /\ \A w \in DOMAIN watchers : watchers[w].strategy \in Strategy
  /\ order \in Seq(EventKind \X PublishedClaim)
  /\ stored \subseteq ToSet(order)
  /\ turn \in DOMAIN watchers
  /\ place \in {"polling", "processing", "challenging"}
  /\ fresh \subseteq PublishedClaim
  /\ \A w \in DOMAIN watchers : seen[w] \subseteq stored
  /\ late \cup told \subseteq (DOMAIN watchers) \X PublishedClaim

\* Who is reported to have challenged a claim holds its bond, whatever others,
\* earlier lives of the process and unawaited challenges do; and a watcher
\* challenges only when told to, and never a claim of its own service.
ChallengesAreTrue ==
  /\ \A t \in told : challenger[t[2]] = watchers[t[1]].service
  /\ \A c \in PublishedClaim : challenger[c] \notin {"none", "other"} =>
       /\ challenger[c] # Author[c]
       /\ \E w \in DOMAIN watchers : watchers[w] = Config(challenger[c], "auto-challenge")

\* A process acts on a claim once, however its events come and go in the feed;
\* and a claim it has seen is acted on or still ahead of it in the same poll:
\* no failure of another claim takes it away.
SeenIsReactedToOnce ==
  \A w \in DOMAIN watchers, c \in PublishedClaim :
    /\ Len(results[w][c]) <= 1
    /\ Published(c) \in seen[w] /\ Author[c] # watchers[w].service =>
         results[w][c] # <<>> \/ (w = turn /\ c \in fresh)

\* The watchers lose no claim they saw: WatchTypeOK and SeenIsReactedToOnce.
WatchInvariant == WatchTypeOK /\ SeenIsReactedToOnce

\* A claim in the feed is acted on by every watcher of another service, unless
\* newer events push it out of the feed first.
FeedIsActedOn ==
  \A w \in DOMAIN ResolveAllAgents("none"), c \in PublishedClaim :
    Published(c) \in Feed ~>
      \/ Published(c) \notin Feed
      \/ w \notin DOMAIN watchers
      \/ Author[c] = watchers[w].service
      \/ results[w][c] # <<>>
=============================================================================
