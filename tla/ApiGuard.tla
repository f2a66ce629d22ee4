------------------------------ MODULE ApiGuard ------------------------------
(***************************************************************************)
(* The front of the API: what create_app refuses to start with, and the    *)
(* guard of every POST endpoint (security.py): the API key, then one       *)
(* sliding window of admitted calls per caller, with the eviction that     *)
(* bounds the table of callers.                                            *)
(*                                                                         *)
(* The endpoints that only read have no guard and ask for no key, although *)
(* a read may store the record again (NormalizeAudit, Refresh).            *)
(***************************************************************************)
EXTENDS Naturals, FiniteSets, SequencesExt

CONSTANTS
    Presentable,    \* values a caller may put in the X-API-Key header
    Host,           \* addresses callers come from
    Environments,   \* what a deployment may set: network, keys, CORS, signers
    Limit,          \* mutating_rate_limit_per_minute
    Window,         \* the trailing window, in ticks
    TableLimit,     \* callers the table holds before it is cleaned
    MaxTime         \* bound: the clock

VARIABLES
    config,     \* the environment the process was started in
    running,    \* whether create_app returned an application
    clock,      \* time.monotonic
    hits,       \* caller -> times of its admitted calls the table still holds
    admitted,   \* caller -> times of all its admitted calls of the last window
    answer      \* the last answer of the guard

guardVars == <<config, running, clock, hits, admitted, answer>>

\* A header that is absent, or blank once stripped.
NoKey == "none"
Identity == (Presentable \X {"key"}) \cup (Host \X {"ip"})

ASSUME GuardAssumption ==
    /\ NoKey \notin Presentable
    /\ Limit \in Nat /\ Window \in Nat \ {0} /\ TableLimit \in Nat /\ MaxTime \in Nat

-----------------------------------------------------------------------------

\* The first variable of a cascade that is set (0: none is).
FirstSet(values) ==
    LET set == {i \in DOMAIN values : values[i] # 0}
    IN IF set = {} THEN 0 ELSE values[CHOOSE i \in set : \A j \in set : i <= j]

\* from_env: the signer of each trust role, with its fallbacks.
Signer(e) ==
    [publisher  |-> e.publisher,
     arbiter    |-> FirstSet(<<e.arbiter, e.publisher>>),
     validator  |-> FirstSet(<<e.validator, e.owner, e.arbiter, e.publisher>>),
     reputation |-> FirstSet(<<e.reputation, e.validator, e.owner, e.arbiter, e.publisher>>)]

\* from_env: origins default to every origin on a local network, to none elsewhere.
Wildcard(e) == e.cors = "wildcard" \/ (e.cors = "unset" /\ e.local)

\* key_separation_violations: two roles with keys sign with one address.
SharedRoles(e) ==
    \E r, q \in DOMAIN Signer(e) : r # q /\ Signer(e)[r] = Signer(e)[q] /\ Signer(e)[r] # 0

\* _enforce_key_separation and _enforce_api_security.
MayStart(e) == e.local \/ (~SharedRoles(e) /\ e.keys # {} /\ ~Wildcard(e))

\* The table keys callers by the key they presented, else by their address.
CallerOf(key, host) == IF key # NoKey THEN <<key, "key">> ELSE <<host, "ip">>

Expired(time, now) == time + Window <= now

\* The times popped from the left of a bucket: while the first has expired.
Popped(times, now) ==
    CHOOSE n \in 0..Len(times) :
        /\ \A i \in 1..n : Expired(times[i], now)
        /\ n < Len(times) => ~Expired(times[n + 1], now)

Fresh(times, now) == SubSeq(times, Popped(times, now) + 1, Len(times))

Bucket(caller) == IF caller \in DOMAIN hits THEN Fresh(hits[caller], clock) ELSE <<>>

\* Mutant: a caller is forgotten as soon as its oldest call expires.
MutatedStale(caller) == hits[caller] = <<>> \/ Expired(Head(hits[caller]), clock)

\* A caller whose whole window is stale.
Stale(caller) == hits[caller] = <<>> \/ Expired(Last(hits[caller]), clock)

\* The callers the table keeps when this one calls.
Kept(caller) ==
    LET known == DOMAIN hits \cup {caller}
    IN IF Cardinality(known) > TableLimit
       THEN {other \in known : other = caller \/ ~Stale(other)} ELSE known

HasRoom(caller) == Len(Bucket(caller)) < Limit

\* _SlidingWindowRateLimiter.check.  The clock is read just before the lock is
\* taken; the two are one step here, so no tick falls between them.
Check(caller, key) ==
    IF Limit = 0
    THEN /\ answer' = [status |-> "admitted", key |-> key]
         /\ UNCHANGED <<hits, admitted>>
    ELSE LET bucket == IF HasRoom(caller) THEN Append(Bucket(caller), clock)
                       ELSE Bucket(caller)
         IN /\ hits' = [other \in Kept(caller) |->
                          IF other = caller THEN bucket ELSE hits[other]]
            /\ admitted' = IF HasRoom(caller)
                           THEN [admitted EXCEPT ![caller] = Append(@, clock)] ELSE admitted
            /\ answer' = [status |-> IF HasRoom(caller) THEN "admitted" ELSE "limited",
                          key |-> key]

\* The order of the guard's own refusals.
Refusal(key) ==
    CASE config.keys # {} /\ key = NoKey -> "unauthorized"
      [] config.keys # {} /\ key # NoKey /\ key \notin config.keys -> "forbidden"
      [] OTHER -> "none"

\* A mutating request reaches the guard.
Call ==
    /\ running
    /\ \E key \in Presentable \cup {NoKey}, host \in Host :
         IF Refusal(key) # "none"
         THEN /\ answer' = [status |-> Refusal(key), key |-> key]
              /\ UNCHANGED <<hits, admitted>>
         ELSE Check(CallerOf(key, host), key)
    /\ UNCHANGED <<config, running, clock>>

Tick ==
    /\ running /\ clock < MaxTime
    /\ clock' = clock + 1
    /\ admitted' = [c \in Identity |-> Fresh(admitted[c], clock + 1)]
    /\ answer' = [status |-> "none", key |-> NoKey]
    /\ UNCHANGED <<config, running, hits>>

GuardInit ==
    /\ config \in Environments
    /\ running = MayStart(config)
    /\ clock = 0
    /\ hits = << >>
    /\ admitted = [c \in Identity |-> <<>>]
    /\ answer = [status |-> "none", key |-> NoKey]

GuardNext == Call \/ Tick

-----------------------------------------------------------------------------
(* Properties.                                                             *)

\* Every variable has its type.
GuardTypeOK ==
    /\ config \in Environments /\ running \in BOOLEAN
    /\ clock \in 0..MaxTime
    /\ DOMAIN hits \subseteq Identity
    /\ answer.status \in {"none", "admitted", "limited", "unauthorized", "forbidden"}

\* The limiter is exact whatever the table drops: no caller has more than Limit
\* calls admitted in any trailing window, and a caller is turned away only when
\* it has used all of them (security.py _SlidingWindowRateLimiter.check).
WindowIsExact ==
    Limit > 0 =>
      /\ \A c \in Identity : Len(admitted[c]) <= Limit
      /\ answer.status = "limited" =>
           \E c \in Identity : Len(admitted[c]) = Limit
                               /\ (c[2] = "key" <=> answer.key # NoKey)

\* The guard counts right: GuardTypeOK and WindowIsExact.
GuardInvariant == GuardTypeOK /\ WindowIsExact
=============================================================================
