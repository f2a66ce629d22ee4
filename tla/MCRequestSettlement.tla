------------------------- MODULE MCRequestSettlement -------------------------
(***************************************************************************)
(* Instances of RequestSettlement for TLC.                                 *)
(***************************************************************************)
EXTENDS RequestSettlement

CONSTANTS Alice, Bob, Judge, Agents

\* Agents 1, 2 and 3 belong to Alice, Bob and Judge.
OwnerOf ==
  [identity \in Registry \X AgentId |->
     CASE identity[2] = 1 -> Alice
       [] identity[2] = 2 -> Bob
       [] OTHER           -> Judge]

Nobody == {}
AgentOne == {<<Agents, 1>>}

\* Anyone may claim.
AnyRule ==
  [minimumStakeAmount |-> 0, allowlistEnabled |-> FALSE,
   allowlistedAuditors |-> {Alice}, identityRegistry |-> NoAddress,
   requiredAgentId |-> 0]

\* A higher stake, and claimants from a list.
ListRule ==
  [AnyRule EXCEPT !.minimumStakeAmount = 4,
                  !.allowlistEnabled = TRUE,
                  !.allowlistedAuditors = {Alice, Bob}]

\* One named agent of one registry.
NamedRule ==
  [AnyRule EXCEPT !.identityRegistry = Agents, !.requiredAgentId = 2]

\* Lists that createAuditRequest rejects.
BadRules ==
  {[ListRule EXCEPT !.allowlistedAuditors = {}],
   [ListRule EXCEPT !.allowlistedAuditors = {Alice, NoAddress}]}

OpenRules == {AnyRule}
EveryRule == {AnyRule, ListRule, NamedRule} \cup BadRules
=============================================================================
