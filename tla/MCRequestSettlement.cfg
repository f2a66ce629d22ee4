SPECIFICATION RequestSpec
CONSTANTS
  Alice = Alice
  Bob = Bob
  Judge = Judge
  Agents = Agents
  Address = {Alice, Bob, Judge}
  NoAddress = NoAddress
  Refusers = {Bob}
  Arbiter = Judge
  Treasury = Judge
  RequiredStake = 3
  RequiredChallengeBond = 2
  ChallengeWindow = 2
  ChallengeResolutionWindow = 1
  ProtocolFeeBps = 2500
  ResolutionFeeBps = 2500
  MsgValues = {2, 3, 4}
  LastOpening = 1
  MaxTime = 6
  Registry = {Agents}
  AgentId = {1, 2}
  InitialOwner <- OwnerOf
  Transferable <- Nobody
  Bounties = {4}
  ResponseWindows = {1}
  Eligibilities <- EveryRule
  BatchSizes = {1, 2}
  MaxRequests = 1
  MaxClaims = 2
INVARIANTS
  RequestSystemTypeOK
  RequestSolvency
  TotalsMatchClaims
  WindowsAreKept
  RequiredIdentityIsUnchallenged
PROPERTIES
  ClassifiedClaimsAreFinal
  ClaimsFollowLifecycle
  EverybodyIsPaid
CHECK_DEADLOCK FALSE
